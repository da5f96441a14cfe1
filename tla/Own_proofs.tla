----------------------------- MODULE Own_proofs -----------------------------
(***************************************************************************)
(* The ownership checker, for any number of locals: the merge of flows is  *)
(* a least upper bound, and what follows for the rounds of check_while     *)
(* (OwnFlow, OwnLoop); the checker takes no local for valid that is not,   *)
(* behind a simple statement (OwnStep), on a path (OwnPath), and in every  *)
(* body made of branches, loops and tries (OwnBody).                       *)
(***************************************************************************)
EXTENDS OwnLoop, OwnPath, OwnBody, FiniteSetTheorems, TLAPS

LEMMA JoinType ==
  ASSUME NEW f \in Flow, NEW g \in Flow
  PROVE  flow_join(f, g) \in Flow
<1>1. \A a, b \in OwnState : st_join(a, b) \in OwnState
  BY DEF OwnState, st_join
<1> QED
  BY <1>1 DEF flow_join, Flow

LEMMA JoinLive ==
  ASSUME NEW f \in Flow, NEW g \in Flow, ~f.dead
  PROVE  ~flow_join(f, g).dead
  BY DEF flow_join, Flow

LEMMA DeadFlowType == DeadFlow \in Flow /\ DeadFlow.dead
  BY DEF DeadFlow, Flow, OwnState

\* A merged flow leaves out nothing that either of its parts reports.
THEOREM JoinCovers ==
  ASSUME NEW f \in Flow, NEW g \in Flow
  PROVE  Covers(flow_join(f, g), f) /\ Covers(flow_join(f, g), g)
<1>1. CASE g.dead
  BY <1>1 DEF flow_join, Covers, Flow
<1>2. CASE ~g.dead /\ f.dead
  BY <1>2 DEF flow_join, Covers, Flow
<1>3. CASE ~g.dead /\ ~f.dead
  <2> DEFINE j == flow_join(f, g)
  <2>1. j = [dead |-> FALSE, st |-> [v \in Local |-> st_join(f.st[v], g.st[v])]]
    BY <1>3 DEF flow_join
  <2>2. ~j.dead /\ \A v \in Local : j.st[v] = st_join(f.st[v], g.st[v])
    BY <2>1
  <2>3. \A v \in Local : j.st[v] \in {f.st[v], "maybe"} /\ j.st[v] \in {g.st[v], "maybe"}
    BY <2>2 DEF st_join
  <2> HIDE DEF j
  <2>4. Covers(j, f) /\ Covers(j, g)
    BY <2>2, <2>3 DEF Covers
  <2> QED
    BY <2>4 DEF j
<1> QED
  BY <1>1, <1>2, <1>3

\* And it reports nothing without need: every flow that covers both parts
\* covers it too.
THEOREM JoinLeast ==
  ASSUME NEW f \in Flow, NEW g \in Flow, NEW h \in Flow, Covers(h, f), Covers(h, g)
  PROVE  Covers(h, flow_join(f, g))
<1>1. CASE g.dead \/ f.dead
  BY <1>1 DEF flow_join
<1>2. CASE ~g.dead /\ ~f.dead
  <2> DEFINE j == flow_join(f, g)
  <2>1. j = [dead |-> FALSE, st |-> [v \in Local |-> st_join(f.st[v], g.st[v])]]
    BY <1>2 DEF flow_join
  <2>2. \A v \in Local : j.st[v] = st_join(f.st[v], g.st[v])
    BY <2>1
  <2> HIDE DEF j
  <2>3. ~h.dead /\ \A v \in Local : h.st[v] \in {f.st[v], "maybe"}
                                    /\ h.st[v] \in {g.st[v], "maybe"}
    BY <1>2 DEF Covers
  <2>4. \A v \in Local : h.st[v] \in {j.st[v], "maybe"}
    BY <2>2, <2>3 DEF st_join
  <2>5. Covers(h, j)
    BY <2>3, <2>4 DEF Covers
  <2> QED
    BY <2>5 DEF j
<1> QED
  BY <1>1, <1>2

LEMMA CoversTrans ==
  ASSUME NEW f \in Flow, NEW g \in Flow, NEW h \in Flow,
         ~g.dead, Covers(f, g), Covers(g, h)
  PROVE  Covers(f, h)
  BY DEF Covers

\* A merge that changes a live flow makes one more local "maybe".
LEMMA JoinGrows ==
  ASSUME NEW f \in Flow, NEW g \in Flow, ~f.dead, flow_join(f, g) # f
  PROVE  Maybe(f) \subseteq Maybe(flow_join(f, g)) /\ Maybe(f) # Maybe(flow_join(f, g))
<1> DEFINE j == flow_join(f, g)
<1>1. ~g.dead
  BY DEF flow_join
<1>2. j = [dead |-> FALSE, st |-> [v \in Local |-> st_join(f.st[v], g.st[v])]]
  BY <1>1 DEF flow_join
<1>3. \A v \in Local : j.st[v] = st_join(f.st[v], g.st[v])
  BY <1>2
<1>4. f = [dead |-> FALSE, st |-> [v \in Local |-> f.st[v]]]
  BY DEF Flow
<1>5. PICK v \in Local : j.st[v] # f.st[v]
  <2> SUFFICES ASSUME \A v \in Local : j.st[v] = f.st[v] PROVE FALSE
    OBVIOUS
  <2>1. [v \in Local |-> st_join(f.st[v], g.st[v])] = [v \in Local |-> f.st[v]]
    BY <1>3
  <2>2. j = f
    BY <2>1, <1>2, <1>4
  <2> QED
    BY <2>2
<1> HIDE DEF j
<1>6. v \in Maybe(j) /\ v \notin Maybe(f)
  BY <1>3, <1>5 DEF Maybe, st_join
<1>7. Maybe(f) \subseteq Maybe(j)
  BY <1>3 DEF Maybe, st_join
<1> QED
  BY <1>6, <1>7 DEF j

LEMMA MaybeFinite ==
  ASSUME NEW f
  PROVE  IsFiniteSet(Maybe(f)) /\ Cardinality(Maybe(f)) \in Nat
                               /\ Cardinality(Maybe(f)) <= Cardinality(Local)
<1>1. Maybe(f) \subseteq Local
  BY DEF Maybe
<1> QED
  BY <1>1, FiniteAssumption, FS_Subset, FS_CardinalityType

-----------------------------------------------------------------------------
Inv == TypeOK /\ EntrySound /\ RoundsBounded

LEMMA InitInv == Init => Inv
<1> SUFFICES ASSUME Init PROVE Inv
  OBVIOUS
<1>1. TypeOK
  BY DeadFlowType DEF Init, TypeOK
<1>2. EntrySound
  BY DeadFlowType DEF Init, EntrySound, Covers, Flow
<1>3. RoundsBounded
  BY MaybeFinite DEF Init, RoundsBounded
<1> QED
  BY <1>1, <1>2, <1>3 DEF Inv

LEMMA AgainInv ==
  ASSUME Inv, NEW back \in Flow, Again(back)
  PROVE  Inv'
<1> USE DEF Inv, TypeOK
<1>1. entry' \in Flow /\ ~entry'.dead
  BY JoinType, JoinLive DEF Again
<1>2. TypeOK'
  BY <1>1 DEF Again
<1>3. Covers(entry', entry) /\ Covers(entry', back)
  BY JoinCovers DEF Again
<1>4. Covers(entry', before)
  BY <1>1, <1>3, CoversTrans DEF EntrySound
<1>5. EntrySound'
  BY <1>3, <1>4 DEF Again, EntrySound
<1>6. RoundsBounded'
  <2>1. Maybe(entry) \subseteq Maybe(entry') /\ Maybe(entry) # Maybe(entry')
    BY JoinGrows DEF Again
  <2>2. /\ IsFiniteSet(Maybe(entry'))
        /\ Cardinality(Maybe(entry)) \in Nat
        /\ Cardinality(Maybe(entry')) \in Nat
    BY MaybeFinite
  <2>3. Cardinality(Maybe(entry)) < Cardinality(Maybe(entry'))
    BY <2>1, <2>2, FS_Subset
  <2>4. round <= Cardinality(Maybe(entry)) /\ round \in Nat /\ round' = round + 1
    BY DEF RoundsBounded, Again
  <2>5. round' <= Cardinality(Maybe(entry'))
    BY <2>2, <2>3, <2>4
  <2>6. Maybe(entry)' = Maybe(entry')
    BY DEF Maybe
  <2> QED
    BY <2>5, <2>6 DEF RoundsBounded
<1> QED
  BY <1>2, <1>5, <1>6

LEMMA SettleInv ==
  ASSUME Inv, NEW back \in Flow, Settle(back)
  PROVE  Inv'
<1> USE DEF Inv, TypeOK
<1>1. TypeOK'
  BY DEF Settle
<1>2. EntrySound'
  <2>1. Covers(entry, back)
    BY JoinCovers DEF Settle
  <2> QED
    BY <2>1 DEF Settle, EntrySound
<1>3. RoundsBounded'
  BY DEF Settle, RoundsBounded, Maybe
<1> QED
  BY <1>1, <1>2, <1>3

LEMMA StutterInv == Inv /\ UNCHANGED vars => Inv'
  BY DEF Inv, TypeOK, EntrySound, RoundsBounded, Maybe, Covers, vars

\* The flow at the head of a loop leaves out nothing that reaches the head,
\* whatever the body is (check_while).
THEOREM LoopSound == Spec => []EntrySound
<1>1. Inv /\ [Next]_vars => Inv'
  BY AgainInv, SettleInv, StutterInv DEF Next
<1>2. Inv => EntrySound
  BY DEF Inv
<1> QED
  BY InitInv, <1>1, <1>2, PTL DEF Spec

\* The rounds of check_while that change the entry are no more than the
\* locals of the function, whatever the body is.
THEOREM RoundsAreBounded == Spec => [](RoundsBounded /\ round <= Cardinality(Local))
<1>1. Inv /\ [Next]_vars => Inv'
  BY AgainInv, SettleInv, StutterInv DEF Next
<1>2. Inv => RoundsBounded /\ round <= Cardinality(Local)
  <2> SUFFICES ASSUME Inv PROVE RoundsBounded /\ round <= Cardinality(Local)
    OBVIOUS
  <2>1. Cardinality(Maybe(entry)) \in Nat /\ Cardinality(Maybe(entry)) <= Cardinality(Local)
    BY MaybeFinite
  <2>2. Cardinality(Local) \in Nat
    BY FiniteAssumption, FS_CardinalityType
  <2> QED
    BY <2>1, <2>2 DEF Inv, TypeOK, RoundsBounded
<1> QED
  BY InitInv, <1>1, <1>2, PTL DEF Spec

-----------------------------------------------------------------------------
\* What local v is to hold when it is valid.
Value(e, v) == IF v \in Slot /\ e.loan[v] # None THEN e.loan[v] ELSE "own"

Right(e, m) ==
  /\ e \in Env /\ ~e.err
  /\ m \in Memory
  /\ \A v \in Local : e.f.st[v] = "valid" => m[v] = Value(e, v)

LEMMA ValueFacts ==
  ASSUME NEW e \in Env, NEW v \in Local
  PROVE  /\ Value(e, v) \in Owner \cup {"own"}
         /\ Value(e, v) \notin {"moved", "freed"}
         /\ Owned(e, v) <=> Value(e, v) = "own"
<1>1. v \in Slot => e.loan[v] \in Owner \cup {None} /\ v \notin Owner
  BY LocalsAssumption DEF Env, LoanTable
<1>2. v \notin Slot => v \in Owner
  BY DEF Local
<1>3. None \notin Owner /\ \A x \in Owner : x \notin {"own", "moved", "freed"}
  BY LocalsAssumption, ValuesAssumption DEF Local
<1> QED
  BY <1>1, <1>2, <1>3 DEF Value, Owned

LEMMA UseFacts ==
  ASSUME NEW e \in Env, NEW v \in Local
  PROVE  /\ Use(e, v) \in Env
         /\ Use(e, v).f = e.f /\ Use(e, v).loan = e.loan
         /\ ~Use(e, v).err <=> ~e.err /\ e.f.st[v] = "valid"
  BY DEF Use, Report, Env

\* The states after the aliases of x have gone stale.
LEMMA StaleFacts ==
  ASSUME NEW f \in Flow, NEW loan \in LoanTable, NEW x
  PROVE  /\ invalidate_loans(f, loan, x) \in Flow
         /\ \A v \in Local : invalidate_loans(f, loan, x).st[v]
                               = IF v \in Slot /\ loan[v] = x THEN "moved" ELSE f.st[v]
<1> DEFINE st == [v \in Local |-> IF v \in Slot /\ loan[v] = x THEN "moved" ELSE f.st[v]]
<1>1. st \in [Local -> OwnState]
  BY DEF Flow, OwnState
<1>2. invalidate_loans(f, loan, x) = [f EXCEPT !.st = st]
  BY DEF invalidate_loans
<1> HIDE DEF st
<1>3. invalidate_loans(f, loan, x) \in Flow /\ invalidate_loans(f, loan, x).st = st
  BY <1>1, <1>2 DEF Flow
<1> QED
  BY <1>3 DEF st

LEMMA SetFacts ==
  ASSUME NEW f \in Flow, NEW v \in Local
  PROVE  /\ flow_clear(f, v) \in Flow /\ flow_move(f, v) \in Flow
         /\ \A w \in Local : /\ flow_clear(f, v).st[w] = IF w = v THEN "valid" ELSE f.st[w]
                             /\ flow_move(f, v).st[w] = IF w = v THEN "moved" ELSE f.st[w]
  BY DEF flow_clear, flow_move, Flow, OwnState

LEMMA MoveFacts ==
  ASSUME NEW e \in Env, NEW v \in Local
  PROVE  /\ Move(e, v) \in Env /\ Move(e, v).loan = e.loan
         /\ ~Move(e, v).err <=> ~e.err /\ e.f.st[v] = "valid"
         /\ \A w \in Local : Move(e, v).f.st[w] =
              IF w = v \/ (w \in Slot /\ e.loan[w] = v) THEN "moved" ELSE e.f.st[w]
<1> DEFINE u == Use(e, v)
           f == invalidate_loans(flow_move(e.f, v), e.loan, v)
<1>1. u \in Env /\ u.f = e.f /\ u.loan = e.loan /\ (~u.err <=> ~e.err /\ e.f.st[v] = "valid")
  BY UseFacts
<1>2. e.f \in Flow /\ e.loan \in LoanTable
  BY DEF Env
<1>3. f \in Flow /\ \A w \in Local : f.st[w] =
        IF w = v \/ (w \in Slot /\ e.loan[w] = v) THEN "moved" ELSE e.f.st[w]
  <2> DEFINE g == flow_move(e.f, v)
  <2>1. g \in Flow /\ \A w \in Local : g.st[w] = IF w = v THEN "moved" ELSE e.f.st[w]
    BY <1>2 DEF flow_move, Flow, OwnState
  <2> HIDE DEF g
  <2>2. invalidate_loans(g, e.loan, v) \in Flow
    BY <1>2, <2>1, StaleFacts
  <2>3. \A w \in Local : invalidate_loans(g, e.loan, v).st[w] =
          IF w \in Slot /\ e.loan[w] = v THEN "moved" ELSE g.st[w]
    <3> DEFINE l == e.loan
    <3>1. g \in Flow /\ l \in LoanTable
      BY <1>2, <2>1
    <3> HIDE DEF l
    <3>2. \A w \in Local : invalidate_loans(g, l, v).st[w] =
            IF w \in Slot /\ l[w] = v THEN "moved" ELSE g.st[w]
      BY <3>1, StaleFacts
    <3> QED
      BY <3>2 DEF l
  <2>4. \A w \in Local : invalidate_loans(g, e.loan, v).st[w] =
          IF w = v \/ (w \in Slot /\ e.loan[w] = v) THEN "moved" ELSE e.f.st[w]
    BY <2>1, <2>3
  <2> QED
    BY <2>2, <2>4 DEF g
<1>4. Move(e, v) = [u EXCEPT !.f = f]
  BY <1>1 DEF Move
<1> HIDE DEF u, f
<1> QED
  BY <1>1, <1>3, <1>4 DEF Env

\* Taking a value over reports nothing of its own.
LEMMA BindErr ==
  ASSUME NEW e \in Env, NEW v, NEW x
  PROVE  Bind(e, v, x).err = e.err
BY DEF Bind, Env

LEMMA BindFacts ==
  ASSUME NEW e \in Env, NEW v \in Slot, NEW x \in Owner \cup {None}
  PROVE  /\ Bind(e, v, x) \in Env /\ Bind(e, v, x).err = e.err
         /\ Bind(e, v, x).loan = [e.loan EXCEPT ![v] = x]
         /\ \A w \in Local : Bind(e, v, x).f.st[w] = IF w = v THEN "valid" ELSE e.f.st[w]
<1> DEFINE l == [e.loan EXCEPT ![v] = x]
           f == flow_clear(e.f, v)
<1>1. v \in Local /\ e.f \in Flow /\ e.loan \in LoanTable
  BY DEF Local, Env
<1>2. l \in LoanTable
  BY <1>1 DEF LoanTable
<1>3. f \in Flow /\ \A w \in Local : f.st[w] = IF w = v THEN "valid" ELSE e.f.st[w]
  BY <1>1 DEF flow_clear, Flow, OwnState
<1>4. Bind(e, v, x) = [e EXCEPT !.loan = l, !.f = f]
  BY DEF Bind, Env
<1> HIDE DEF l, f
<1> QED
  BY <1>2, <1>3, <1>4 DEF Env, l

LEMMA TypedFacts ==
  ASSUME NEW s \in Statement
  PROVE  /\ s.op \in {"use", "eat", "renew"} => s.x \in Local
         /\ s.op \in {"set", "borrow", "store"} \/ (s.op = "renew" /\ s.x \notin Slot)
              => (s.op = "borrow" /\ s.x \in Slot /\ s.y \in Owner) \/ s.x \in Owner
         /\ s.op = "assign" => s.x \in Slot /\ s.y \in Slot
         /\ s.op = "store" => s.y \in Slot
  BY DEF Statement, Typed, Local

\* What a valid local holds is neither moved nor freed, and an owned value is
\* its own.
LEMMA RightFacts ==
  ASSUME NEW e, NEW m, Right(e, m), NEW v \in Local, e.f.st[v] = "valid"
  PROVE  /\ m[v] = Value(e, v) /\ m[v] \notin {"moved", "freed"}
         /\ Owned(e, v) => m[v] = "own" /\ m[v] \notin Owner
<1>1. e \in Env /\ m[v] = Value(e, v)
  BY DEF Right
<1>2. "own" \notin Owner
  BY ValuesAssumption DEF Local
<1> QED
  BY <1>1, <1>2, ValueFacts

\* The memory after the field of x was given back.
LEMMA DangleFacts ==
  ASSUME NEW m \in Memory, NEW x
  PROVE  /\ Dangle(m, x) \in Memory
         /\ \A v \in Local : Dangle(m, x)[v] = IF m[v] = x THEN "freed" ELSE m[v]
  BY DEF Dangle, Memory

LEMMA UseStep ==
  ASSUME NEW e, NEW m, Right(e, m), NEW s \in Statement, s.op = "use", ~Checked(e, s).err
  PROVE  Fault(s, m) = {} /\ Right(Checked(e, s), After(s, m))
<1>1. s.x \in Local /\ e \in Env
  BY TypedFacts DEF Right
<1>2. Checked(e, s) = Use(e, s.x) /\ After(s, m) = m
  BY DEF Checked, After
<1>3. e.f.st[s.x] = "valid"
  BY <1>1, <1>2, UseFacts
<1>4. Fault(s, m) = {}
  BY <1>1, <1>3, RightFacts DEF Fault
<1>5. Right(Use(e, s.x), m)
  BY <1>1, <1>2, UseFacts DEF Right, Value
<1> QED
  BY <1>2, <1>4, <1>5

\* A local that owned its value has given it away.
LEMMA EatStep ==
  ASSUME NEW e, NEW m, Right(e, m), NEW v \in Local, ~Eat(e, v).err
  PROVE  /\ e.f.st[v] = "valid" /\ Owned(e, v) /\ Eat(e, v) = Move(e, v)
         /\ m[v] = "own"
         /\ Right(Eat(e, v), [Dangle(m, v) EXCEPT ![v] = "moved"])
<1>1. e \in Env /\ m \in Memory
  BY DEF Right
<1>2. Owned(e, v)
  <2> SUFFICES ASSUME ~Owned(e, v) PROVE Eat(e, v).err
    OBVIOUS
  <2>1. Eat(e, v) = [Use(e, v) EXCEPT !.err = Use(e, v).err \/ TRUE]
    BY DEF Eat, Report
  <2> QED
    BY <1>1, <2>1, UseFacts DEF Env
<1>3. Eat(e, v) = Move(e, v)
  BY <1>2 DEF Eat
<1>4. e.f.st[v] = "valid"
  BY <1>1, <1>3, MoveFacts
<1>5. m[v] = "own"
  BY <1>2, <1>4, RightFacts
<1> DEFINE n == [Dangle(m, v) EXCEPT ![v] = "moved"]
<1>6. n \in Memory /\ \A w \in Local : n[w] = IF w = v THEN "moved" ELSE IF m[w] = v THEN "freed" ELSE m[w]
  <2>1. Dangle(m, v) \in Memory /\ \A w \in Local : Dangle(m, v)[w] = IF m[w] = v THEN "freed" ELSE m[w]
    BY <1>1, DangleFacts
  <2> QED
    BY <2>1 DEF Memory
<1> DEFINE d == Move(e, v)
<1>7. /\ d \in Env /\ d.loan = e.loan /\ ~d.err
      /\ \A w \in Local : d.f.st[w] =
           IF w = v \/ (w \in Slot /\ e.loan[w] = v) THEN "moved" ELSE e.f.st[w]
  BY <1>1, <1>3, <1>4, MoveFacts DEF Right
<1> HIDE DEF n, d
<1>8. ASSUME NEW w \in Local, d.f.st[w] = "valid" PROVE n[w] = Value(d, w)
  <2>1. w # v /\ ~(w \in Slot /\ e.loan[w] = v) /\ e.f.st[w] = "valid"
    BY <1>7, <1>8
  <2>2. m[w] = Value(e, w) /\ Value(d, w) = Value(e, w)
    BY <2>1, <1>7 DEF Right, Value
  <2>3. m[w] # v
    <3>1. CASE w \in Slot /\ e.loan[w] # None
      BY <2>1, <2>2, <3>1 DEF Value
    <3>2. CASE ~(w \in Slot /\ e.loan[w] # None)
      <4>1. m[w] = "own"
        BY <2>2, <3>2 DEF Value
      <4> QED
        BY <4>1, ValuesAssumption
    <3> QED
      BY <3>1, <3>2
  <2> QED
    BY <1>6, <2>1, <2>2, <2>3
<1> QED
  BY <1>2, <1>3, <1>4, <1>5, <1>6, <1>7, <1>8 DEF Right, n, d

\* Nothing points into a slot.
LEMMA SlotFacts ==
  ASSUME NEW m \in Memory, NEW v \in Slot
  PROVE  Dangle(m, v) = m
<1>1. v \in Local /\ v \notin Owner /\ v \notin {"own", "moved", "freed"}
  BY LocalsAssumption, ValuesAssumption DEF Local
<1>2. \A w \in Local : m[w] # v
  BY <1>1 DEF Memory
<1> QED
  BY <1>2 DEF Dangle, Memory

\* A slot that is bound holds what it was bound to.
LEMMA BindStep ==
  ASSUME NEW e, NEW m, Right(e, m), NEW v \in Slot, NEW x \in Owner \cup {None}
  PROVE  Right(Bind(e, v, x), [m EXCEPT ![v] = IF x = None THEN "own" ELSE x])
<1> DEFINE d == Bind(e, v, x)
           n == [m EXCEPT ![v] = IF x = None THEN "own" ELSE x]
<1>1. e \in Env /\ ~e.err /\ m \in Memory /\ v \in Local
  BY DEF Right, Local
<1>2. /\ d \in Env /\ ~d.err /\ d.loan = [e.loan EXCEPT ![v] = x]
      /\ \A w \in Local : d.f.st[w] = IF w = v THEN "valid" ELSE e.f.st[w]
  BY <1>1, BindFacts
<1>3. n \in Memory /\ \A w \in Local : n[w] = IF w = v THEN (IF x = None THEN "own" ELSE x) ELSE m[w]
  BY <1>1 DEF Memory
<1>4. e.loan \in LoanTable
  BY <1>1 DEF Env
<1> HIDE DEF d, n
<1>5. d.loan[v] = x /\ \A w \in Slot : w # v => d.loan[w] = e.loan[w]
  BY <1>2, <1>4 DEF LoanTable
<1>6. ASSUME NEW w \in Local, d.f.st[w] = "valid" PROVE n[w] = Value(d, w)
  <2>1. CASE w = v
    BY <2>1, <1>3, <1>5 DEF Value
  <2>2. CASE w # v
    <3>1. e.f.st[w] = "valid" /\ n[w] = m[w]
      BY <2>2, <1>2, <1>3, <1>6
    <3>2. Value(d, w) = Value(e, w)
      BY <2>2, <1>5 DEF Value
    <3> QED
      BY <3>1, <3>2 DEF Right
  <2> QED
    BY <2>1, <2>2
<1>7. Right(d, n)
  BY <1>2, <1>3, <1>6 DEF Right
<1> QED
  BY <1>7 DEF d, n

LEMMA RenewStep ==
  ASSUME NEW e, NEW m, Right(e, m), NEW v \in Local
  PROVE  Right(Renew(e, v), [Dangle(m, v) EXCEPT ![v] = "own"])
<1>1. e \in Env /\ ~e.err /\ m \in Memory /\ e.f \in Flow /\ e.loan \in LoanTable
  BY DEF Right, Env
<1>2. CASE v \notin Owner
  <2>1. v \in Slot /\ Renew(e, v) = Bind(e, v, None) /\ Dangle(m, v) = m
    BY <1>1, <1>2, SlotFacts DEF Local, Renew
  <2>2. Right(Bind(e, v, None), [m EXCEPT ![v] = "own"])
    BY <2>1, BindStep
  <2> QED
    BY <2>1, <2>2
<1>3. CASE v \in Owner
  <2> DEFINE g == invalidate_loans(e.f, e.loan, v)
             f == flow_clear(g, v)
             n == [Dangle(m, v) EXCEPT ![v] = "own"]
  <2>1. g \in Flow /\ \A w \in Local : g.st[w] = IF w \in Slot /\ e.loan[w] = v THEN "moved" ELSE e.f.st[w]
    <3> DEFINE h == e.f
               l == e.loan
    <3>1. h \in Flow /\ l \in LoanTable
      BY <1>1
    <3> HIDE DEF h, l
    <3>2. /\ invalidate_loans(h, l, v) \in Flow
          /\ \A w \in Local : invalidate_loans(h, l, v).st[w]
                                = IF w \in Slot /\ l[w] = v THEN "moved" ELSE h.st[w]
      BY <3>1, StaleFacts
    <3> QED
      BY <3>2 DEF h, l
  <2> HIDE DEF g
  <2>2. f \in Flow /\ \A w \in Local : f.st[w] = IF w = v THEN "valid" ELSE g.st[w]
    BY <2>1 DEF flow_clear, Flow, OwnState
  <2>3. n \in Memory /\ \A w \in Local : n[w] = IF w = v THEN "own" ELSE IF m[w] = v THEN "freed" ELSE m[w]
    <3>1. Dangle(m, v) \in Memory /\ \A w \in Local : Dangle(m, v)[w] = IF m[w] = v THEN "freed" ELSE m[w]
      BY <1>1, DangleFacts
    <3> QED
      BY <3>1 DEF Memory
  <2>4. Renew(e, v) = [e EXCEPT !.f = f]
    BY <1>3 DEF Renew, g
  <2> HIDE DEF f, n
  <2> DEFINE d == [e EXCEPT !.f = f]
  <2>5. d \in Env /\ ~d.err /\ d.f = f /\ d.loan = e.loan
    BY <1>1, <2>2 DEF Env
  <2> HIDE DEF d
  <2>6. ASSUME NEW w \in Local, d.f.st[w] = "valid" PROVE n[w] = Value(d, w)
    <3>1. CASE w = v
      BY <3>1, <1>3, <2>3, LocalsAssumption DEF Value
    <3>2. CASE w # v
      <4>1. ~(w \in Slot /\ e.loan[w] = v) /\ e.f.st[w] = "valid"
        BY <3>2, <2>1, <2>2, <2>5, <2>6
      <4>2. m[w] = Value(e, w) /\ Value(d, w) = Value(e, w)
        BY <4>1, <2>5 DEF Right, Value
      <4>3. Value(e, w) # v
        BY <4>1, ValuesAssumption DEF Value
      <4> QED
        BY <3>2, <4>2, <4>3, <2>3
    <3> QED
      BY <3>1, <3>2
  <2>7. Right(d, n)
    BY <2>3, <2>5, <2>6 DEF Right
  <2> QED
    BY <2>4, <2>7 DEF d, n
<1> QED
  BY <1>2, <1>3

\* A slot that borrows from x points into x.
LEMMA LendStep ==
  ASSUME NEW e, NEW m, Right(e, m), NEW v \in Slot, NEW x \in Owner
  PROVE  Right(Bind(e, v, x), [m EXCEPT ![v] = x])
<1>1. x # None
  BY LocalsAssumption DEF Local
<1>2. x \in Owner \cup {None}
  OBVIOUS
<1>3. Right(Bind(e, v, x), [m EXCEPT ![v] = IF x = None THEN "own" ELSE x])
  BY <1>2, BindStep
<1>4. (IF x = None THEN "own" ELSE x) = x
  BY <1>1
<1> QED
  BY <1>3, <1>4

LEMMA BorrowStep ==
  ASSUME NEW e, NEW m, Right(e, m), NEW v \in Slot, NEW x \in Owner, ~Borrow(e, v, x).err
  PROVE  e.f.st[x] = "valid" /\ Right(Borrow(e, v, x), [m EXCEPT ![v] = x])
<1>1. e \in Env /\ m \in Memory /\ x \in Local
  BY DEF Right, Local
<1> DEFINE u == Use(e, x)
<1>2. u \in Env /\ u.f = e.f /\ u.loan = e.loan /\ (~u.err <=> ~e.err /\ e.f.st[x] = "valid")
  BY <1>1, UseFacts
<1>3. Borrow(e, v, x) = Bind(u, v, x)
  BY DEF Borrow
<1> HIDE DEF u
<1>4. Bind(u, v, x).err = u.err
  BY <1>2, BindErr
<1>5. Right(u, m) /\ e.f.st[x] = "valid"
  BY <1>1, <1>2, <1>3, <1>4 DEF Right, Value
<1> QED
  BY <1>3, <1>5, LendStep

LEMMA AssignStep ==
  ASSUME NEW e, NEW m, Right(e, m), NEW v \in Slot, NEW w \in Slot, ~Assign(e, v, w).err
  PROVE  /\ e.f.st[w] = "valid"
         /\ Right(Assign(e, v, w),
                  [m EXCEPT ![w] = IF m[w] = "own" THEN "moved" ELSE m[w], ![v] = m[w]])
<1>1. e \in Env /\ m \in Memory /\ v \in Local /\ w \in Local
  BY DEF Right, Local
<1>2. CASE Owned(e, w)
  <2> DEFINE d == Move(e, w)
  <2>1. Assign(e, v, w) = Bind(d, v, None) /\ Eat(e, w) = d
    BY <1>2 DEF Assign, Eat
  <2>2. d \in Env
    BY <1>1, MoveFacts
  <2> HIDE DEF d
  <2>3. ~d.err
    <3>1. ~Bind(d, v, None).err
      BY <2>1
    <3> QED
      BY <3>1, <2>2, BindErr
  <2>4. e.f.st[w] = "valid" /\ m[w] = "own" /\ Right(d, [Dangle(m, w) EXCEPT ![w] = "moved"])
    BY <1>1, <2>1, <2>3, EatStep
  <2>5. Right(d, [m EXCEPT ![w] = "moved"])
    BY <1>1, <2>4, SlotFacts
  <2>6. Right(Bind(d, v, None), [[m EXCEPT ![w] = "moved"] EXCEPT ![v] = "own"])
    BY <2>5, BindStep
  <2> QED
    BY <2>1, <2>4, <2>6
<1>3. CASE ~Owned(e, w)
  <2> DEFINE u == Use(e, w)
             l == e.loan[w]
  <2>1. u \in Env /\ u.f = e.f /\ u.loan = e.loan /\ (~u.err <=> ~e.err /\ e.f.st[w] = "valid")
    BY <1>1, UseFacts
  <2>2. Assign(e, v, w) = Bind(u, v, l)
    BY <1>3 DEF Assign
  <2>3. l \in Owner
    BY <1>1, <1>3 DEF Owned, Env, LoanTable
  <2> HIDE DEF u
  <2>4. Bind(u, v, l).err = u.err
    BY <2>1, BindErr
  <2>5. Right(u, m) /\ e.f.st[w] = "valid"
    BY <1>1, <2>1, <2>2, <2>4 DEF Right, Value
  <2>6. l # None /\ l # "own" /\ m[w] = l
    BY <1>1, <2>3, <2>5, LocalsAssumption, ValuesAssumption DEF Local, Right, Value
  <2>7. Right(Bind(u, v, l), [m EXCEPT ![v] = l])
    <3> HIDE DEF l
    <3> QED
      BY <2>3, <2>5, LendStep
  <2>8. [m EXCEPT ![w] = IF m[w] = "own" THEN "moved" ELSE m[w], ![v] = m[w]] = [m EXCEPT ![v] = l]
    BY <1>1, <2>6 DEF Memory
  <2> QED
    BY <2>2, <2>5, <2>7, <2>8
<1> QED
  BY <1>2, <1>3

LEMMA SetStep ==
  ASSUME NEW e, NEW m, e \in Env, m \in Memory, NEW x \in Owner
  PROVE  /\ ~SetField(e, x).err => ~e.err /\ e.f.st[x] = "valid"
         /\ Right(e, m) /\ ~SetField(e, x).err => Right(SetField(e, x), Dangle(m, x))
<1> DEFINE g == invalidate_loans(e.f, e.loan, x)
           i == [e EXCEPT !.f = g]
           u == Use(i, x)
           f == flow_clear(u.f, x)
           d == [u EXCEPT !.f = f]
<1>1. e.f \in Flow /\ e.loan \in LoanTable /\ x \in Local /\ x \notin Slot
  BY LocalsAssumption DEF Env, Local
<1>2. g \in Flow /\ \A w \in Local : g.st[w] = IF w \in Slot /\ e.loan[w] = x THEN "moved" ELSE e.f.st[w]
  <2> DEFINE h == e.f
             l == e.loan
  <2>1. h \in Flow /\ l \in LoanTable
    BY <1>1
  <2> HIDE DEF h, l
  <2>2. /\ invalidate_loans(h, l, x) \in Flow
        /\ \A w \in Local : invalidate_loans(h, l, x).st[w]
                              = IF w \in Slot /\ l[w] = x THEN "moved" ELSE h.st[w]
    BY <2>1, StaleFacts
  <2> QED
    BY <2>2 DEF h, l
<1>3. SetField(e, x) = d
  BY DEF SetField
<1> HIDE DEF g
<1>4. i \in Env /\ i.f = g /\ i.loan = e.loan /\ i.err = e.err
  BY <1>2 DEF Env
<1> HIDE DEF i
<1>5. u \in Env /\ u.f = g /\ u.loan = e.loan /\ (~u.err <=> ~i.err /\ g.st[x] = "valid")
  <2>1. u \in Env /\ u.f = i.f /\ u.loan = i.loan /\ (~u.err <=> ~i.err /\ i.f.st[x] = "valid")
    BY <1>1, <1>4, UseFacts
  <2> QED
    BY <2>1, <1>4
<1> HIDE DEF u
<1>6. f \in Flow /\ \A w \in Local : f.st[w] = IF w = x THEN "valid" ELSE g.st[w]
  BY <1>1, <1>2, <1>5 DEF flow_clear, Flow, OwnState
<1> HIDE DEF f
<1>7. d \in Env /\ d.f = f /\ d.loan = e.loan /\ d.err = u.err
  BY <1>5, <1>6 DEF Env
<1> HIDE DEF d
<1>8. ~d.err => ~e.err /\ e.f.st[x] = "valid"
  BY <1>1, <1>2, <1>4, <1>5, <1>7
<1>9. ASSUME Right(e, m), ~d.err PROVE Right(d, Dangle(m, x))
  <2>1. Dangle(m, x) \in Memory /\ \A v \in Local : Dangle(m, x)[v] = IF m[v] = x THEN "freed" ELSE m[v]
    BY DangleFacts
  <2>2. ASSUME NEW w \in Local, d.f.st[w] = "valid" PROVE Dangle(m, x)[w] = Value(d, w)
    <3>1. ~(w \in Slot /\ e.loan[w] = x) /\ e.f.st[w] = "valid"
      BY <1>1, <1>2, <1>6, <1>7, <1>8, <1>9, <2>2
    <3>2. m[w] = Value(e, w) /\ Value(d, w) = Value(e, w)
      BY <3>1, <1>7, <1>9 DEF Right, Value
    <3>3. Value(e, w) # x
      BY <1>1, <3>1, ValuesAssumption DEF Value
    <3> QED
      BY <3>2, <3>3, <2>1
  <2> QED
    BY <1>7, <1>9, <2>1, <2>2 DEF Right
<1> QED
  BY <1>3, <1>8, <1>9

LEMMA StoreStep ==
  ASSUME NEW e, NEW m, Right(e, m), NEW x \in Owner, NEW v \in Slot, ~Store(e, x, v).err
  PROVE  /\ e.f.st[x] = "valid" /\ e.f.st[v] = "valid" /\ m[v] = "own"
         /\ Right(Store(e, x, v), [Dangle(m, x) EXCEPT ![v] = "moved"])
<1> DEFINE d == Eat(e, v)
           n == [m EXCEPT ![v] = "moved"]
<1>1. e \in Env /\ m \in Memory /\ v \in Local /\ x \in Local /\ x \notin Slot /\ x \notin {"own", "moved", "freed"}
  BY LocalsAssumption, ValuesAssumption DEF Right, Local
<1>2. d \in Env
  <2>1. CASE Owned(e, v)
    BY <2>1, <1>1, MoveFacts DEF Eat
  <2>2. CASE ~Owned(e, v)
    <3>1. Use(e, v) \in Env
      BY <1>1, UseFacts
    <3>2. d = [Use(e, v) EXCEPT !.err = Use(e, v).err \/ TRUE]
      BY <2>2 DEF Eat, Report
    <3> QED
      BY <3>1, <3>2 DEF Env
  <2> QED
    BY <2>1, <2>2
<1>3. n \in Memory /\ \A w \in Local : n[w] = IF w = v THEN "moved" ELSE m[w]
  BY <1>1 DEF Memory
<1>4. Store(e, x, v) = SetField(d, x)
  BY DEF Store
<1>5. ~d.err /\ d.f.st[x] = "valid"
  <2> HIDE DEF d, n
  <2> QED
    BY <1>2, <1>3, <1>4, SetStep
<1>6. e.f.st[v] = "valid" /\ Owned(e, v) /\ d = Move(e, v) /\ m[v] = "own"
      /\ Right(d, [Dangle(m, v) EXCEPT ![v] = "moved"])
  BY <1>1, <1>5, EatStep
<1>7. Right(d, n)
  BY <1>1, <1>6, SlotFacts
<1>8. e.f.st[x] = "valid"
  BY <1>1, <1>5, <1>6, MoveFacts
<1> HIDE DEF d
<1>9. Right(SetField(d, x), Dangle(n, x))
  <2> HIDE DEF n
  <2> QED
    BY <1>2, <1>3, <1>4, <1>7, SetStep
<1>10. Dangle(n, x) = [Dangle(m, x) EXCEPT ![v] = "moved"]
  BY <1>1, <1>3 DEF Dangle
<1> QED
  BY <1>4, <1>6, <1>8, <1>9, <1>10

\* A simple statement the checker has nothing to report of goes wrong in no
\* memory that is what the checker takes it to be, and leaves one that is: for
\* any number of locals, whatever they hold (stmt, check_use, move_expr,
\* bind_alias, assign_to; gen_stmt's moves and drops).
THEOREM StepSound ==
  ASSUME NEW e, NEW m, Right(e, m), NEW s \in Statement, ~Checked(e, s).err
  PROVE  Fault(s, m) = {} /\ Right(Checked(e, s), After(s, m))
<1>1. CASE s.op = "use"
  BY <1>1, UseStep
<1>2. CASE s.op = "eat"
  <2>1. s.x \in Local /\ Checked(e, s) = Eat(e, s.x) /\ After(s, m) = [Dangle(m, s.x) EXCEPT ![s.x] = "moved"]
    BY <1>2, TypedFacts DEF Checked, After
  <2>2. m[s.x] = "own" /\ Right(Eat(e, s.x), [Dangle(m, s.x) EXCEPT ![s.x] = "moved"])
    BY <2>1, EatStep
  <2>3. Fault(s, m) = {}
    BY <1>2, <2>2, ValuesAssumption DEF Fault, Local
  <2> QED
    BY <2>1, <2>2, <2>3
<1>3. CASE s.op = "renew"
  <2>1. s.x \in Local /\ Checked(e, s) = Renew(e, s.x) /\ After(s, m) = [Dangle(m, s.x) EXCEPT ![s.x] = "own"]
        /\ Fault(s, m) = {}
    BY <1>3, TypedFacts DEF Checked, After, Fault
  <2> QED
    BY <2>1, RenewStep
<1>4. CASE s.op = "borrow"
  <2>1. s.x \in Slot /\ s.y \in Owner /\ s.y \in Local
    BY <1>4 DEF Statement, Typed, Local
  <2>2. Checked(e, s) = Borrow(e, s.x, s.y) /\ After(s, m) = [m EXCEPT ![s.x] = s.y]
    BY <1>4 DEF Checked, After
  <2>3. e.f.st[s.y] = "valid" /\ Right(Borrow(e, s.x, s.y), [m EXCEPT ![s.x] = s.y])
    BY <2>1, <2>2, BorrowStep
  <2>4. Fault(s, m) = {}
    BY <1>4, <2>1, <2>3, RightFacts DEF Fault
  <2> QED
    BY <2>2, <2>3, <2>4
<1>5. CASE s.op = "assign"
  <2>1. s.x \in Slot /\ s.y \in Slot /\ s.y \in Local
    BY <1>5, TypedFacts DEF Local
  <2>2. Checked(e, s) = Assign(e, s.x, s.y)
        /\ After(s, m) = [m EXCEPT ![s.y] = IF m[s.y] = "own" THEN "moved" ELSE m[s.y], ![s.x] = m[s.y]]
    BY <1>5 DEF Checked, After
  <2>3. e.f.st[s.y] = "valid" /\ Right(Checked(e, s), After(s, m))
    <3> DEFINE x == s.x
               y == s.y
    <3>1. x \in Slot /\ y \in Slot /\ ~Assign(e, x, y).err
      BY <2>1, <2>2
    <3> HIDE DEF x, y
    <3>2. /\ e.f.st[y] = "valid"
          /\ Right(Assign(e, x, y), [m EXCEPT ![y] = IF m[y] = "own" THEN "moved" ELSE m[y], ![x] = m[y]])
      BY <3>1, AssignStep
    <3> QED
      BY <3>2, <2>2 DEF x, y
  <2>4. Fault(s, m) = {}
    BY <1>5, <2>1, <2>3, RightFacts DEF Fault
  <2> QED
    BY <2>3, <2>4
<1>6. CASE s.op = "set"
  <2>1. s.x \in Owner /\ s.x \in Local
    BY <1>6 DEF Statement, Typed, Local
  <2>2. Checked(e, s) = SetField(e, s.x) /\ After(s, m) = Dangle(m, s.x)
    BY <1>6 DEF Checked, After
  <2>3. e.f.st[s.x] = "valid" /\ Right(Checked(e, s), After(s, m))
    BY <2>1, <2>2, SetStep DEF Right
  <2>4. Fault(s, m) = {}
    BY <1>6, <2>1, <2>3, RightFacts DEF Fault
  <2> QED
    BY <2>3, <2>4
<1>7. CASE s.op = "store"
  <2>1. s.x \in Owner /\ s.y \in Slot /\ s.x \in Local /\ s.y \in Local
    BY <1>7 DEF Statement, Typed, Local
  <2>2. Checked(e, s) = Store(e, s.x, s.y) /\ After(s, m) = [Dangle(m, s.x) EXCEPT ![s.y] = "moved"]
    BY <1>7 DEF Checked, After
  <2>3. e.f.st[s.x] = "valid" /\ m[s.y] = "own" /\ Right(Checked(e, s), After(s, m))
    BY <2>1, <2>2, StoreStep
  <2>4. m[s.x] \notin {"moved", "freed"}
    BY <2>1, <2>3, RightFacts
  <2>5. Fault(s, m) = {}
    BY <1>7, <2>3, <2>4, ValuesAssumption DEF Fault, Local
  <2> QED
    BY <2>3, <2>5
<1>8. s.op \in {"use", "eat", "renew", "set", "borrow", "assign", "store"}
  BY DEF Statement
<1> QED
  BY <1>1, <1>2, <1>3, <1>4, <1>5, <1>6, <1>7, <1>8

\* Where other paths meet this one, the checker knows no more than it did.
LEMMA MeetStep ==
  ASSUME Right(env, mem), NEW f \in Flow, NEW loan \in LoanTable, Meets(f, loan)
  PROVE  Right(env', mem')
<1>1. env' = [env EXCEPT !.f = f, !.loan = loan] /\ mem' = mem /\ env \in Env
  BY DEF Meets, Right
<1>2. env' \in Env /\ env'.f = f /\ env'.loan = loan /\ env'.err = env.err
  BY <1>1 DEF Env
<1>3. ASSUME NEW v \in Local, f.st[v] = "valid" PROVE mem[v] = Value(env', v)
  <2>1. env.f.st[v] = "valid"
    <3>1. CASE env.f.dead
      BY <3>1, <1>3 DEF Meets, Covers
    <3>2. CASE ~env.f.dead
      BY <3>2, <1>3 DEF Meets, Covers
    <3> QED
      BY <3>1, <3>2
  <2>2. Value(env', v) = Value(env, v)
    BY <1>2, <1>3 DEF Meets, Value
  <2> QED
    BY <2>1, <2>2 DEF Right
<1> QED
  BY <1>1, <1>2, <1>3 DEF Right

\* At the beginning the checker is right about everything.
LEMMA StartRight ==
  ASSUME NEW loan \in LoanTable
  PROVE  /\ Start(loan) \in Env /\ Start(loan).f \in Flow /\ ~Start(loan).f.dead
         /\ Start(loan).loan = loan
         /\ Right(Start(loan), Arguments(loan))
<1>1. [dead |-> FALSE, st |-> [v \in Local |-> "valid"]] \in Flow
  BY DEF Flow, OwnState
<1>2. [brk |-> {}, cont |-> {}, raised |-> {}, lost |-> FALSE] \in Seen
  BY DEF Seen
<1>3. Start(loan) \in Env
  BY <1>1, <1>2, DeadFlowType DEF Start, Env
<1>4. Arguments(loan) \in Memory
  BY DEF Arguments, Memory, LoanTable
<1>5. \A v \in Local : Arguments(loan)[v] = Value(Start(loan), v)
  BY DEF Arguments, Value, Start
<1>6. /\ Start(loan).f \in Flow /\ ~Start(loan).f.dead /\ Start(loan).loan = loan
      /\ ~Start(loan).err
  BY <1>1 DEF Start
<1> QED
  BY <1>3, <1>4, <1>5, <1>6 DEF Right

\* On no path through the body of an accepted function is a moved or freed value
\* read, or a value given away twice: for any number of locals, statements and
\* meetings with other paths, as long as the aliases that are still valid where
\* paths meet have one loan (stmt, flow_join, check_while).
THEOREM PathsSafe == PathSpec => []PathSafe
<1>1. PathInit => Right(env, mem)
  BY StartRight DEF PathInit, Start
<1>2. Right(env, mem) /\ [PathNext]_pathVars => Right(env, mem)'
  <2> SUFFICES ASSUME Right(env, mem), [PathNext]_pathVars PROVE Right(env', mem')
    BY DEF Right, Value
  <2>1. ASSUME NEW s \in Statement, Runs(s) PROVE Right(env', mem')
    BY <2>1, StepSound DEF Runs
  <2>2. ASSUME NEW f \in Flow, NEW loan \in LoanTable, Meets(f, loan) PROVE Right(env', mem')
    BY <2>2, MeetStep
  <2>3. CASE UNCHANGED pathVars
    BY <2>3 DEF pathVars
  <2> QED
    BY <2>1, <2>2, <2>3 DEF PathNext
<1>3. Right(env, mem) => PathSafe
  BY StepSound DEF PathSafe
<1> QED
  BY <1>1, <1>2, <1>3, PTL DEF PathSpec

-----------------------------------------------------------------------------
(***************************************************************************)
(* What may be forgotten on the way through a body, and what may not.      *)
(***************************************************************************)
LEMMA EnvFacts ==
  ASSUME NEW e \in Env
  PROVE  /\ e.f \in Flow /\ e.loan \in LoanTable /\ e.brk \in Flow /\ e.cont \in Flow
         /\ e.err \in BOOLEAN /\ e.crash \in BOOLEAN /\ e.seen \in Seen
         /\ e.seen.brk \in SUBSET LoanTable /\ e.seen.cont \in SUBSET LoanTable
         /\ e.seen.raised \in SUBSET [f : Flow, loan : LoanTable] /\ e.seen.lost \in BOOLEAN
  BY DEF Env, Seen

LEMMA EndFlow ==
  ASSUME NEW f \in Flow
  PROVE  Ended(f) \in Flow /\ Ended(f).dead
  BY DEF Flow, Ended

LEMMA TrustsSelf == ASSUME NEW f PROVE Trusts(f, f)
  BY DEF Trusts

LEMMA TrustsTrans ==
  ASSUME NEW f, NEW g, NEW h, Trusts(f, g), Trusts(g, h)
  PROVE  Trusts(f, h)
  BY DEF Trusts

LEMMA CoversTrusts ==
  ASSUME NEW f \in Flow, NEW g \in Flow, Covers(f, g)
  PROVE  Trusts(f, g)
<1>1. \A v \in Local : f.st[v] \in {g.st[v], "maybe"} => (f.st[v] = "valid" => g.st[v] = "valid")
  OBVIOUS
<1> QED
  BY <1>1 DEF Covers, Trusts

LEMMA JoinTrusts ==
  ASSUME NEW f \in Flow, NEW g \in Flow
  PROVE  /\ flow_join(f, g) \in Flow
         /\ Trusts(flow_join(f, g), f) /\ Trusts(flow_join(f, g), g)
  BY JoinType, JoinCovers, CoversTrusts

\* From e the checker came to d: it forgot nothing it reported, and nothing of
\* the paths that end elsewhere.
Grown(e, d) ==
  /\ (e.err => d.err) /\ (e.crash => d.crash) /\ (e.seen.lost => d.seen.lost)
  /\ Trusts(d.brk, e.brk) /\ Trusts(d.cont, e.cont)
  /\ e.seen.brk \subseteq d.seen.brk /\ e.seen.cont \subseteq d.seen.cont
  /\ e.seen.raised \subseteq d.seen.raised

LEMMA GrownTrans ==
  ASSUME NEW e, NEW d, NEW c, Grown(e, d), Grown(d, c)
  PROVE  Grown(e, c)
<1>1. Trusts(c.brk, e.brk) /\ Trusts(c.cont, e.cont)
  BY TrustsTrans DEF Grown
<1> QED
  BY <1>1 DEF Grown

\* What the way through a body depends on.
Same(e, d) == e.f = d.f /\ e.loan = d.loan /\ e.brk = d.brk /\ e.cont = d.cont

LEMMA BreakFacts ==
  ASSUME NEW e \in Env
  PROVE  /\ Break(e) \in Env
         /\ Break(e).f = Ended(e.f) /\ Break(e).loan = e.loan
         /\ Break(e).brk = flow_join(e.brk, e.f) /\ Break(e).cont = e.cont
         /\ Break(e).err = e.err /\ Break(e).crash = e.crash
         /\ Break(e).seen.brk = e.seen.brk \cup {e.loan} /\ Break(e).seen.cont = e.seen.cont
         /\ Break(e).seen.raised = e.seen.raised /\ Break(e).seen.lost = e.seen.lost
<1> DEFINE s == [e.seen EXCEPT !.brk = @ \cup {e.loan}]
           f == Ended(e.f)
           b == flow_join(e.brk, e.f)
<1>1. f \in Flow /\ b \in Flow
  BY EnvFacts, EndFlow, JoinType
<1>2. s \in Seen /\ s.brk = e.seen.brk \cup {e.loan} /\ s.cont = e.seen.cont
      /\ s.raised = e.seen.raised /\ s.lost = e.seen.lost
  BY EnvFacts DEF Seen
<1>3. Break(e) = [e EXCEPT !.brk = b, !.f = f, !.seen = s]
  BY EnvFacts DEF Break, Env
<1> HIDE DEF s, f, b
<1>4. /\ Break(e) \in Env /\ Break(e).f = f /\ Break(e).loan = e.loan /\ Break(e).brk = b
      /\ Break(e).cont = e.cont /\ Break(e).err = e.err /\ Break(e).crash = e.crash
      /\ Break(e).seen = s
  BY <1>1, <1>2, <1>3 DEF Env
<1> QED
  BY <1>2, <1>4 DEF f, b

LEMMA ContinueFacts ==
  ASSUME NEW e \in Env
  PROVE  /\ Continue(e) \in Env
         /\ Continue(e).f = Ended(e.f) /\ Continue(e).loan = e.loan
         /\ Continue(e).brk = e.brk /\ Continue(e).cont = flow_join(e.cont, e.f)
         /\ Continue(e).err = e.err /\ Continue(e).crash = e.crash
         /\ Continue(e).seen.brk = e.seen.brk /\ Continue(e).seen.cont = e.seen.cont \cup {e.loan}
         /\ Continue(e).seen.raised = e.seen.raised /\ Continue(e).seen.lost = e.seen.lost
<1> DEFINE s == [e.seen EXCEPT !.cont = @ \cup {e.loan}]
           f == Ended(e.f)
           b == flow_join(e.cont, e.f)
<1>1. f \in Flow /\ b \in Flow
  BY EnvFacts, EndFlow, JoinType
<1>2. s \in Seen /\ s.cont = e.seen.cont \cup {e.loan} /\ s.brk = e.seen.brk
      /\ s.raised = e.seen.raised /\ s.lost = e.seen.lost
  BY EnvFacts DEF Seen
<1>3. Continue(e) = [e EXCEPT !.cont = b, !.f = f, !.seen = s]
  BY EnvFacts DEF Continue, Env
<1> HIDE DEF s, f, b
<1>4. /\ Continue(e) \in Env /\ Continue(e).f = f /\ Continue(e).loan = e.loan /\ Continue(e).cont = b
      /\ Continue(e).brk = e.brk /\ Continue(e).err = e.err /\ Continue(e).crash = e.crash
      /\ Continue(e).seen = s
  BY <1>1, <1>2, <1>3 DEF Env
<1> QED
  BY <1>2, <1>4 DEF f, b

LEMMA ReturnFacts ==
  ASSUME NEW e \in Env
  PROVE  /\ Return(e) \in Env
         /\ Return(e).f = Ended(e.f) /\ Return(e).loan = e.loan
         /\ Return(e).brk = e.brk /\ Return(e).cont = e.cont
         /\ Return(e).err = e.err /\ Return(e).crash = e.crash /\ Return(e).seen = e.seen
<1> DEFINE f == Ended(e.f)
<1>1. f \in Flow
  BY EnvFacts, EndFlow
<1>2. Return(e) = [e EXCEPT !.f = f]
  BY EnvFacts DEF Return, Env
<1> HIDE DEF f
<1>3. /\ Return(e) \in Env /\ Return(e).f = f /\ Return(e).loan = e.loan
      /\ Return(e).brk = e.brk /\ Return(e).cont = e.cont
      /\ Return(e).err = e.err /\ Return(e).crash = e.crash /\ Return(e).seen = e.seen
  BY <1>1, <1>2 DEF Env
<1> QED
  BY <1>3 DEF f

LEMMA CallFacts ==
  ASSUME NEW e \in Env
  PROVE  /\ Call(e) \in Env
         /\ Call(e).f = e.f /\ Call(e).loan = e.loan
         /\ Call(e).brk = e.brk /\ Call(e).cont = e.cont
         /\ Call(e).err = e.err /\ Call(e).crash = e.crash
         /\ Call(e).seen.brk = e.seen.brk /\ Call(e).seen.cont = e.seen.cont
         /\ Call(e).seen.raised = e.seen.raised \cup {[f |-> e.f, loan |-> e.loan]}
         /\ Call(e).seen.lost = e.seen.lost
<1> DEFINE r == e.seen.raised \cup {[f |-> e.f, loan |-> e.loan]}
           s == [e.seen EXCEPT !.raised = r]
<1>1. r \in SUBSET [f : Flow, loan : LoanTable]
  BY EnvFacts
<1> HIDE DEF r
<1>2. s \in Seen /\ s.cont = e.seen.cont /\ s.brk = e.seen.brk /\ s.raised = r /\ s.lost = e.seen.lost
  BY <1>1, EnvFacts DEF Seen
<1>3. Call(e) = [e EXCEPT !.seen = s]
  BY EnvFacts DEF Call, Env, r
<1> HIDE DEF s
<1>4. /\ Call(e) \in Env /\ Call(e).f = e.f /\ Call(e).loan = e.loan /\ Call(e).brk = e.brk
      /\ Call(e).cont = e.cont /\ Call(e).err = e.err /\ Call(e).crash = e.crash
      /\ Call(e).seen = s
  BY <1>2, <1>3 DEF Env
<1> QED
  BY <1>2, <1>4 DEF r

-----------------------------------------------------------------------------
(***************************************************************************)
(* A simple statement leaves alone what belongs to the statements around   *)
(* it, and what it changes depends on the flow and the loans alone.        *)
(***************************************************************************)
\* A simple statement leaves alone what belongs to the statements around it.
Plain(e, d) ==
  /\ d \in Env /\ d.brk = e.brk /\ d.cont = e.cont /\ d.crash = e.crash /\ d.seen = e.seen
  /\ d.f.dead = e.f.dead
  /\ e.err => d.err

LEMMA SameEnd ==
  ASSUME NEW f \in Flow
  PROVE  /\ \A v \in Local : flow_clear(f, v).dead = f.dead /\ flow_move(f, v).dead = f.dead
         /\ \A loan \in LoanTable : \A x : invalidate_loans(f, loan, x).dead = f.dead
  BY DEF flow_clear, flow_move, invalidate_loans, Flow

LEMMA UseForm ==
  ASSUME NEW e \in Env, NEW v \in Local
  PROVE  Plain(e, Use(e, v)) /\ Use(e, v).f = e.f /\ Use(e, v).loan = e.loan
  BY DEF Plain, Use, Report, Env

LEMMA MoveForm ==
  ASSUME NEW e \in Env, NEW v \in Local
  PROVE  /\ Plain(e, Move(e, v)) /\ Move(e, v).loan = e.loan
         /\ Move(e, v).f = invalidate_loans(flow_move(e.f, v), e.loan, v)
<1> DEFINE u == Use(e, v)
           f == invalidate_loans(flow_move(e.f, v), e.loan, v)
<1>1. Plain(e, u) /\ u.f = e.f /\ u.loan = e.loan
  BY UseForm
<1>2. f \in Flow /\ f.dead = e.f.dead
  BY EnvFacts, SetFacts, StaleFacts, SameEnd
<1>3. Move(e, v) = [u EXCEPT !.f = f]
  BY <1>1 DEF Move
<1> HIDE DEF u, f
<1>4. Plain(e, Move(e, v)) /\ Move(e, v).loan = e.loan /\ Move(e, v).f = f
  BY <1>1, <1>2, <1>3 DEF Plain, Env
<1> QED
  BY <1>4 DEF f

LEMMA EatForm ==
  ASSUME NEW e \in Env, NEW v \in Local
  PROVE  /\ Plain(e, Eat(e, v)) /\ Eat(e, v).loan = e.loan
         /\ Eat(e, v).f = IF Owned(e, v) THEN invalidate_loans(flow_move(e.f, v), e.loan, v) ELSE e.f
<1>1. CASE Owned(e, v)
  BY <1>1, MoveForm DEF Eat
<1>2. CASE ~Owned(e, v)
  <2> DEFINE u == Use(e, v)
  <2>1. Plain(e, u) /\ u.f = e.f /\ u.loan = e.loan
    BY UseForm
  <2>2. Eat(e, v) = [u EXCEPT !.err = u.err \/ TRUE]
    BY <1>2 DEF Eat, Report
  <2> HIDE DEF u
  <2>3. Plain(e, Eat(e, v)) /\ Eat(e, v).loan = e.loan /\ Eat(e, v).f = e.f
    BY <2>1, <2>2 DEF Plain, Env
  <2> QED
    BY <1>2, <2>3
<1> QED
  BY <1>1, <1>2

LEMMA BindForm ==
  ASSUME NEW e \in Env, NEW v \in Slot, NEW x \in Owner \cup {None}
  PROVE  /\ Plain(e, Bind(e, v, x)) /\ Bind(e, v, x).f = flow_clear(e.f, v)
         /\ Bind(e, v, x).loan = [e.loan EXCEPT ![v] = x]
<1> DEFINE l == [e.loan EXCEPT ![v] = x]
           f == flow_clear(e.f, v)
<1>1. v \in Local /\ e.f \in Flow /\ e.loan \in LoanTable
  BY EnvFacts DEF Local
<1>2. l \in LoanTable
  BY <1>1 DEF LoanTable
<1>3. f \in Flow /\ f.dead = e.f.dead
  BY <1>1, SetFacts, SameEnd
<1>4. Bind(e, v, x) = [e EXCEPT !.loan = l, !.f = f]
  BY DEF Bind, Env
<1> HIDE DEF l, f
<1>5. Plain(e, Bind(e, v, x)) /\ Bind(e, v, x).f = f /\ Bind(e, v, x).loan = l
  BY <1>2, <1>3, <1>4 DEF Plain, Env
<1> QED
  BY <1>5 DEF f, l

\* A statement that clears x after the aliases of its field went stale.
LEMMA ClearForm ==
  ASSUME NEW e \in Env, NEW x \in Local
  PROVE  LET d == [e EXCEPT !.f = flow_clear(invalidate_loans(e.f, e.loan, x), x)]
         IN  /\ Plain(e, d) /\ d.loan = e.loan
             /\ d.f = flow_clear(invalidate_loans(e.f, e.loan, x), x)
<1> DEFINE f == flow_clear(invalidate_loans(e.f, e.loan, x), x)
<1>1. f \in Flow /\ f.dead = e.f.dead
  BY EnvFacts, StaleFacts, SetFacts, SameEnd
<1> HIDE DEF f
<1>2. [e EXCEPT !.f = f] \in Env /\ [e EXCEPT !.f = f].loan = e.loan /\ [e EXCEPT !.f = f].f = f
      /\ Plain(e, [e EXCEPT !.f = f])
  BY <1>1 DEF Env, Plain
<1> QED
  BY <1>2 DEF f

LEMMA SetForm ==
  ASSUME NEW e \in Env, NEW x \in Owner
  PROVE  /\ Plain(e, SetField(e, x)) /\ SetField(e, x).loan = e.loan
         /\ SetField(e, x).f = flow_clear(invalidate_loans(e.f, e.loan, x), x)
<1> DEFINE i == [e EXCEPT !.f = invalidate_loans(e.f, e.loan, x)]
           u == Use(i, x)
           f == flow_clear(invalidate_loans(e.f, e.loan, x), x)
<1>1. x \in Local
  BY DEF Local
<1>2. i \in Env /\ i.f = invalidate_loans(e.f, e.loan, x) /\ i.loan = e.loan /\ Plain(e, i)
  <2> DEFINE g == invalidate_loans(e.f, e.loan, x)
  <2>1. g \in Flow /\ g.dead = e.f.dead
    BY <1>1, EnvFacts, StaleFacts, SameEnd
  <2> HIDE DEF g
  <2>2. [e EXCEPT !.f = g] \in Env /\ [e EXCEPT !.f = g].f = g /\ [e EXCEPT !.f = g].loan = e.loan
        /\ Plain(e, [e EXCEPT !.f = g])
    BY <2>1 DEF Env, Plain
  <2> QED
    BY <2>2 DEF g
<1> HIDE DEF i
<1>3. Plain(i, u) /\ u.f = i.f /\ u.loan = i.loan
  BY <1>1, <1>2, UseForm
<1>4. f \in Flow /\ f.dead = e.f.dead
  BY <1>1, EnvFacts, StaleFacts, SetFacts, SameEnd
<1>5. SetField(e, x) = [u EXCEPT !.f = f]
  BY <1>2, <1>3 DEF SetField, i
<1> HIDE DEF u, f
<1>6. Plain(e, SetField(e, x)) /\ SetField(e, x).loan = e.loan /\ SetField(e, x).f = f
  BY <1>2, <1>3, <1>4, <1>5 DEF Plain, Env
<1> QED
  BY <1>6 DEF f

LEMMA PlainTrans ==
  ASSUME NEW e, NEW d, NEW c, Plain(e, d), Plain(d, c)
  PROVE  Plain(e, c)
  BY DEF Plain

LEMMA PlainSame ==
  ASSUME NEW e, NEW d, NEW p, NEW q, Same(e, d), Plain(e, p), Plain(d, q),
         p.f = q.f, p.loan = q.loan
  PROVE  Same(p, q)
  BY DEF Plain, Same

\* What a simple statement changes depends on the flow and the loans alone.
LEMMA StepForm ==
  ASSUME NEW s \in Statement
  PROVE  /\ \A e \in Env : Plain(e, Checked(e, s))
         /\ \A e, d \in Env : Same(e, d) => Same(Checked(e, s), Checked(d, s))
<1>1. CASE s.op = "use"
  <2>1. s.x \in Local /\ \A e : Checked(e, s) = Use(e, s.x)
    BY <1>1, TypedFacts DEF Checked
  <2> QED
    BY <2>1, UseForm DEF Same, Plain
<1>2. CASE s.op = "eat"
  <2>1. s.x \in Local /\ \A e : Checked(e, s) = Eat(e, s.x)
    BY <1>2, TypedFacts DEF Checked
  <2>2. \A e, d \in Env : Same(e, d) => (Owned(e, s.x) <=> Owned(d, s.x))
    BY DEF Same, Owned
  <2> QED
    BY <2>1, <2>2, EatForm DEF Same, Plain
<1>3. CASE s.op = "renew"
  <2>1. s.x \in Local /\ \A e : Checked(e, s) = Renew(e, s.x)
    BY <1>3, TypedFacts DEF Checked
  <2>2. CASE s.x \in Owner
    <3> DEFINE g(f, loan) == flow_clear(invalidate_loans(f, loan, s.x), s.x)
    <3>1. ASSUME NEW e \in Env
          PROVE  /\ Plain(e, Checked(e, s)) /\ Checked(e, s).loan = e.loan
                 /\ Checked(e, s).f = g(e.f, e.loan)
      <4>1. Checked(e, s) = [e EXCEPT !.f = g(e.f, e.loan)]
        BY <2>1, <2>2 DEF Renew
      <4> QED
        BY <2>1, <4>1, ClearForm
    <3> HIDE DEF g
    <3>2. ASSUME NEW e \in Env, NEW d \in Env, Same(e, d) PROVE Same(Checked(e, s), Checked(d, s))
      <4>1. g(e.f, e.loan) = g(d.f, d.loan)
        BY <3>2 DEF Same
      <4>2. Checked(e, s).f = Checked(d, s).f /\ Checked(e, s).loan = Checked(d, s).loan
        BY <3>1, <3>2, <4>1 DEF Same
      <4> QED
        BY <3>1, <3>2, <4>2, PlainSame
    <3> QED
      BY <3>1, <3>2
  <2>3. CASE s.x \notin Owner
    <3>1. s.x \in Slot /\ \A e : Checked(e, s) = Bind(e, s.x, None)
      BY <2>1, <2>3 DEF Renew, Local
    <3>2. None \in Owner \cup {None}
      OBVIOUS
    <3>3. ASSUME NEW e \in Env
          PROVE  /\ Plain(e, Checked(e, s)) /\ Checked(e, s).f = flow_clear(e.f, s.x)
                 /\ Checked(e, s).loan = [e.loan EXCEPT ![s.x] = None]
      BY <3>1, <3>2, BindForm
    <3>4. ASSUME NEW e \in Env, NEW d \in Env, Same(e, d) PROVE Same(Checked(e, s), Checked(d, s))
      <4> DEFINE p == Checked(e, s)
                 q == Checked(d, s)
      <4>1. Plain(e, p) /\ p.f = flow_clear(e.f, s.x) /\ p.loan = [e.loan EXCEPT ![s.x] = None]
        BY <3>3
      <4>2. Plain(d, q) /\ q.f = flow_clear(d.f, s.x) /\ q.loan = [d.loan EXCEPT ![s.x] = None]
        BY <3>3
      <4>3. e.f = d.f /\ e.loan = d.loan
        BY <3>4 DEF Same
      <4> HIDE DEF p, q
      <4>4. p.f = q.f /\ p.loan = q.loan
        BY <4>1, <4>2, <4>3
      <4>5. Same(p, q)
        BY <3>4, <4>1, <4>2, <4>4, PlainSame
      <4> QED
        BY <4>5 DEF p, q
    <3> QED
      BY <3>3, <3>4
  <2> QED
    BY <2>2, <2>3
<1>4. CASE s.op = "borrow"
  <2>1. s.x \in Slot /\ s.y \in Owner /\ s.y \in Local /\ s.y \in Owner \cup {None}
    BY <1>4 DEF Statement, Typed, Local
  <2>2. \A e : Checked(e, s) = Bind(Use(e, s.y), s.x, s.y)
    BY <1>4 DEF Checked, Borrow
  <2>3. ASSUME NEW e \in Env
        PROVE  /\ Plain(e, Checked(e, s)) /\ Checked(e, s).f = flow_clear(e.f, s.x)
               /\ Checked(e, s).loan = [e.loan EXCEPT ![s.x] = s.y]
    <3> DEFINE u == Use(e, s.y)
    <3>1. Plain(e, u) /\ u.f = e.f /\ u.loan = e.loan /\ u \in Env
      BY <2>1, UseForm DEF Plain
    <3> HIDE DEF u
    <3>2. /\ Plain(u, Bind(u, s.x, s.y)) /\ Bind(u, s.x, s.y).f = flow_clear(u.f, s.x)
          /\ Bind(u, s.x, s.y).loan = [u.loan EXCEPT ![s.x] = s.y]
      BY <2>1, <3>1, BindForm
    <3>3. Checked(e, s) = Bind(u, s.x, s.y)
      BY <2>2 DEF u
    <3> QED
      BY <3>1, <3>2, <3>3, PlainTrans
  <2>4. ASSUME NEW e \in Env, NEW d \in Env, Same(e, d) PROVE Same(Checked(e, s), Checked(d, s))
    <3> DEFINE p == Checked(e, s)
               q == Checked(d, s)
    <3>1. Plain(e, p) /\ p.f = flow_clear(e.f, s.x) /\ p.loan = [e.loan EXCEPT ![s.x] = s.y]
      BY <2>3
    <3>2. Plain(d, q) /\ q.f = flow_clear(d.f, s.x) /\ q.loan = [d.loan EXCEPT ![s.x] = s.y]
      BY <2>3
    <3>3. e.f = d.f /\ e.loan = d.loan
      BY <2>4 DEF Same
    <3> HIDE DEF p, q
    <3>4. p.f = q.f /\ p.loan = q.loan
      BY <3>1, <3>2, <3>3
    <3>5. Same(p, q)
      BY <2>4, <3>1, <3>2, <3>4, PlainSame
    <3> QED
      BY <3>5 DEF p, q
  <2> QED
    BY <2>3, <2>4
<1>5. CASE s.op = "assign"
  <2>1. s.x \in Slot /\ s.y \in Slot /\ s.y \in Local
    BY <1>5, TypedFacts DEF Local
  <2>2. ASSUME NEW e \in Env
        PROVE  /\ Plain(e, Checked(e, s))
               /\ Checked(e, s).f = flow_clear(IF Owned(e, s.y)
                                               THEN invalidate_loans(flow_move(e.f, s.y), e.loan, s.y)
                                               ELSE e.f, s.x)
               /\ Checked(e, s).loan = [e.loan EXCEPT ![s.x] = IF Owned(e, s.y) THEN None ELSE e.loan[s.y]]
    <3>1. Checked(e, s) = Assign(e, s.x, s.y)
      BY <1>5 DEF Checked
    <3>2. CASE Owned(e, s.y)
      <4> DEFINE u == Move(e, s.y)
      <4>1. Plain(e, u) /\ u.f = invalidate_loans(flow_move(e.f, s.y), e.loan, s.y) /\ u.loan = e.loan /\ u \in Env
        BY <2>1, MoveForm DEF Plain
      <4>2. Checked(e, s) = Bind(u, s.x, None)
        BY <3>1, <3>2 DEF Assign
      <4> HIDE DEF u
      <4>3. None \in Owner \cup {None}
        OBVIOUS
      <4>4. /\ Plain(u, Bind(u, s.x, None)) /\ Bind(u, s.x, None).f = flow_clear(u.f, s.x)
            /\ Bind(u, s.x, None).loan = [u.loan EXCEPT ![s.x] = None]
        BY <2>1, <4>1, <4>3, BindForm
      <4> QED
        BY <3>2, <4>1, <4>2, <4>4, PlainTrans
    <3>3. CASE ~Owned(e, s.y)
      <4> DEFINE u == Use(e, s.y)
                 l == e.loan[s.y]
      <4>1. Plain(e, u) /\ u.f = e.f /\ u.loan = e.loan /\ u \in Env
        BY <2>1, UseForm DEF Plain
      <4>2. Checked(e, s) = Bind(u, s.x, l)
        BY <3>1, <3>3 DEF Assign
      <4>3. l \in Owner \cup {None}
        BY <2>1, EnvFacts DEF LoanTable
      <4> HIDE DEF u, l
      <4>4. /\ Plain(u, Bind(u, s.x, l)) /\ Bind(u, s.x, l).f = flow_clear(u.f, s.x)
            /\ Bind(u, s.x, l).loan = [u.loan EXCEPT ![s.x] = l]
        BY <2>1, <4>1, <4>3, BindForm
      <4>5. /\ Plain(e, Checked(e, s)) /\ Checked(e, s).f = flow_clear(e.f, s.x)
            /\ Checked(e, s).loan = [e.loan EXCEPT ![s.x] = l]
        BY <4>1, <4>2, <4>4, PlainTrans
      <4> QED
        BY <3>3, <4>5 DEF l
    <3> QED
      BY <3>2, <3>3
  <2>3. ASSUME NEW e \in Env, NEW d \in Env, Same(e, d) PROVE Same(Checked(e, s), Checked(d, s))
    <3>1. Owned(e, s.y) <=> Owned(d, s.y)
      BY <2>3 DEF Same, Owned
    <3> DEFINE g(c) == IF Owned(c, s.y) THEN invalidate_loans(flow_move(c.f, s.y), c.loan, s.y) ELSE c.f
               l(c) == IF Owned(c, s.y) THEN None ELSE c.loan[s.y]
    <3>2. g(e) = g(d) /\ l(e) = l(d) /\ e.loan = d.loan
      BY <2>3, <3>1 DEF Same
    <3>3. /\ Checked(e, s).f = flow_clear(g(e), s.x) /\ Checked(d, s).f = flow_clear(g(d), s.x)
          /\ Checked(e, s).loan = [e.loan EXCEPT ![s.x] = l(e)]
          /\ Checked(d, s).loan = [d.loan EXCEPT ![s.x] = l(d)]
      BY <2>2
    <3>4. Plain(e, Checked(e, s)) /\ Plain(d, Checked(d, s))
      BY <2>2
    <3> HIDE DEF g, l
    <3>5. Checked(e, s).f = Checked(d, s).f /\ Checked(e, s).loan = Checked(d, s).loan
      BY <3>2, <3>3
    <3> QED
      BY <2>3, <3>4, <3>5 DEF Same, Plain
  <2> QED
    BY <2>2, <2>3
<1>6. CASE s.op = "set"
  <2>1. s.x \in Owner /\ \A e : Checked(e, s) = SetField(e, s.x)
    BY <1>6 DEF Statement, Typed, Checked
  <2> QED
    BY <2>1, SetForm DEF Same, Plain
<1>7. CASE s.op = "store"
  <2>1. s.x \in Owner /\ s.y \in Local /\ \A e : Checked(e, s) = SetField(Eat(e, s.y), s.x)
    BY <1>7 DEF Statement, Typed, Checked, Store, Local
  <2>2. ASSUME NEW e \in Env PROVE Plain(e, Checked(e, s)) /\ Plain(e, Eat(e, s.y))
    <3> DEFINE u == Eat(e, s.y)
    <3>1. Plain(e, u) /\ u \in Env
      BY <2>1, EatForm DEF Plain
    <3> HIDE DEF u
    <3>2. Plain(u, SetField(u, s.x))
      BY <2>1, <3>1, SetForm
    <3>3. Checked(e, s) = SetField(u, s.x)
      BY <2>1 DEF u
    <3>4. Plain(e, Checked(e, s)) /\ Plain(e, u)
      BY <3>1, <3>2, <3>3, PlainTrans
    <3> QED
      BY <3>4 DEF u
  <2>3. ASSUME NEW e \in Env, NEW d \in Env, Same(e, d) PROVE Same(Checked(e, s), Checked(d, s))
    <3> DEFINE u == Eat(e, s.y)
               w == Eat(d, s.y)
    <3>1. Owned(e, s.y) <=> Owned(d, s.y)
      BY <2>3 DEF Same, Owned
    <3>2. u.f = w.f /\ u.loan = w.loan
      BY <2>1, <2>3, <3>1, EatForm DEF Same
    <3>3. u \in Env /\ w \in Env
      BY <2>2 DEF Plain
    <3>4. Checked(e, s) = SetField(u, s.x) /\ Checked(d, s) = SetField(w, s.x)
      BY <2>1
    <3> HIDE DEF u, w
    <3>5. SetField(u, s.x).f = SetField(w, s.x).f /\ SetField(u, s.x).loan = SetField(w, s.x).loan
      BY <2>1, <3>2, <3>3, SetForm
    <3> QED
      BY <2>2, <2>3, <3>4, <3>5 DEF Same, Plain
  <2> QED
    BY <2>2, <2>3
<1>8. s.op \in {"use", "eat", "renew", "set", "borrow", "assign", "store"}
  BY DEF Statement
<1> QED
  BY <1>1, <1>2, <1>3, <1>4, <1>5, <1>6, <1>7, <1>8

-----------------------------------------------------------------------------
(***************************************************************************)
(* What is shown of every body (Proper). Sound is the point: from a state  *)
(* in which the checker is right about all it takes for valid, and if it   *)
(* accepts the body and loses nothing that does not hold on all paths, the *)
(* executions do nothing wrong, and at every end of the body, the breaks,  *)
(* continues and raised errors included, it is right again. Grows, Uniform *)
(* and Strict are what Sound needs of the parts of a statement: a          *)
(* diagnostic, once given, stays; the flow and the loans behind a body     *)
(* depend on those before it; and what is not reached does nothing.        *)
(***************************************************************************)
\* What memory n may be where the checker knows f, with the loans loan.
Holds(f, loan, n) ==
  \A v \in Local : f.st[v] = "valid" =>
    n[v] = IF v \in Slot /\ loan[v] # None THEN loan[v] ELSE "own"

LEMMA HoldsRight ==
  ASSUME NEW e \in Env, NEW m \in Memory, ~e.err
  PROVE  Holds(e.f, e.loan, m) <=> Right(e, m)
  BY DEF Holds, Right, Value

\* Where paths meet, what is kept of each of them holds.
LEMMA HoldsMeet ==
  ASSUME NEW f, NEW g, NEW l, NEW k, NEW n, Holds(f, l, n),
         ~f.dead, Trusts(g, f), Keeps(g, k, l)
  PROVE  ~g.dead /\ Holds(g, k, n)
  BY DEF Holds, Trusts, Keeps

LEMMA KeepsSelf == ASSUME NEW g, NEW l PROVE Keeps(g, l, l)
  BY DEF Keeps

\* At the ends of a body but the normal one, the checker is right with one of
\* the tables of loans it saw there.
Ends(d, r) ==
  /\ \A n \in r.brk : ~d.brk.dead /\ \E l \in d.seen.brk : Holds(d.brk, l, n)
  /\ \A n \in r.cont : ~d.cont.dead /\ \E l \in d.seen.cont : Holds(d.cont, l, n)
  /\ \A n \in r.exc : \E x \in d.seen.raised : ~x.f.dead /\ Holds(x.f, x.loan, n)

\* At the normal one, and before a body.
Reached(d, S) == \A n \in S : ~d.f.dead /\ Holds(d.f, d.loan, n)

\* The checker accepts, and nothing was lost.
Good(d) == ~d.err /\ ~d.crash /\ ~d.seen.lost

Grows(b) == \A e \in Env : Grown(e, b.chk[e])
Uniform(b) == \A e, d \in Env : Same(e, d) => Same(b.chk[e], b.chk[d])
Strict(b) == b.run[{}] = NoStates
Sound(b) ==
  \A e \in Env, S \in SUBSET Memory :
    ~e.f.dead /\ Reached(e, S) /\ Good(b.chk[e]) =>
      /\ b.run[S].bad = {}
      /\ Reached(b.chk[e], b.run[S].ok)
      /\ Ends(b.chk[e], b.run[S])

Proper(b) == b \in Body /\ Grows(b) /\ Uniform(b) /\ Strict(b) /\ Sound(b)

LEMMA GrownSelf == ASSUME NEW e PROVE Grown(e, e)
  BY TrustsSelf DEF Grown

LEMMA GrownGood ==
  ASSUME NEW e, NEW d, Grown(e, d), Good(d)
  PROVE  Good(e)
  BY DEF Grown, Good

LEMMA GrownEnds ==
  ASSUME NEW e, NEW d, NEW r, Grown(e, d), Ends(e, r)
  PROVE  Ends(d, r)
<1>1. ASSUME NEW n \in r.brk PROVE ~d.brk.dead /\ \E l \in d.seen.brk : Holds(d.brk, l, n)
  <2>1. PICK l \in e.seen.brk : ~e.brk.dead /\ Holds(e.brk, l, n)
    BY DEF Ends
  <2>2. ~d.brk.dead /\ Holds(d.brk, l, n) /\ l \in d.seen.brk
    BY <2>1, HoldsMeet, KeepsSelf DEF Grown
  <2> QED
    BY <2>2
<1>2. ASSUME NEW n \in r.cont PROVE ~d.cont.dead /\ \E l \in d.seen.cont : Holds(d.cont, l, n)
  <2>1. PICK l \in e.seen.cont : ~e.cont.dead /\ Holds(e.cont, l, n)
    BY DEF Ends
  <2>2. ~d.cont.dead /\ Holds(d.cont, l, n) /\ l \in d.seen.cont
    BY <2>1, HoldsMeet, KeepsSelf DEF Grown
  <2> QED
    BY <2>2
<1>3. ASSUME NEW n \in r.exc PROVE \E x \in d.seen.raised : ~x.f.dead /\ Holds(x.f, x.loan, n)
  BY DEF Ends, Grown
<1> QED
  BY <1>1, <1>2, <1>3 DEF Ends

LEMMA MergeFacts ==
  ASSUME NEW r \in Results, NEW t \in Results, NEW ok \in SUBSET Memory
  PROVE  /\ Merge(r, t, ok) \in Results
         /\ Merge(r, t, ok).ok = ok /\ Merge(r, t, ok).bad = r.bad \cup t.bad
         /\ Merge(r, t, ok).exc = r.exc \cup t.exc
         /\ Merge(r, t, ok).brk = r.brk \cup t.brk
         /\ Merge(r, t, ok).cont = r.cont \cup t.cont
  BY DEF Merge, Results

LEMMA MergeEnds ==
  ASSUME NEW d, NEW r \in Results, NEW t \in Results, NEW ok \in SUBSET Memory,
         Ends(d, r), Ends(d, t)
  PROVE  Ends(d, Merge(r, t, ok))
<1> DEFINE m == Merge(r, t, ok)
<1>1. m.exc = r.exc \cup t.exc /\ m.brk = r.brk \cup t.brk /\ m.cont = r.cont \cup t.cont
  BY MergeFacts
<1> HIDE DEF m
<1> QED
  BY <1>1 DEF Ends, m

LEMMA NoStatesFacts ==
  /\ NoStates \in Results /\ NoStates.ok = {} /\ NoStates.bad = {}
  /\ \A d : Ends(d, NoStates)
  BY DEF NoStates, Results, Ends

LEMMA NothingFacts ==
  ASSUME NEW r \in Results, r.ok = {}, r.exc = {}, r.brk = {}, r.cont = {}, r.bad = {}
  PROVE  r = NoStates
  BY DEF Results, NoStates

LEMMA ResultsFacts ==
  ASSUME NEW r \in Results
  PROVE  /\ r.ok \in SUBSET Memory /\ r.exc \in SUBSET Memory /\ r.brk \in SUBSET Memory
         /\ r.cont \in SUBSET Memory /\ r.bad \in SUBSET {"moved", "freed", "twice"}
  BY DEF Results

\* Another flow.
LEMMA FlowFacts ==
  ASSUME NEW e \in Env, NEW f \in Flow
  PROVE  LET d == [e EXCEPT !.f = f] IN
         /\ d \in Env /\ d.f = f /\ d.loan = e.loan /\ d.brk = e.brk /\ d.cont = e.cont
         /\ d.err = e.err /\ d.crash = e.crash /\ d.seen = e.seen
  BY DEF Env

\* Where paths met: another flow, and perhaps something lost.
Merged(e, f, lost) == [e EXCEPT !.f = f, !.seen.lost = @ \/ lost]

LEMMA LostFacts ==
  ASSUME NEW e \in Env, NEW f \in Flow, NEW lost \in BOOLEAN
  PROVE  LET d == Merged(e, f, lost) IN
         /\ d \in Env /\ d.f = f /\ d.loan = e.loan /\ d.brk = e.brk /\ d.cont = e.cont
         /\ d.err = e.err /\ d.crash = e.crash /\ d.seen.lost = (e.seen.lost \/ lost)
         /\ d.seen.brk = e.seen.brk /\ d.seen.cont = e.seen.cont /\ d.seen.raised = e.seen.raised
<1> DEFINE s == [e.seen EXCEPT !.lost = @ \/ lost]
           d == Merged(e, f, lost)
<1>1. s \in Seen /\ s.cont = e.seen.cont /\ s.brk = e.seen.brk /\ s.raised = e.seen.raised
      /\ s.lost = (e.seen.lost \/ lost)
  BY EnvFacts DEF Seen
<1>2. d = [e EXCEPT !.f = f, !.seen = s]
  BY EnvFacts DEF Env, Merged
<1> HIDE DEF s, d
<1>3. /\ d \in Env /\ d.f = f /\ d.loan = e.loan /\ d.brk = e.brk
      /\ d.cont = e.cont /\ d.err = e.err /\ d.crash = e.crash /\ d.seen = s
  BY <1>1, <1>2 DEF Env
<1> QED
  BY <1>1, <1>3 DEF d

-----------------------------------------------------------------------------
(***************************************************************************)
(* The statements a body begins with.                                      *)
(***************************************************************************)
LEMMA PassProper == Proper(Pass)
<1>1. \A e \in Env : Pass.chk[e] = e
  BY DEF Pass
<1>2. ASSUME NEW S \in SUBSET Memory
      PROVE  /\ Pass.run[S] = [NoStates EXCEPT !.ok = S] /\ Pass.run[S] \in Results
             /\ Pass.run[S].ok = S /\ Pass.run[S].bad = {} /\ \A d : Ends(d, Pass.run[S])
  BY DEF Pass, NoStates, Results, Ends
<1>3. Pass \in Body
  BY <1>2 DEF Pass, Body
<1>4. Strict(Pass)
  BY <1>2 DEF Strict, NoStates
<1>5. Grows(Pass) /\ Uniform(Pass)
  BY <1>1, GrownSelf DEF Grows, Uniform
<1>6. Sound(Pass)
  BY <1>1, <1>2 DEF Sound
<1> QED
  BY <1>3, <1>4, <1>5, <1>6 DEF Proper

LEMMA ReturnsProper == Proper(Returns)
<1>1. \A e \in Env : Returns.chk[e] = Return(e)
  BY DEF Returns
<1>2. \A S \in SUBSET Memory : Returns.run[S] = NoStates
  BY DEF Returns
<1>3. Returns \in Body
  BY NoStatesFacts, ReturnFacts DEF Returns, Body
<1>4. Strict(Returns)
  BY <1>2 DEF Strict
<1>5. Grows(Returns)
  BY <1>1, ReturnFacts, TrustsSelf DEF Grows, Grown
<1>6. Uniform(Returns)
  <2>1. ASSUME NEW e \in Env, NEW d \in Env, Same(e, d) PROVE Same(Return(e), Return(d))
    <3>1. Ended(e.f) = Ended(d.f)
      BY <2>1 DEF Same
    <3> QED
      BY <2>1, <3>1, ReturnFacts DEF Same
  <2> QED
    BY <1>1, <2>1 DEF Uniform
<1>7. Sound(Returns)
  BY <1>1, <1>2, NoStatesFacts DEF Sound, Reached
<1> QED
  BY <1>3, <1>4, <1>5, <1>6, <1>7 DEF Proper

LEMMA BreaksProper == Proper(Breaks)
<1>1. \A e \in Env : Breaks.chk[e] = Break(e)
  BY DEF Breaks
<1>2. ASSUME NEW S \in SUBSET Memory
      PROVE  /\ Breaks.run[S] = [NoStates EXCEPT !.brk = S] /\ Breaks.run[S] \in Results
             /\ Breaks.run[S].ok = {} /\ Breaks.run[S].bad = {} /\ Breaks.run[S].brk = S
             /\ Breaks.run[S].cont = {} /\ Breaks.run[S].exc = {}
  BY DEF Breaks, NoStates, Results
<1>3. Breaks \in Body
  BY <1>2, BreakFacts DEF Breaks, Body
<1>4. Strict(Breaks)
  BY <1>2 DEF Strict, NoStates
<1>5. ASSUME NEW e \in Env
      PROVE  Grown(e, Break(e)) /\ Trusts(Break(e).brk, e.f) /\ e.loan \in Break(e).seen.brk
  <2>1. e.brk \in Flow /\ e.f \in Flow
    BY EnvFacts
  <2>2. Trusts(Break(e).brk, e.brk) /\ Trusts(Break(e).brk, e.f)
    BY <2>1, BreakFacts, JoinTrusts
  <2> QED
    BY <2>2, BreakFacts, TrustsSelf DEF Grown
<1>6. ASSUME NEW e \in Env, NEW d \in Env, Same(e, d) PROVE Same(Break(e), Break(d))
  <2>1. Ended(e.f) = Ended(d.f)
        /\ flow_join(e.brk, e.f) = flow_join(d.brk, d.f)
    BY <1>6 DEF Same
  <2> QED
    BY <1>6, <2>1, BreakFacts DEF Same
<1>7. ASSUME NEW e \in Env, NEW S \in SUBSET Memory, ~e.f.dead, Reached(e, S)
      PROVE  Ends(Break(e), Breaks.run[S])
  <2>1. Trusts(Break(e).brk, e.f) /\ e.loan \in Break(e).seen.brk
    BY <1>5
  <2>2. ASSUME NEW n \in S PROVE ~Break(e).brk.dead /\ Holds(Break(e).brk, e.loan, n)
    BY <1>7, <2>1, HoldsMeet, KeepsSelf DEF Reached
  <2> QED
    BY <1>2, <2>1, <2>2 DEF Ends
<1>8. Grows(Breaks) /\ Uniform(Breaks)
  BY <1>1, <1>5, <1>6 DEF Grows, Uniform
<1>9. \A d : Reached(d, {})
  BY DEF Reached
<1>10. Sound(Breaks)
  <2>1. ASSUME NEW e \in Env, NEW S \in SUBSET Memory, ~e.f.dead, Reached(e, S)
        PROVE  /\ Breaks.run[S].bad = {} /\ Reached(Breaks.chk[e], Breaks.run[S].ok)
               /\ Ends(Breaks.chk[e], Breaks.run[S])
    <3>1. Breaks.chk[e] = Break(e) /\ Breaks.run[S].ok = {} /\ Breaks.run[S].bad = {}
      BY <1>1, <1>2
    <3> QED
      BY <1>7, <1>9, <2>1, <3>1
  <2> QED
    BY <2>1 DEF Sound
<1> QED
  BY <1>3, <1>4, <1>8, <1>10 DEF Proper

LEMMA ContinuesProper == Proper(Continues)
<1>1. \A e \in Env : Continues.chk[e] = Continue(e)
  BY DEF Continues
<1>2. ASSUME NEW S \in SUBSET Memory
      PROVE  /\ Continues.run[S] = [NoStates EXCEPT !.cont = S] /\ Continues.run[S] \in Results
             /\ Continues.run[S].ok = {} /\ Continues.run[S].bad = {} /\ Continues.run[S].cont = S
             /\ Continues.run[S].brk = {} /\ Continues.run[S].exc = {}
  BY DEF Continues, NoStates, Results
<1>3. Continues \in Body
  BY <1>2, ContinueFacts DEF Continues, Body
<1>4. Strict(Continues)
  BY <1>2 DEF Strict, NoStates
<1>5. ASSUME NEW e \in Env
      PROVE  Grown(e, Continue(e)) /\ Trusts(Continue(e).cont, e.f) /\ e.loan \in Continue(e).seen.cont
  <2>1. e.cont \in Flow /\ e.f \in Flow
    BY EnvFacts
  <2>2. Trusts(Continue(e).cont, e.cont) /\ Trusts(Continue(e).cont, e.f)
    BY <2>1, ContinueFacts, JoinTrusts
  <2> QED
    BY <2>2, ContinueFacts, TrustsSelf DEF Grown
<1>6. ASSUME NEW e \in Env, NEW d \in Env, Same(e, d) PROVE Same(Continue(e), Continue(d))
  <2>1. Ended(e.f) = Ended(d.f)
        /\ flow_join(e.cont, e.f) = flow_join(d.cont, d.f)
    BY <1>6 DEF Same
  <2> QED
    BY <1>6, <2>1, ContinueFacts DEF Same
<1>7. ASSUME NEW e \in Env, NEW S \in SUBSET Memory, ~e.f.dead, Reached(e, S)
      PROVE  Ends(Continue(e), Continues.run[S])
  <2>1. Trusts(Continue(e).cont, e.f) /\ e.loan \in Continue(e).seen.cont
    BY <1>5
  <2>2. ASSUME NEW n \in S PROVE ~Continue(e).cont.dead /\ Holds(Continue(e).cont, e.loan, n)
    BY <1>7, <2>1, HoldsMeet, KeepsSelf DEF Reached
  <2> QED
    BY <1>2, <2>1, <2>2 DEF Ends
<1>8. Grows(Continues) /\ Uniform(Continues)
  BY <1>1, <1>5, <1>6 DEF Grows, Uniform
<1>9. \A d : Reached(d, {})
  BY DEF Reached
<1>10. Sound(Continues)
  <2>1. ASSUME NEW e \in Env, NEW S \in SUBSET Memory, ~e.f.dead, Reached(e, S)
        PROVE  /\ Continues.run[S].bad = {} /\ Reached(Continues.chk[e], Continues.run[S].ok)
               /\ Ends(Continues.chk[e], Continues.run[S])
    <3>1. Continues.chk[e] = Continue(e) /\ Continues.run[S].ok = {} /\ Continues.run[S].bad = {}
      BY <1>1, <1>2
    <3> QED
      BY <1>7, <1>9, <2>1, <3>1
  <2> QED
    BY <2>1 DEF Sound
<1> QED
  BY <1>3, <1>4, <1>8, <1>10 DEF Proper

LEMMA CallsProper == Proper(Calls)
<1>1. \A e \in Env : Calls.chk[e] = Call(e)
  BY DEF Calls
<1>2. ASSUME NEW S \in SUBSET Memory
      PROVE  /\ Calls.run[S] = [NoStates EXCEPT !.ok = S, !.exc = S] /\ Calls.run[S] \in Results
             /\ Calls.run[S].ok = S /\ Calls.run[S].bad = {} /\ Calls.run[S].cont = {}
             /\ Calls.run[S].brk = {} /\ Calls.run[S].exc = S
  BY DEF Calls, NoStates, Results
<1>3. Calls \in Body
  BY <1>2, CallFacts DEF Calls, Body
<1>4. Strict(Calls)
  <2> DEFINE r == Calls.run[{}]
  <2>1. r \in Results /\ r.ok = {} /\ r.exc = {} /\ r.brk = {} /\ r.cont = {} /\ r.bad = {}
    BY <1>2
  <2> HIDE DEF r
  <2>2. r = NoStates
    BY <2>1, NothingFacts
  <2> QED
    BY <2>2 DEF Strict, r
<1>5. Grows(Calls)
  BY <1>1, CallFacts, TrustsSelf DEF Grows, Grown
<1>6. Uniform(Calls)
  BY <1>1, CallFacts DEF Uniform, Same
<1>7. ASSUME NEW e \in Env, NEW S \in SUBSET Memory, ~e.f.dead, Reached(e, S)
      PROVE  Ends(Call(e), Calls.run[S]) /\ Reached(Call(e), S)
  <2> DEFINE x == [f |-> e.f, loan |-> e.loan]
  <2>1. x \in Call(e).seen.raised /\ x.f = e.f /\ x.loan = e.loan
    BY CallFacts
  <2> HIDE DEF x
  <2>2. ASSUME NEW n \in S PROVE ~x.f.dead /\ Holds(x.f, x.loan, n)
    BY <1>7, <2>1 DEF Reached
  <2>3. Ends(Call(e), Calls.run[S])
    BY <1>2, <2>1, <2>2 DEF Ends
  <2> QED
    BY <1>7, <2>3, CallFacts DEF Reached
<1>8. Sound(Calls)
  <2>1. ASSUME NEW e \in Env, NEW S \in SUBSET Memory, ~e.f.dead, Reached(e, S)
        PROVE  /\ Calls.run[S].bad = {} /\ Reached(Calls.chk[e], Calls.run[S].ok)
               /\ Ends(Calls.chk[e], Calls.run[S])
    <3>1. Calls.chk[e] = Call(e) /\ Calls.run[S].ok = S /\ Calls.run[S].bad = {}
      BY <1>1, <1>2
    <3> QED
      BY <1>7, <2>1, <3>1
  <2> QED
    BY <2>1 DEF Sound
<1> QED
  BY <1>3, <1>4, <1>5, <1>6, <1>8 DEF Proper

LEMMA AfterType ==
  ASSUME NEW s \in Statement, NEW m \in Memory
  PROVE  Fault(s, m) = {} => After(s, m) \in Memory
<1>1. \A x : Dangle(m, x) \in Memory
  BY DangleFacts
<1>2. ASSUME NEW n \in Memory, NEW v, NEW w \in {"own", "moved", "freed"} \cup Owner
      PROVE  [n EXCEPT ![v] = w] \in Memory
  BY DEF Memory
<1>3. CASE s.op = "assign"
  <2> DEFINE n == [m EXCEPT ![s.y] = IF @ = "own" THEN "moved" ELSE @]
  <2>1. s.y \in Local /\ s.x \in Local
    BY <1>3, TypedFacts DEF Local
  <2>2. m[s.y] \in {"own", "moved", "freed"} \cup Owner
    BY <2>1 DEF Memory
  <2>3. n \in Memory
    BY <2>1, <2>2 DEF Memory
  <2> HIDE DEF n
  <2>4. [n EXCEPT ![s.x] = m[s.y]] \in Memory
    BY <1>2, <2>2, <2>3
  <2> QED
    BY <1>3, <2>4 DEF After, n
<1>4. CASE s.op = "borrow"
  <2>1. s.y \in {"own", "moved", "freed"} \cup Owner
    BY <1>4 DEF Statement, Typed
  <2> QED
    BY <1>2, <1>4, <2>1 DEF After
<1>5. CASE s.op \in {"eat", "store"}
  BY <1>1, <1>2, <1>5 DEF After
<1>6. CASE s.op = "renew"
  BY <1>1, <1>2, <1>6 DEF After
<1>7. CASE s.op = "set"
  BY <1>1, <1>7 DEF After
<1>8. CASE s.op = "use"
  BY <1>8 DEF After
<1>9. s.op \in {"use", "eat", "renew", "set", "borrow", "assign", "store"}
  BY DEF Statement
<1> QED
  BY <1>3, <1>4, <1>5, <1>6, <1>7, <1>8, <1>9

LEMMA FaultType ==
  ASSUME NEW s \in Statement, NEW m \in Memory
  PROVE  Fault(s, m) \in SUBSET {"moved", "freed", "twice"}
<1> DEFINE Reads(v) == IF m[v] \in {"moved", "freed"} THEN {m[v]} ELSE {}
           Takes(v) == Reads(v) \cup (IF m[v] \in Owner THEN {"twice"} ELSE {})
<1>1. \A v : Reads(v) \in SUBSET {"moved", "freed", "twice"}
  OBVIOUS
<1>2. \A v : Takes(v) \in SUBSET {"moved", "freed", "twice"}
  OBVIOUS
<1>3. Fault(s, m) = CASE s.op = "use" -> Reads(s.x) [] s.op = "eat" -> Takes(s.x)
                      [] s.op = "borrow" -> Reads(s.y) [] s.op = "assign" -> Reads(s.y)
                      [] s.op = "set" -> Reads(s.x) [] s.op = "store" -> Reads(s.x) \cup Takes(s.y)
                      [] OTHER -> {}
  BY DEF Fault
<1> HIDE DEF Reads, Takes
<1>4. s.op \in {"use", "eat", "renew", "set", "borrow", "assign", "store"}
  BY DEF Statement
<1>5. CASE s.op = "store"
  BY <1>1, <1>2, <1>3, <1>5
<1>6. CASE s.op = "renew"
  BY <1>3, <1>6
<1>7. CASE s.op = "eat"
  BY <1>2, <1>3, <1>7
<1>8. CASE s.op \in {"use", "borrow", "assign", "set"}
  BY <1>1, <1>3, <1>8
<1> QED
  BY <1>4, <1>5, <1>6, <1>7, <1>8

LEMMA SimpleProper ==
  ASSUME NEW s \in Statement
  PROVE  Proper(Simple(s))
<1> DEFINE b == Simple(s)
<1>1. \A e \in Env : b.chk[e] = Checked(e, s)
  BY DEF Simple
<1>2. \A S \in SUBSET Memory : b.run[S] = RunStep(s, S)
  BY DEF Simple
<1>3. ASSUME NEW S \in SUBSET Memory
      PROVE  /\ RunStep(s, S) \in Results
             /\ RunStep(s, S).ok = {After(s, m) : m \in {n \in S : Fault(s, n) = {}}}
             /\ RunStep(s, S).bad = UNION {Fault(s, m) : m \in S}
             /\ RunStep(s, S).exc = {} /\ RunStep(s, S).brk = {} /\ RunStep(s, S).cont = {}
  <2> DEFINE ok == {After(s, m) : m \in {n \in S : Fault(s, n) = {}}}
             bad == UNION {Fault(s, m) : m \in S}
  <2>1. ok \in SUBSET Memory
    BY AfterType
  <2>2. bad \in SUBSET {"moved", "freed", "twice"}
    BY FaultType
  <2>3. RunStep(s, S) = [NoStates EXCEPT !.ok = ok, !.bad = bad]
    BY DEF RunStep
  <2> HIDE DEF ok, bad
  <2>4. RunStep(s, S) \in Results /\ RunStep(s, S).ok = ok /\ RunStep(s, S).bad = bad
        /\ RunStep(s, S).exc = {} /\ RunStep(s, S).brk = {} /\ RunStep(s, S).cont = {}
    BY <2>1, <2>2, <2>3 DEF NoStates, Results
  <2> QED
    BY <2>4 DEF ok, bad
<1>4. b \in Body
  <2>1. \A e \in Env : Checked(e, s) \in Env
    BY StepForm DEF Plain
  <2>2. \A S \in SUBSET Memory : RunStep(s, S) \in Results
    BY <1>3
  <2> QED
    BY <2>1, <2>2 DEF Simple, Body
<1>5. Strict(b)
  <2> DEFINE r == RunStep(s, {})
  <2>1. r \in Results /\ r.ok = {} /\ r.exc = {} /\ r.brk = {} /\ r.cont = {} /\ r.bad = {}
    BY <1>3
  <2> HIDE DEF r
  <2>2. r = NoStates
    BY <2>1, NothingFacts
  <2> QED
    BY <1>2, <2>2 DEF Strict, r
<1>6. Grows(b)
  <2>1. \A e \in Env : Plain(e, b.chk[e])
    BY <1>1, StepForm
  <2> QED
    BY <2>1, TrustsSelf DEF Grows, Grown, Plain
<1>7. Uniform(b)
  BY <1>1, StepForm DEF Uniform
<1>8. ASSUME NEW e \in Env, NEW S \in SUBSET Memory, ~e.f.dead, Reached(e, S), ~Checked(e, s).err
      PROVE  /\ RunStep(s, S).bad = {} /\ Reached(Checked(e, s), RunStep(s, S).ok)
             /\ Ends(Checked(e, s), RunStep(s, S))
  <2> DEFINE d == Checked(e, s)
             r == RunStep(s, S)
  <2>1. Plain(e, d) /\ ~e.err /\ d \in Env /\ ~d.f.dead
    BY <1>8, StepForm DEF Plain
  <2>2. ASSUME NEW m \in S
        PROVE  Fault(s, m) = {} /\ Holds(d.f, d.loan, After(s, m))
    <3>1. m \in Memory
      OBVIOUS
    <3>2. Holds(e.f, e.loan, m)
      BY <1>8 DEF Reached
    <3>3. Right(e, m)
      BY <2>1, <3>1, <3>2, HoldsRight
    <3>4. Fault(s, m) = {} /\ Right(d, After(s, m))
      BY <1>8, <3>3, StepSound
    <3>5. After(s, m) \in Memory /\ ~d.err
      BY <1>8, <3>4 DEF Right
    <3> QED
      BY <2>1, <3>4, <3>5, HoldsRight
  <2>3. r.ok = {After(s, m) : m \in {n \in S : Fault(s, n) = {}}} /\ r.bad = UNION {Fault(s, m) : m \in S}
        /\ r.exc = {} /\ r.brk = {} /\ r.cont = {}
    BY <1>3
  <2> HIDE DEF d, r
  <2>4. r.bad = {}
    BY <2>2, <2>3
  <2>5. Reached(d, r.ok)
    BY <2>1, <2>2, <2>3 DEF Reached
  <2>6. Ends(d, r)
    BY <2>3 DEF Ends
  <2> QED
    BY <2>4, <2>5, <2>6 DEF d, r
<1> HIDE DEF b
<1>9. Sound(b)
  BY <1>1, <1>2, <1>8 DEF Sound, Good
<1>10. Proper(b)
  BY <1>4, <1>5, <1>6, <1>7, <1>9 DEF Proper
<1> QED
  BY <1>10 DEF b

\* A body applied.
LEMMA BodyFacts ==
  ASSUME NEW b \in Body
  PROVE  /\ \A e \in Env : b.chk[e] \in Env
         /\ \A S \in SUBSET Memory : b.run[S] \in Results /\ b.run[S].ok \in SUBSET Memory
                                     /\ b.run[S].exc \in SUBSET Memory
<1>1. b.chk \in [Env -> Env] /\ b.run \in [SUBSET Memory -> Results]
  BY DEF Body
<1>2. \A S \in SUBSET Memory : b.run[S] \in Results
  BY <1>1
<1> QED
  BY <1>1, <1>2, ResultsFacts

\* Nothing is reached behind a body that ends on every path.
LEMMA DeadReached ==
  ASSUME NEW d, NEW S, Reached(d, S), d.f.dead
  PROVE  S = {}
  BY DEF Reached

LEMMA SequenceProper ==
  ASSUME NEW a, NEW b, Proper(a), Proper(b)
  PROVE  Proper(Sequence(a, b))
<1> DEFINE c == Sequence(a, b)
<1>1. \A e \in Env : c.chk[e] = Then(a.chk[e], b.chk)
  BY DEF Sequence
<1>2. \A S \in SUBSET Memory : c.run[S] = RunThen(a.run[S], b.run)
  BY DEF Sequence
<1>3. a \in Body /\ b \in Body
  BY DEF Proper
<1>4. ASSUME NEW S \in SUBSET Memory
      PROVE  /\ RunThen(a.run[S], b.run) = Merge(a.run[S], b.run[a.run[S].ok], b.run[a.run[S].ok].ok)
             /\ a.run[S] \in Results /\ b.run[a.run[S].ok] \in Results
             /\ a.run[S].ok \in SUBSET Memory /\ b.run[a.run[S].ok].ok \in SUBSET Memory
             /\ RunThen(a.run[S], b.run) \in Results
             /\ RunThen(a.run[S], b.run).ok = b.run[a.run[S].ok].ok
             /\ RunThen(a.run[S], b.run).bad = a.run[S].bad \cup b.run[a.run[S].ok].bad
  <2> DEFINE r == a.run[S]
             t == b.run[r.ok]
  <2>1. r \in Results /\ r.ok \in SUBSET Memory
    BY <1>3, BodyFacts
  <2>2. t \in Results /\ t.ok \in SUBSET Memory
    BY <1>3, <2>1, BodyFacts
  <2>3. RunThen(r, b.run) = Merge(r, t, t.ok)
    BY DEF RunThen
  <2> HIDE DEF r, t
  <2>4. Merge(r, t, t.ok) \in Results /\ Merge(r, t, t.ok).ok = t.ok /\ Merge(r, t, t.ok).bad = r.bad \cup t.bad
    BY <2>1, <2>2, MergeFacts
  <2>5. RunThen(r, b.run) \in Results /\ RunThen(r, b.run).ok = t.ok /\ RunThen(r, b.run).bad = r.bad \cup t.bad
    BY <2>3, <2>4
  <2> QED
    BY <2>1, <2>2, <2>3, <2>5 DEF r, t
<1>5. ASSUME NEW e \in Env PROVE Then(e, b.chk) \in Env /\ Grown(e, Then(e, b.chk))
  BY <1>3, BodyFacts, GrownSelf DEF Then, Proper, Grows
<1>6. c \in Body
  <2>1. \A e \in Env : Then(a.chk[e], b.chk) \in Env
    BY <1>3, <1>5, BodyFacts
  <2>2. \A S \in SUBSET Memory : RunThen(a.run[S], b.run) \in Results
    BY <1>4
  <2> QED
    BY <2>1, <2>2 DEF Sequence, Body
<1>7. Grows(c)
  <2>1. ASSUME NEW e \in Env PROVE Grown(e, c.chk[e])
    <3>1. a.chk[e] \in Env /\ Grown(e, a.chk[e])
      BY <1>3, BodyFacts DEF Proper, Grows
    <3>2. Grown(a.chk[e], c.chk[e])
      BY <1>1, <1>5, <3>1
    <3> QED
      BY <3>1, <3>2, GrownTrans
  <2> QED
    BY <2>1 DEF Grows
<1>8. Uniform(c)
  <2>1. ASSUME NEW e \in Env, NEW d \in Env, Same(e, d) PROVE Same(c.chk[e], c.chk[d])
    <3> DEFINE p == a.chk[e]
               q == a.chk[d]
    <3>1. p \in Env /\ q \in Env /\ Same(p, q)
      BY <1>3, <2>1, BodyFacts DEF Proper, Uniform
    <3>2. c.chk[e] = Then(p, b.chk) /\ c.chk[d] = Then(q, b.chk)
      BY <1>1
    <3> HIDE DEF p, q
    <3>3. p.f.dead <=> q.f.dead
      BY <3>1 DEF Same
    <3>4. CASE p.f.dead
      BY <3>1, <3>2, <3>3, <3>4 DEF Then
    <3>5. CASE ~p.f.dead
      <4>1. Same(b.chk[p], b.chk[q])
        BY <3>1 DEF Proper, Uniform
      <4> QED
        BY <3>2, <3>3, <3>5, <4>1 DEF Then
    <3> QED
      BY <3>4, <3>5
  <2> QED
    BY <2>1 DEF Uniform
<1>9. Strict(c)
  <2>1. a.run[{}] = NoStates /\ b.run[{}] = NoStates /\ {} \in SUBSET Memory
    BY DEF Proper, Strict
  <2>2. c.run[{}] = Merge(NoStates, NoStates, NoStates.ok)
    BY <1>2, <1>4, <2>1, NoStatesFacts
  <2>3. Merge(NoStates, NoStates, NoStates.ok) = NoStates
    BY DEF Merge, NoStates
  <2> QED
    BY <2>2, <2>3 DEF Strict
<1>10. ASSUME NEW e \in Env, NEW S \in SUBSET Memory, ~e.f.dead, Reached(e, S), Good(c.chk[e])
       PROVE  /\ c.run[S].bad = {} /\ Reached(c.chk[e], c.run[S].ok) /\ Ends(c.chk[e], c.run[S])
  <2> DEFINE p == a.chk[e]
             d == c.chk[e]
             r == a.run[S]
             t == b.run[r.ok]
  <2>1. p \in Env /\ d = Then(p, b.chk) /\ Grown(p, d) /\ Good(p)
    BY <1>1, <1>3, <1>5, <1>10, BodyFacts, GrownGood
  <2>2. r.bad = {} /\ Reached(p, r.ok) /\ Ends(p, r)
    BY <1>10, <2>1 DEF Proper, Sound
  <2>3. /\ r \in Results /\ r.ok \in SUBSET Memory /\ t \in Results /\ t.ok \in SUBSET Memory
        /\ c.run[S] = Merge(r, t, t.ok) /\ c.run[S].ok = t.ok /\ c.run[S].bad = r.bad \cup t.bad
    BY <1>2, <1>4
  <2>4. t.bad = {} /\ Reached(d, t.ok) /\ Ends(d, t)
    <3>1. CASE p.f.dead
      <4>1. r.ok = {}
        BY <2>2, <3>1, DeadReached
      <4>2. t = NoStates
        BY <4>1 DEF Proper, Strict
      <4> QED
        BY <4>2, NoStatesFacts DEF Reached
    <3>2. CASE ~p.f.dead
      <4>1. d = b.chk[p]
        BY <2>1, <3>2 DEF Then
      <4> HIDE DEF p, r
      <4>2. Good(b.chk[p])
        BY <1>10, <4>1
      <4>3. t.bad = {} /\ Reached(b.chk[p], t.ok) /\ Ends(b.chk[p], t)
        BY <2>1, <2>2, <2>3, <3>2, <4>2 DEF Proper, Sound
      <4> QED
        BY <4>1, <4>3
    <3> QED
      BY <3>1, <3>2
  <2> HIDE DEF p, d, r, t
  <2>5. Ends(d, r)
    BY <2>1, <2>2, GrownEnds
  <2>6. Ends(d, Merge(r, t, t.ok))
    BY <2>3, <2>4, <2>5, MergeEnds
  <2>7. c.run[S].bad = {} /\ Reached(d, c.run[S].ok) /\ Ends(d, c.run[S])
    BY <2>2, <2>3, <2>4, <2>6
  <2> QED
    BY <2>7 DEF d
<1> HIDE DEF c
<1>11. Sound(c)
  BY <1>10 DEF Sound
<1>12. Proper(c)
  BY <1>6, <1>7, <1>8, <1>9, <1>11 DEF Proper
<1> QED
  BY <1>12 DEF c

-----------------------------------------------------------------------------
(***************************************************************************)
(* Branches.                                                               *)
(***************************************************************************)
LEMMA GrownFlow ==
  ASSUME NEW e \in Env, NEW f \in Flow
  PROVE  /\ [e EXCEPT !.f = f] \in Env /\ [e EXCEPT !.f = f].f = f
         /\ [e EXCEPT !.f = f].loan = e.loan /\ Grown(e, [e EXCEPT !.f = f])
<1> DEFINE d == [e EXCEPT !.f = f]
<1>1. /\ d \in Env /\ d.f = f /\ d.loan = e.loan /\ d.brk = e.brk /\ d.cont = e.cont
      /\ d.err = e.err /\ d.crash = e.crash /\ d.seen = e.seen
  BY FlowFacts
<1> HIDE DEF d
<1>2. Grown(e, d)
  BY <1>1, TrustsSelf DEF Grown
<1> QED
  BY <1>1, <1>2 DEF d

LEMMA GrownLost ==
  ASSUME NEW e \in Env, NEW f \in Flow, NEW lost \in BOOLEAN
  PROVE  LET d == Merged(e, f, lost) IN
         /\ d \in Env /\ d.f = f /\ d.loan = e.loan /\ d.brk = e.brk /\ d.cont = e.cont
         /\ Grown(e, d) /\ (Good(d) => ~lost)
<1> DEFINE d == Merged(e, f, lost)
<1>1. /\ d \in Env /\ d.f = f /\ d.loan = e.loan /\ d.brk = e.brk /\ d.cont = e.cont
      /\ d.err = e.err /\ d.crash = e.crash /\ d.seen.lost = (e.seen.lost \/ lost)
      /\ d.seen.brk = e.seen.brk /\ d.seen.cont = e.seen.cont /\ d.seen.raised = e.seen.raised
  BY LostFacts
<1> HIDE DEF d
<1>2. Grown(e, d) /\ (Good(d) => ~lost)
  BY <1>1, TrustsSelf DEF Grown, Good
<1> QED
  BY <1>1, <1>2 DEF d

\* The steps of If: the first branch, the flow before it again, the second, the merge.
IfLost(e, t, u) ==
  ~Keeps(e.f, t.loan, e.loan) \/ \E l \in Loans(t) : ~Keeps(flow_join(t.f, u.f), u.loan, l)

LEMMA IfFacts ==
  ASSUME NEW a, NEW b, Proper(a), Proper(b), NEW e \in Env
  PROVE  LET t  == a.chk[e]
             te == [t EXCEPT !.f = e.f]
             u  == b.chk[te]
             d  == If(e, a.chk, b.chk)
         IN  /\ t \in Env /\ te \in Env /\ u \in Env /\ d \in Env
             /\ te.f = e.f /\ te.loan = t.loan /\ te.brk = t.brk /\ te.cont = t.cont
             /\ d.f = flow_join(t.f, u.f) /\ d.loan = u.loan /\ d.brk = u.brk /\ d.cont = u.cont
             /\ Grown(e, t) /\ Grown(t, te) /\ Grown(te, u) /\ Grown(u, d)
             /\ Good(d) => ~IfLost(e, t, u)
<1> DEFINE t  == a.chk[e]
           te == [t EXCEPT !.f = e.f]
           u  == b.chk[te]
           f  == flow_join(t.f, u.f)
           lost == IfLost(e, t, u)
           d  == If(e, a.chk, b.chk)
<1>1. t \in Env /\ Grown(e, t)
  BY BodyFacts DEF Proper, Grows
<1>2. e.f \in Flow /\ t.f \in Flow
  BY <1>1, EnvFacts
<1> HIDE DEF t
<1>3. te \in Env /\ te.f = e.f /\ te.loan = t.loan /\ te.brk = t.brk /\ te.cont = t.cont /\ Grown(t, te)
  BY <1>1, <1>2, GrownFlow, FlowFacts
<1> HIDE DEF te
<1>4. u \in Env /\ Grown(te, u)
  BY <1>3, BodyFacts DEF Proper, Grows
<1>5. u.f \in Flow
  BY <1>4, EnvFacts
<1> HIDE DEF u
<1>6. f \in Flow /\ lost \in BOOLEAN
  BY <1>2, <1>5, JoinType DEF IfLost
<1>7. d = Merged(u, f, lost)
  BY DEF If, IfLost, Merged, t, te, u
<1> HIDE DEF f, lost, d
<1>8. /\ d \in Env /\ d.f = f /\ d.loan = u.loan /\ d.brk = u.brk /\ d.cont = u.cont
      /\ Grown(u, d) /\ (Good(d) => ~lost)
  BY <1>4, <1>6, <1>7, GrownLost
<1> QED
  BY <1>1, <1>3, <1>4, <1>8 DEF t, te, u, d, f, lost

LEMMA BranchProper ==
  ASSUME NEW a, NEW b, Proper(a), Proper(b)
  PROVE  Proper(Branch(a, b))
<1> DEFINE c == Branch(a, b)
<1>1. \A e \in Env : c.chk[e] = If(e, a.chk, b.chk)
  BY DEF Branch
<1>2. \A S \in SUBSET Memory : c.run[S] = Merge(a.run[S], b.run[S], a.run[S].ok \cup b.run[S].ok)
  BY DEF Branch, RunIf
<1>3. a \in Body /\ b \in Body
  BY DEF Proper
<1>4. ASSUME NEW S \in SUBSET Memory
      PROVE  /\ a.run[S] \in Results /\ b.run[S] \in Results
             /\ a.run[S].ok \cup b.run[S].ok \in SUBSET Memory
             /\ c.run[S] \in Results
             /\ c.run[S].ok = a.run[S].ok \cup b.run[S].ok
             /\ c.run[S].bad = a.run[S].bad \cup b.run[S].bad
  <2> DEFINE r == a.run[S]
             t == b.run[S]
  <2>1. r \in Results /\ t \in Results /\ r.ok \cup t.ok \in SUBSET Memory
    BY <1>3, BodyFacts
  <2>2. c.run[S] = Merge(r, t, r.ok \cup t.ok)
    BY <1>2
  <2> HIDE DEF r, t, c
  <2>3. c.run[S] \in Results /\ c.run[S].ok = r.ok \cup t.ok /\ c.run[S].bad = r.bad \cup t.bad
    BY <2>1, <2>2, MergeFacts
  <2> QED
    BY <2>1, <2>3 DEF r, t
<1>5. c \in Body
  <2>1. \A e \in Env : If(e, a.chk, b.chk) \in Env
    BY IfFacts
  <2>2. \A S \in SUBSET Memory : RunIf(S, a.run, b.run) \in Results
    BY <1>4 DEF Branch
  <2> QED
    BY <2>1, <2>2 DEF Branch, Body
<1>6. Grows(c)
  <2>1. ASSUME NEW e \in Env PROVE Grown(e, c.chk[e])
    <3> DEFINE t  == a.chk[e]
               te == [t EXCEPT !.f = e.f]
               u  == b.chk[te]
               d  == If(e, a.chk, b.chk)
    <3>1. Grown(e, t) /\ Grown(t, te) /\ Grown(te, u) /\ Grown(u, d)
      BY IfFacts
    <3> HIDE DEF t, te, u, d
    <3>2. Grown(e, d)
      BY <3>1, GrownTrans
    <3> QED
      BY <1>1, <3>2 DEF d
  <2> QED
    BY <2>1 DEF Grows
<1>7. Uniform(c)
  <2>1. ASSUME NEW e \in Env, NEW g \in Env, Same(e, g) PROVE Same(c.chk[e], c.chk[g])
    <3> DEFINE t  == a.chk[e]
               te == [t EXCEPT !.f = e.f]
               u  == b.chk[te]
               d  == If(e, a.chk, b.chk)
               s  == a.chk[g]
               sg == [s EXCEPT !.f = g.f]
               v  == b.chk[sg]
               h  == If(g, a.chk, b.chk)
    <3>1. /\ te \in Env /\ te.f = e.f /\ te.loan = t.loan /\ te.brk = t.brk /\ te.cont = t.cont
          /\ d.f = flow_join(t.f, u.f) /\ d.loan = u.loan /\ d.brk = u.brk /\ d.cont = u.cont
      BY IfFacts
    <3>2. /\ sg \in Env /\ sg.f = g.f /\ sg.loan = s.loan /\ sg.brk = s.brk /\ sg.cont = s.cont
          /\ h.f = flow_join(s.f, v.f) /\ h.loan = v.loan /\ h.brk = v.brk /\ h.cont = v.cont
      BY IfFacts
    <3>3. Same(t, s) /\ e.f = g.f
      BY <2>1 DEF Proper, Uniform, Same
    <3> HIDE DEF t, s
    <3>4. Same(te, sg)
      <4> HIDE DEF te, sg, u, v, d, h
      <4> QED
        BY <3>1, <3>2, <3>3 DEF Same
    <3> HIDE DEF te, sg
    <3>5. Same(u, v)
      BY <3>1, <3>2, <3>4 DEF Proper, Uniform
    <3> HIDE DEF u, v, d, h
    <3>6. flow_join(t.f, u.f) = flow_join(s.f, v.f)
      BY <3>3, <3>5 DEF Same
    <3>7. Same(d, h)
      BY <3>1, <3>2, <3>5, <3>6 DEF Same
    <3> QED
      BY <1>1, <3>7 DEF d, h
  <2> QED
    BY <2>1 DEF Uniform
<1>8. Strict(c)
  <2>1. a.run[{}] = NoStates /\ b.run[{}] = NoStates /\ {} \in SUBSET Memory
    BY DEF Proper, Strict
  <2>2. c.run[{}] = Merge(NoStates, NoStates, NoStates.ok \cup NoStates.ok)
    BY <1>2, <2>1
  <2>3. Merge(NoStates, NoStates, NoStates.ok \cup NoStates.ok) = NoStates
    BY DEF Merge, NoStates
  <2> QED
    BY <2>2, <2>3 DEF Strict
<1>9. ASSUME NEW e \in Env, NEW S \in SUBSET Memory, ~e.f.dead, Reached(e, S), Good(c.chk[e])
      PROVE  /\ c.run[S].bad = {} /\ Reached(c.chk[e], c.run[S].ok) /\ Ends(c.chk[e], c.run[S])
  <2> DEFINE t  == a.chk[e]
             te == [t EXCEPT !.f = e.f]
             u  == b.chk[te]
             f  == flow_join(t.f, u.f)
             d  == If(e, a.chk, b.chk)
             r  == a.run[S]
             q  == b.run[S]
  <2>1. /\ t \in Env /\ te \in Env /\ u \in Env /\ d \in Env
        /\ te.f = e.f /\ te.loan = t.loan
        /\ d.f = f /\ d.loan = u.loan
        /\ Grown(e, t) /\ Grown(t, te) /\ Grown(te, u) /\ Grown(u, d)
        /\ Good(d) => ~IfLost(e, t, u)
    BY IfFacts
  <2>2. Good(d) /\ d = c.chk[e]
    BY <1>1, <1>9
  <2>3. /\ r \in Results /\ q \in Results /\ r.ok \cup q.ok \in SUBSET Memory
        /\ c.run[S] = Merge(r, q, r.ok \cup q.ok)
        /\ c.run[S].ok = r.ok \cup q.ok /\ c.run[S].bad = r.bad \cup q.bad
    BY <1>2, <1>4
  <2>4. Good(t) => r.bad = {} /\ Reached(t, r.ok) /\ Ends(t, r)
    BY <1>9 DEF Proper, Sound
  <2> HIDE DEF t, r
  <2>5. ~te.f.dead /\ Reached(te, S) /\ Good(u) => q.bad = {} /\ Reached(u, q.ok) /\ Ends(u, q)
    BY <2>1 DEF Proper, Sound
  <2> HIDE DEF te, u, d, q, c
  <2>6. Good(t) /\ Good(u) /\ Grown(t, d)
    BY <2>1, <2>2, GrownGood, GrownTrans
  <2>7. t.f \in Flow /\ u.f \in Flow
    BY <2>1, EnvFacts
  <2>8. Trusts(f, t.f) /\ Trusts(f, u.f) /\ f \in Flow
    BY <2>7, JoinTrusts
  <2>9. Keeps(e.f, t.loan, e.loan) /\ \A l \in Loans(t) : Keeps(f, u.loan, l)
    BY <2>1, <2>2 DEF IfLost
  <2> HIDE DEF f
  <2>10. Reached(te, S)
    <3>1. ASSUME NEW n \in S PROVE Holds(e.f, t.loan, n)
      BY <1>9, <2>9, HoldsMeet, TrustsSelf DEF Reached
    <3> QED
      BY <1>9, <2>1, <3>1 DEF Reached
  <2>11. ASSUME NEW n \in r.ok PROVE ~d.f.dead /\ Holds(d.f, d.loan, n)
    <3>1. ~t.f.dead /\ Holds(t.f, t.loan, n)
      BY <2>4, <2>6 DEF Reached
    <3>2. Keeps(f, u.loan, t.loan)
      BY <2>9, <3>1 DEF Loans
    <3>3. ~f.dead /\ Holds(f, u.loan, n)
      BY <2>8, <3>1, <3>2, HoldsMeet
    <3> QED
      BY <2>1, <3>3
  <2>12. ASSUME NEW n \in q.ok PROVE ~d.f.dead /\ Holds(d.f, d.loan, n)
    <3>1. ~u.f.dead /\ Holds(u.f, u.loan, n)
      BY <1>9, <2>1, <2>5, <2>6, <2>10 DEF Reached
    <3>2. ~f.dead /\ Holds(f, u.loan, n)
      BY <2>8, <3>1, HoldsMeet, KeepsSelf
    <3> QED
      BY <2>1, <3>2
  <2>13. Reached(d, c.run[S].ok)
    BY <2>3, <2>11, <2>12 DEF Reached
  <2>14. Ends(d, r) /\ Ends(d, q)
    BY <1>9, <2>1, <2>4, <2>5, <2>6, <2>10, GrownEnds
  <2>15. Ends(d, c.run[S])
    BY <2>3, <2>14, MergeEnds
  <2>16. c.run[S].bad = {}
    BY <1>9, <2>1, <2>3, <2>4, <2>5, <2>6, <2>10
  <2> QED
    BY <2>2, <2>13, <2>15, <2>16
<1> HIDE DEF c
<1>10. Sound(c)
  BY <1>9 DEF Sound
<1>11. Proper(c)
  BY <1>5, <1>6, <1>7, <1>8, <1>10 DEF Proper
<1> QED
  BY <1>11 DEF c

-----------------------------------------------------------------------------
(***************************************************************************)
(* Tries.                                                                  *)
(***************************************************************************)
\* The two ends of a body that catches what is raised in it.
Caught(e) == [e EXCEPT !.seen.raised = {}]
Except(b, e) == [b EXCEPT !.f = e.f, !.seen.raised = @ \cup e.seen.raised]

LEMMA CaughtFacts ==
  ASSUME NEW e \in Env
  PROVE  LET d == Caught(e) IN
         /\ d \in Env /\ d.f = e.f /\ d.loan = e.loan /\ d.brk = e.brk /\ d.cont = e.cont
         /\ d.err = e.err /\ d.crash = e.crash /\ d.seen.lost = e.seen.lost
         /\ d.seen.brk = e.seen.brk /\ d.seen.cont = e.seen.cont
<1> DEFINE s == [e.seen EXCEPT !.raised = {}]
           d == Caught(e)
<1>1. s \in Seen /\ s.cont = e.seen.cont /\ s.brk = e.seen.brk /\ s.lost = e.seen.lost
  BY EnvFacts DEF Seen
<1>2. d = [e EXCEPT !.seen = s]
  BY EnvFacts DEF Env, Caught
<1> HIDE DEF s, d
<1>3. /\ d \in Env /\ d.f = e.f /\ d.loan = e.loan /\ d.brk = e.brk
      /\ d.cont = e.cont /\ d.err = e.err /\ d.crash = e.crash /\ d.seen = s
  BY <1>1, <1>2 DEF Env
<1> QED
  BY <1>1, <1>3 DEF d

LEMMA ExceptFacts ==
  ASSUME NEW b \in Env, NEW e \in Env
  PROVE  LET d == Except(b, e) IN
         /\ d \in Env /\ d.f = e.f /\ d.loan = b.loan /\ d.brk = b.brk /\ d.cont = b.cont
         /\ d.err = b.err /\ d.crash = b.crash /\ d.seen.lost = b.seen.lost
         /\ d.seen.brk = b.seen.brk /\ d.seen.cont = b.seen.cont
         /\ d.seen.raised = b.seen.raised \cup e.seen.raised
<1> DEFINE s == [b.seen EXCEPT !.raised = @ \cup e.seen.raised]
           d == Except(b, e)
           f == e.f
<1>1. s \in Seen /\ s.cont = b.seen.cont /\ s.brk = b.seen.brk /\ s.lost = b.seen.lost
      /\ s.raised = b.seen.raised \cup e.seen.raised
  BY EnvFacts DEF Seen
<1>2. d = [b EXCEPT !.f = f, !.seen = s]
  BY EnvFacts DEF Env, Except
<1>3. f \in Flow
  BY EnvFacts
<1> HIDE DEF s, d, f
<1>4. /\ d \in Env /\ d.f = f /\ d.loan = b.loan /\ d.brk = b.brk
      /\ d.cont = b.cont /\ d.err = b.err /\ d.crash = b.crash /\ d.seen = s
  BY <1>1, <1>2, <1>3 DEF Env
<1> QED
  BY <1>1, <1>4 DEF d, f

TryLost(e, b, x) ==
  \/ \E r \in b.seen.raised : ~Trusts(e.f, r.f) \/ ~Keeps(e.f, b.loan, r.loan)
  \/ \E l \in Loans(b) : ~Keeps(flow_join(b.f, x.f), x.loan, l)

LEMMA TryFacts ==
  ASSUME NEW a, NEW c, Proper(a), Proper(c), NEW e \in Env
  PROVE  LET b == a.chk[Caught(e)]
             y == Except(b, e)
             x == c.chk[y]
             d == Try(e, a.chk, c.chk)
         IN  /\ b \in Env /\ y \in Env /\ x \in Env /\ d \in Env
             /\ d.f = flow_join(b.f, x.f) /\ d.loan = x.loan /\ d.brk = x.brk /\ d.cont = x.cont
             /\ Grown(e, y) /\ Grown(y, x) /\ Grown(x, d) /\ (Good(y) => Good(b))
             /\ Good(d) => ~TryLost(e, b, x)
<1> DEFINE k == Caught(e)
           b == a.chk[k]
           y == Except(b, e)
           x == c.chk[y]
           f == flow_join(b.f, x.f)
           lost == TryLost(e, b, x)
           d == Try(e, a.chk, c.chk)
<1>1. k \in Env
  BY CaughtFacts
<1>2. b \in Env /\ Grown(k, b)
  BY <1>1, BodyFacts DEF Proper, Grows
<1>3. /\ k.brk = e.brk /\ k.cont = e.cont /\ k.err = e.err /\ k.crash = e.crash
      /\ k.seen.lost = e.seen.lost /\ k.seen.brk = e.seen.brk /\ k.seen.cont = e.seen.cont
  BY CaughtFacts
<1>4. d = Merged(x, f, lost)
  BY DEF Try, TryLost, Merged, Caught, Except
<1> HIDE DEF k, b
<1>5. /\ y \in Env /\ y.f = e.f /\ y.loan = b.loan /\ y.brk = b.brk /\ y.cont = b.cont
      /\ y.err = b.err /\ y.crash = b.crash /\ y.seen.lost = b.seen.lost
      /\ y.seen.brk = b.seen.brk /\ y.seen.cont = b.seen.cont
      /\ y.seen.raised = b.seen.raised \cup e.seen.raised
  BY <1>2, ExceptFacts
<1> HIDE DEF y
<1>6. Grown(e, y) /\ (Good(y) => Good(b))
  BY <1>2, <1>3, <1>5 DEF Grown, Good
<1>7. x \in Env /\ Grown(y, x)
  BY <1>5, BodyFacts DEF Proper, Grows
<1> HIDE DEF x
<1>8. b.f \in Flow /\ x.f \in Flow
  BY <1>2, <1>7, EnvFacts
<1>9. f \in Flow /\ lost \in BOOLEAN
  BY <1>8, JoinType DEF TryLost
<1> HIDE DEF f, lost, d
<1>10. /\ d \in Env /\ d.f = f /\ d.loan = x.loan /\ d.brk = x.brk /\ d.cont = x.cont
       /\ Grown(x, d) /\ (Good(d) => ~lost)
  BY <1>4, <1>7, <1>9, GrownLost
<1> QED
  BY <1>2, <1>5, <1>6, <1>7, <1>10 DEF k, b, y, x, d, f, lost

LEMMA GuardProper ==
  ASSUME NEW a, NEW b, Proper(a), Proper(b)
  PROVE  Proper(Guard(a, b))
<1> DEFINE c == Guard(a, b)
<1>1. \A e \in Env : c.chk[e] = Try(e, a.chk, b.chk)
  BY DEF Guard
<1>2. \A S \in SUBSET Memory : c.run[S] = RunTry(S, a.run, b.run)
  BY DEF Guard
<1>3. a \in Body /\ b \in Body
  BY DEF Proper
<1>4. ASSUME NEW S \in SUBSET Memory
      PROVE  LET r == a.run[S]
                 t == b.run[r.exc]
             IN  /\ r \in Results /\ t \in Results /\ r.ok \cup t.ok \in SUBSET Memory
                 /\ c.run[S] = Merge(r, t, r.ok \cup t.ok) /\ c.run[S] \in Results
                 /\ c.run[S].ok = r.ok \cup t.ok /\ c.run[S].bad = r.bad \cup t.bad
  <2> DEFINE r == a.run[S]
             t == b.run[r.exc]
  <2>1. r \in Results /\ r.ok \in SUBSET Memory /\ r.exc \in SUBSET Memory
    BY <1>3, BodyFacts
  <2>2. t \in Results /\ t.ok \in SUBSET Memory
    BY <1>3, <2>1, BodyFacts
  <2>3. c.run[S] = Merge(r, t, r.ok \cup t.ok)
    BY <1>2 DEF RunTry
  <2> HIDE DEF r, t, c
  <2>4. c.run[S] \in Results /\ c.run[S].ok = r.ok \cup t.ok /\ c.run[S].bad = r.bad \cup t.bad
    BY <2>1, <2>2, <2>3, MergeFacts
  <2> QED
    BY <2>1, <2>2, <2>3, <2>4 DEF r, t
<1>5. c \in Body
  <2>1. \A e \in Env : Try(e, a.chk, b.chk) \in Env
    BY TryFacts
  <2>2. \A S \in SUBSET Memory : RunTry(S, a.run, b.run) \in Results
    BY <1>2, <1>4
  <2> QED
    BY <2>1, <2>2 DEF Guard, Body
<1>6. Grows(c)
  <2>1. ASSUME NEW e \in Env PROVE Grown(e, c.chk[e])
    <3> DEFINE y == Except(a.chk[Caught(e)], e)
               x == b.chk[y]
               d == Try(e, a.chk, b.chk)
    <3>1. Grown(e, y) /\ Grown(y, x) /\ Grown(x, d)
      BY TryFacts
    <3> HIDE DEF y, x, d
    <3>2. Grown(e, d)
      BY <3>1, GrownTrans
    <3> QED
      BY <1>1, <3>2 DEF d
  <2> QED
    BY <2>1 DEF Grows
<1>7. Uniform(c)
  <2>1. ASSUME NEW e \in Env, NEW g \in Env, Same(e, g) PROVE Same(c.chk[e], c.chk[g])
    <3> DEFINE k == Caught(e)
               t == a.chk[k]
               y == Except(t, e)
               x == b.chk[y]
               d == Try(e, a.chk, b.chk)
               l == Caught(g)
               s == a.chk[l]
               z == Except(s, g)
               v == b.chk[z]
               h == Try(g, a.chk, b.chk)
    <3>1. /\ t \in Env /\ y \in Env /\ x \in Env
          /\ d.f = flow_join(t.f, x.f) /\ d.loan = x.loan /\ d.brk = x.brk /\ d.cont = x.cont
      BY TryFacts
    <3>2. /\ s \in Env /\ z \in Env /\ v \in Env
          /\ h.f = flow_join(s.f, v.f) /\ h.loan = v.loan /\ h.brk = v.brk /\ h.cont = v.cont
      BY TryFacts
    <3>3. k \in Env /\ l \in Env /\ Same(k, l) /\ e.f = g.f
      BY <2>1, CaughtFacts DEF Same
    <3>4. Same(t, s)
      BY <3>3 DEF Proper, Uniform
    <3> HIDE DEF k, l, t, s
    <3>5. Same(y, z)
      BY <3>1, <3>2, <3>3, <3>4, ExceptFacts DEF Same
    <3> HIDE DEF y, z
    <3>6. Same(x, v)
      BY <3>1, <3>2, <3>5 DEF Proper, Uniform
    <3> HIDE DEF x, v, d, h
    <3>7. flow_join(t.f, x.f) = flow_join(s.f, v.f)
      BY <3>4, <3>6 DEF Same
    <3>8. Same(d, h)
      BY <3>1, <3>2, <3>6, <3>7 DEF Same
    <3> QED
      BY <1>1, <3>8 DEF d, h
  <2> QED
    BY <2>1 DEF Uniform
<1>8. Strict(c)
  <2>1. a.run[{}] = NoStates /\ b.run[{}] = NoStates /\ {} \in SUBSET Memory
    BY DEF Proper, Strict
  <2>2. NoStates.exc = {} /\ NoStates.ok = {}
    BY DEF NoStates
  <2>3. c.run[{}] = Merge(NoStates, b.run[NoStates.exc], NoStates.ok \cup b.run[NoStates.exc].ok)
    BY <1>4, <2>1
  <2>4. Merge(NoStates, NoStates, {} \cup {}) = NoStates
    BY DEF Merge, NoStates
  <2>5. c.run[{}] = Merge(NoStates, NoStates, {} \cup {})
    BY <2>1, <2>2, <2>3
  <2> QED
    BY <2>4, <2>5 DEF Strict
<1>9. ASSUME NEW e \in Env, NEW S \in SUBSET Memory, ~e.f.dead, Reached(e, S), Good(c.chk[e])
       PROVE  /\ c.run[S].bad = {} /\ Reached(c.chk[e], c.run[S].ok) /\ Ends(c.chk[e], c.run[S])
  <2> DEFINE k == Caught(e)
             t == a.chk[k]
             y == Except(t, e)
             x == b.chk[y]
             f == flow_join(t.f, x.f)
             d == Try(e, a.chk, b.chk)
             r == a.run[S]
             o == b.run[r.exc]
  <2>1. /\ t \in Env /\ y \in Env /\ x \in Env /\ d \in Env
        /\ d.f = f /\ d.loan = x.loan
        /\ Grown(y, x) /\ Grown(x, d) /\ (Good(y) => Good(t))
        /\ Good(d) => ~TryLost(e, t, x)
    BY TryFacts
  <2>2. Good(d) /\ d = c.chk[e]
    BY <1>1, <1>9
  <2>3. /\ r \in Results /\ o \in Results /\ r.ok \cup o.ok \in SUBSET Memory
        /\ c.run[S] = Merge(r, o, r.ok \cup o.ok)
        /\ c.run[S].ok = r.ok \cup o.ok /\ c.run[S].bad = r.bad \cup o.bad
    BY <1>4
  <2>4. k \in Env /\ k.f = e.f /\ k.loan = e.loan
    BY CaughtFacts
  <2>5. Reached(k, S) /\ ~k.f.dead
    BY <1>9, <2>4 DEF Reached
  <2>6. Good(t) => r.bad = {} /\ Reached(t, r.ok) /\ Ends(t, r)
    BY <2>4, <2>5 DEF Proper, Sound
  <2> HIDE DEF k, t, r
  <2>7. y.f = e.f /\ y.loan = t.loan /\ y.brk = t.brk /\ y.cont = t.cont
        /\ y.seen.brk = t.seen.brk /\ y.seen.cont = t.seen.cont
        /\ t.seen.raised \subseteq y.seen.raised
    BY <2>1, ExceptFacts
  <2>8. ~y.f.dead /\ Reached(y, r.exc) /\ Good(x) => o.bad = {} /\ Reached(x, o.ok) /\ Ends(x, o)
    BY <2>1, <2>3, ResultsFacts DEF Proper, Sound
  <2> HIDE DEF y, x, d, o, c
  <2>9. Good(t) /\ Good(x) /\ Grown(y, d)
    BY <2>1, <2>2, GrownGood, GrownTrans
  <2>10. t.f \in Flow /\ x.f \in Flow
    BY <2>1, EnvFacts
  <2>11. Trusts(f, t.f) /\ Trusts(f, x.f) /\ f \in Flow
    BY <2>10, JoinTrusts
  <2>12. /\ \A u \in t.seen.raised : Trusts(e.f, u.f) /\ Keeps(e.f, t.loan, u.loan)
         /\ \A l \in Loans(t) : Keeps(f, x.loan, l)
    BY <2>1, <2>2 DEF TryLost
  <2> HIDE DEF f
  <2>13. Reached(y, r.exc)
    <3>1. ASSUME NEW n \in r.exc PROVE ~y.f.dead /\ Holds(y.f, y.loan, n)
      <4>1. PICK u \in t.seen.raised : ~u.f.dead /\ Holds(u.f, u.loan, n)
        BY <2>6, <2>9 DEF Ends
      <4>2. Trusts(e.f, u.f) /\ Keeps(e.f, t.loan, u.loan)
        BY <2>12, <4>1
      <4>3. Holds(e.f, t.loan, n)
        BY <4>1, <4>2, HoldsMeet
      <4> QED
        BY <1>9, <2>7, <4>3
    <3> QED
      BY <3>1 DEF Reached
  <2>14. ASSUME NEW n \in r.ok PROVE ~d.f.dead /\ Holds(d.f, d.loan, n)
    <3>1. ~t.f.dead /\ Holds(t.f, t.loan, n)
      BY <2>6, <2>9 DEF Reached
    <3>2. Keeps(f, x.loan, t.loan)
      BY <2>12, <3>1 DEF Loans
    <3>3. ~f.dead /\ Holds(f, x.loan, n)
      BY <2>11, <3>1, <3>2, HoldsMeet
    <3> QED
      BY <2>1, <3>3
  <2>15. o.bad = {} /\ Reached(x, o.ok) /\ Ends(x, o)
    BY <1>9, <2>7, <2>8, <2>9, <2>13
  <2>16. ASSUME NEW n \in o.ok PROVE ~d.f.dead /\ Holds(d.f, d.loan, n)
    <3>1. ~x.f.dead /\ Holds(x.f, x.loan, n)
      BY <2>15 DEF Reached
    <3>2. ~f.dead /\ Holds(f, x.loan, n)
      BY <2>11, <3>1, HoldsMeet, KeepsSelf
    <3> QED
      BY <2>1, <3>2
  <2>17. Reached(d, c.run[S].ok)
    BY <2>3, <2>14, <2>16 DEF Reached
  <2>18. Ends(y, r)
    BY <2>6, <2>7, <2>9 DEF Ends
  <2>19. Ends(d, r) /\ Ends(d, o)
    BY <2>1, <2>9, <2>15, <2>18, GrownEnds
  <2>20. Ends(d, c.run[S])
    BY <2>3, <2>19, MergeEnds
  <2>21. c.run[S].bad = {}
    BY <2>3, <2>6, <2>9, <2>15
  <2> QED
    BY <2>2, <2>17, <2>20, <2>21
<1> HIDE DEF c
<1>10. Sound(c)
  BY <1>9 DEF Sound
<1>11. Proper(c)
  BY <1>5, <1>6, <1>7, <1>8, <1>10 DEF Proper
<1> QED
  BY <1>11 DEF c

-----------------------------------------------------------------------------
(***************************************************************************)
(* Loops. The rounds give a flow that trusts what comes back only if the   *)
(* last one changed nothing, and only for the loans it was found with:     *)
(* those of a round are those of the next.                                 *)
(***************************************************************************)
\* Into a loop's body and out of it: its breaks and continues are its own.
Inner(e) == [e EXCEPT !.brk = DeadFlow, !.cont = DeadFlow, !.seen.brk = {}, !.seen.cont = {}]
Outer(b, e) == [b EXCEPT !.brk = e.brk, !.cont = e.cont,
                         !.seen.brk = e.seen.brk, !.seen.cont = e.seen.cont]

LEMMA InnerFacts ==
  ASSUME NEW e \in Env
  PROVE  LET d == Inner(e) IN
         /\ d \in Env /\ d.f = e.f /\ d.loan = e.loan /\ d.brk = DeadFlow /\ d.cont = DeadFlow
         /\ d.err = e.err /\ d.crash = e.crash /\ d.seen.lost = e.seen.lost
         /\ d.seen.raised = e.seen.raised
<1> DEFINE s == [e.seen EXCEPT !.brk = {}, !.cont = {}]
           d == Inner(e)
           f == DeadFlow
<1>1. s \in Seen /\ s.raised = e.seen.raised /\ s.lost = e.seen.lost
  BY EnvFacts DEF Seen
<1>2. d = [e EXCEPT !.brk = f, !.cont = f, !.seen = s]
  BY EnvFacts DEF Env, Seen, Inner
<1>3. f \in Flow
  BY DeadFlowType
<1> HIDE DEF s, d, f
<1>4. /\ d \in Env /\ d.f = e.f /\ d.loan = e.loan /\ d.brk = f
      /\ d.cont = f /\ d.err = e.err /\ d.crash = e.crash /\ d.seen = s
  BY <1>1, <1>2, <1>3 DEF Env
<1> QED
  BY <1>1, <1>4 DEF d, f

LEMMA OuterFacts ==
  ASSUME NEW b \in Env, NEW e \in Env
  PROVE  LET d == Outer(b, e) IN
         /\ d \in Env /\ d.f = b.f /\ d.loan = b.loan /\ d.brk = e.brk /\ d.cont = e.cont
         /\ d.err = b.err /\ d.crash = b.crash /\ d.seen.lost = b.seen.lost
         /\ d.seen.brk = e.seen.brk /\ d.seen.cont = e.seen.cont
         /\ d.seen.raised = b.seen.raised
<1> DEFINE p == e.seen.brk
           q == e.seen.cont
           s == [b.seen EXCEPT !.brk = p, !.cont = q]
           d == Outer(b, e)
           f == e.brk
           g == e.cont
<1>1. p \in SUBSET LoanTable /\ q \in SUBSET LoanTable /\ f \in Flow /\ g \in Flow
  BY EnvFacts
<1>2. d = [b EXCEPT !.brk = f, !.cont = g, !.seen = s]
  BY EnvFacts DEF Env, Seen, Outer
<1> HIDE DEF p, q, f, g, d
<1>3. s \in Seen /\ s.brk = p /\ s.cont = q /\ s.raised = b.seen.raised /\ s.lost = b.seen.lost
  BY <1>1, EnvFacts DEF Seen
<1> HIDE DEF s
<1>4. /\ d \in Env /\ d.f = b.f /\ d.loan = b.loan /\ d.brk = f
      /\ d.cont = g /\ d.err = b.err /\ d.crash = b.crash /\ d.seen = s
  BY <1>1, <1>2, <1>3 DEF Env
<1> QED
  BY <1>3, <1>4 DEF d, f, g, p, q

LEMMA OnceFacts ==
  ASSUME NEW a, Proper(a), NEW e \in Env
  PROVE  LET k == Inner(e)
             b == a.chk[k]
             w == while_once(e, a.chk)
         IN  /\ k \in Env /\ k.f = e.f /\ k.loan = e.loan
             /\ b \in Env /\ b.f \in Flow /\ b.brk \in Flow /\ b.cont \in Flow
             /\ w.env \in Env /\ w.env.f = b.f /\ w.env.loan = b.loan
             /\ w.env.brk = e.brk /\ w.env.cont = e.cont
             /\ w.env.seen.raised = b.seen.raised
             /\ w.back = flow_join(b.f, b.cont) /\ w.back \in Flow
             /\ w.exit = flow_join(e.f, b.brk) /\ w.exit \in Flow
             /\ w.again = Loans(b) \cup b.seen.cont /\ w.left = {e.loan} \cup b.seen.brk
             /\ Grown(e, w.env) /\ (Good(w.env) => Good(b)) /\ (e.crash => w.env.crash)
<1> DEFINE k == Inner(e)
           b == a.chk[k]
           v == Outer(b, e)
           w == while_once(e, a.chk)
<1>1. /\ k \in Env /\ k.f = e.f /\ k.loan = e.loan
      /\ k.err = e.err /\ k.crash = e.crash /\ k.seen.lost = e.seen.lost
      /\ k.seen.raised = e.seen.raised
  BY InnerFacts
<1>2. b \in Env /\ Grown(k, b)
  BY <1>1, BodyFacts DEF Proper, Grows
<1>3. w = [env |-> v, back |-> flow_join(b.f, b.cont), exit |-> flow_join(e.f, b.brk),
           again |-> Loans(b) \cup b.seen.cont, left |-> {e.loan} \cup b.seen.brk]
  BY DEF while_once, Inner, Outer
<1> HIDE DEF k, b, w
<1>4. e.f \in Flow /\ b.f \in Flow /\ b.brk \in Flow /\ b.cont \in Flow
  BY <1>2, EnvFacts
<1>5. flow_join(b.f, b.cont) \in Flow /\ flow_join(e.f, b.brk) \in Flow
  BY <1>4, JoinType
<1>6. /\ v \in Env /\ v.f = b.f /\ v.loan = b.loan /\ v.brk = e.brk /\ v.cont = e.cont
      /\ v.err = b.err /\ v.crash = b.crash /\ v.seen.lost = b.seen.lost
      /\ v.seen.brk = e.seen.brk /\ v.seen.cont = e.seen.cont
      /\ v.seen.raised = b.seen.raised
  BY <1>2, OuterFacts
<1>7. w.env = v /\ w.back = flow_join(b.f, b.cont) /\ w.exit = flow_join(e.f, b.brk)
      /\ w.again = Loans(b) \cup b.seen.cont /\ w.left = {e.loan} \cup b.seen.brk
  BY <1>3
<1> HIDE DEF v
<1>8. Grown(e, v) /\ (Good(v) => Good(b)) /\ (e.crash => v.crash)
  BY <1>1, <1>2, <1>6, TrustsSelf DEF Grown, Good
<1> QED
  BY <1>1, <1>2, <1>4, <1>5, <1>6, <1>7, <1>8 DEF k, b, w

\* What a round does to the beginning of the next.
Later(e, d) ==
  /\ d \in Env /\ d.brk = e.brk /\ d.cont = e.cont /\ d.err = e.err /\ d.seen = e.seen
  /\ (e.crash => d.crash) /\ Trusts(d.f, e.f) /\ (~e.f.dead => ~d.f.dead)

LEMMA LaterTrans ==
  ASSUME NEW e, NEW d, NEW c, Later(e, d), Later(d, c)
  PROVE  Later(e, c)
<1>1. Trusts(c.f, e.f)
  BY TrustsTrans DEF Later
<1> QED
  BY <1>1 DEF Later

LEMMA RoundFacts ==
  ASSUME NEW a, Proper(a), NEW e \in Env
  PROVE  LET w == while_once(e, a.chk)
             d == Round(e, a.chk)
         IN  d \in Env /\ Later(e, d) /\ d.f = flow_join(e.f, w.back) /\ d.loan = w.env.loan
<1> DEFINE w == while_once(e, a.chk)
           d == Round(e, a.chk)
           f == flow_join(e.f, w.back)
           l == w.env.loan
           c == w.env.crash
<1>1. w.env \in Env /\ w.back \in Flow /\ (e.crash => c)
  BY OnceFacts
<1>2. d = [e EXCEPT !.f = f, !.loan = l, !.crash = c]
  BY DEF Round, Lowered
<1> HIDE DEF w, d
<1>3. e.f \in Flow /\ l \in LoanTable /\ c \in BOOLEAN
  BY <1>1, EnvFacts
<1>4. f \in Flow /\ Trusts(f, e.f) /\ (~e.f.dead => ~f.dead)
  BY <1>1, <1>3, JoinTrusts, JoinLive
<1> HIDE DEF f, l, c
<1>5. /\ d \in Env /\ d.f = f /\ d.loan = l /\ d.crash = c
      /\ d.brk = e.brk /\ d.cont = e.cont /\ d.err = e.err /\ d.seen = e.seen
  BY <1>2, <1>3, <1>4 DEF Env
<1>6. Later(e, d)
  BY <1>1, <1>4, <1>5 DEF Later
<1> QED
  BY <1>5, <1>6 DEF w, d, f, l

LEMMA EntryFacts ==
  ASSUME NEW a, Proper(a), NEW e \in Env
  PROVE  Entry(e, a.chk) \in Env /\ Later(e, Entry(e, a.chk))
<1> DEFINE e1 == Round(e, a.chk)
           e2 == Round(e1, a.chk)
           e3 == Round(e2, a.chk)
<1>1. Later(e, e)
  BY TrustsSelf DEF Later
<1>2. e1 \in Env /\ Later(e, e1)
  BY RoundFacts
<1>3. Entry(e, a.chk) \in {e, e1, e2, e3}
  BY DEF Entry
<1> HIDE DEF e1
<1>4. e2 \in Env /\ Later(e1, e2)
  BY <1>2, RoundFacts
<1> HIDE DEF e2
<1>5. e3 \in Env /\ Later(e2, e3)
  BY <1>4, RoundFacts
<1> HIDE DEF e3
<1>6. Later(e, e2) /\ Later(e, e3)
  BY <1>2, <1>4, <1>5, LaterTrans
<1> QED
  BY <1>1, <1>2, <1>3, <1>4, <1>5, <1>6

\* The loop left: the flow at the exit, whether a fixpoint was found.
Exited(e, f, crash, lost) == [e EXCEPT !.f = f, !.crash = @ \/ crash, !.seen.lost = @ \/ lost]

LEMMA ExitedFacts ==
  ASSUME NEW e \in Env, NEW f \in Flow, NEW crash \in BOOLEAN, NEW lost \in BOOLEAN
  PROVE  LET d == Exited(e, f, crash, lost) IN
         /\ d \in Env /\ d.f = f /\ d.loan = e.loan /\ d.brk = e.brk /\ d.cont = e.cont
         /\ d.seen.raised = e.seen.raised /\ Grown(e, d) /\ (Good(d) => ~crash /\ ~lost)
<1> DEFINE s == [e.seen EXCEPT !.lost = @ \/ lost]
           c == e.crash \/ crash
           d == Exited(e, f, crash, lost)
<1>1. s \in Seen /\ s.cont = e.seen.cont /\ s.brk = e.seen.brk /\ s.raised = e.seen.raised
      /\ s.lost = (e.seen.lost \/ lost) /\ c \in BOOLEAN
  BY EnvFacts DEF Seen
<1>2. d = [e EXCEPT !.f = f, !.crash = c, !.seen = s]
  BY EnvFacts DEF Env, Exited
<1> HIDE DEF s, d, c
<1>3. /\ d \in Env /\ d.f = f /\ d.loan = e.loan /\ d.brk = e.brk
      /\ d.cont = e.cont /\ d.err = e.err /\ d.crash = c /\ d.seen = s
  BY <1>1, <1>2 DEF Env
<1>4. Grown(e, d) /\ (Good(d) => ~crash /\ ~lost)
  BY <1>1, <1>3, TrustsSelf DEF Grown, Good, c
<1> QED
  BY <1>1, <1>3, <1>4 DEF d

LEMMA LoopFacts ==
  ASSUME NEW a, Proper(a), NEW e \in Env
  PROVE  LET y == Entry(e, a.chk)
             x == Round(y, a.chk)
             w == while_once(x, a.chk)
             d == check_while(e, a.chk)
         IN  /\ y \in Env /\ x \in Env /\ w.env \in Env /\ d \in Env
             /\ Later(e, x)
             /\ d.f = w.exit /\ d.loan = w.env.loan /\ d.brk = w.env.brk /\ d.cont = w.env.cont
             /\ d.seen.raised = w.env.seen.raised
             /\ Grown(e, d) /\ Grown(w.env, d)
             /\ Good(d) => x.f = y.f /\ ~LoopLost(e, y, x, w)
<1> DEFINE y == Entry(e, a.chk)
           x == Round(y, a.chk)
           w == while_once(x, a.chk)
           v == w.env
           f == w.exit
           crash == x.f # y.f
           lost == LoopLost(e, y, x, w)
           d == check_while(e, a.chk)
<1>1. y \in Env /\ Later(e, y)
  BY EntryFacts
<1>2. d = Exited(v, f, crash, lost)
  BY DEF check_while, Leave, Exited
<1> HIDE DEF y
<1>3. x \in Env /\ Later(y, x)
  BY <1>1, RoundFacts
<1>4. Later(e, x)
  BY <1>1, <1>3, LaterTrans
<1> HIDE DEF x
<1>5. v \in Env /\ Grown(x, v) /\ f \in Flow
  BY <1>3, OnceFacts
<1>6. lost \in BOOLEAN /\ crash \in BOOLEAN
  BY DEF LoopLost
<1> HIDE DEF w, v, f, crash, lost, d
<1>7. /\ d \in Env /\ d.f = f /\ d.loan = v.loan /\ d.brk = v.brk /\ d.cont = v.cont
      /\ d.seen.raised = v.seen.raised /\ Grown(v, d) /\ (Good(d) => ~crash /\ ~lost)
  BY <1>2, <1>5, <1>6, ExitedFacts
<1>8. Grown(e, x)
  BY <1>4, TrustsSelf DEF Later, Grown
<1>9. Grown(e, d)
  BY <1>5, <1>7, <1>8, GrownTrans
<1> QED
  BY <1>1, <1>3, <1>4, <1>5, <1>7, <1>9 DEF y, x, w, v, f, crash, lost, d

LEMMA OnceSame ==
  ASSUME NEW a, Proper(a), NEW e \in Env, NEW g \in Env, e.f = g.f, e.loan = g.loan
  PROVE  LET w == while_once(e, a.chk)
             v == while_once(g, a.chk)
         IN  w.back = v.back /\ w.exit = v.exit /\ w.env.f = v.env.f /\ w.env.loan = v.env.loan
<1> DEFINE k == Inner(e)
           l == Inner(g)
           b == a.chk[k]
           c == a.chk[l]
           w == while_once(e, a.chk)
           v == while_once(g, a.chk)
<1>1. k \in Env /\ l \in Env /\ Same(k, l)
  BY InnerFacts DEF Same
<1>2. Same(b, c)
  BY <1>1 DEF Proper, Uniform
<1>3. w.env.f = b.f /\ w.env.loan = b.loan
      /\ w.back = flow_join(b.f, b.cont) /\ w.exit = flow_join(e.f, b.brk)
  BY OnceFacts
<1>4. v.env.f = c.f /\ v.env.loan = c.loan
      /\ v.back = flow_join(c.f, c.cont) /\ v.exit = flow_join(g.f, c.brk)
  BY OnceFacts
<1> HIDE DEF k, l, b, c, w, v
<1>5. flow_join(b.f, b.cont) = flow_join(c.f, c.cont) /\ flow_join(e.f, b.brk) = flow_join(g.f, c.brk)
  BY <1>2 DEF Same
<1>6. w.back = v.back /\ w.exit = v.exit /\ w.env.f = v.env.f /\ w.env.loan = v.env.loan
  BY <1>2, <1>3, <1>4, <1>5 DEF Same
<1> QED
  BY <1>6 DEF w, v

LEMMA RoundSame ==
  ASSUME NEW a, Proper(a), NEW e \in Env, NEW g \in Env, Same(e, g)
  PROVE  Same(Round(e, a.chk), Round(g, a.chk))
<1> DEFINE w == while_once(e, a.chk)
           v == while_once(g, a.chk)
           d == Round(e, a.chk)
           h == Round(g, a.chk)
<1>1. w.back = v.back /\ w.env.loan = v.env.loan
  BY OnceSame DEF Same
<1>2. d.f = flow_join(e.f, w.back) /\ d.loan = w.env.loan /\ Later(e, d)
  BY RoundFacts
<1>3. h.f = flow_join(g.f, v.back) /\ h.loan = v.env.loan /\ Later(g, h)
  BY RoundFacts
<1> HIDE DEF w, v, d, h
<1>4. flow_join(e.f, w.back) = flow_join(g.f, v.back)
  BY <1>1 DEF Same
<1>5. Same(d, h)
  BY <1>1, <1>2, <1>3, <1>4 DEF Same, Later
<1> QED
  BY <1>5 DEF d, h

LEMMA EntrySame ==
  ASSUME NEW a, Proper(a), NEW e \in Env, NEW g \in Env, Same(e, g)
  PROVE  Same(Entry(e, a.chk), Entry(g, a.chk))
<1> DEFINE e1 == Round(e, a.chk)
           e2 == Round(e1, a.chk)
           e3 == Round(e2, a.chk)
           g1 == Round(g, a.chk)
           g2 == Round(g1, a.chk)
           g3 == Round(g2, a.chk)
           d  == Entry(e, a.chk)
           h  == Entry(g, a.chk)
<1>1. d = IF e1.f = e.f THEN e ELSE IF e2.f = e1.f THEN e1 ELSE IF e3.f = e2.f THEN e2 ELSE e3
  BY DEF Entry
<1>2. h = IF g1.f = g.f THEN g ELSE IF g2.f = g1.f THEN g1 ELSE IF g3.f = g2.f THEN g2 ELSE g3
  BY DEF Entry
<1>3. e1 \in Env /\ g1 \in Env /\ Same(e1, g1)
  BY RoundFacts, RoundSame
<1> HIDE DEF e1, g1
<1>4. e2 \in Env /\ g2 \in Env /\ Same(e2, g2)
  BY <1>3, RoundFacts, RoundSame
<1> HIDE DEF e2, g2
<1>5. Same(e3, g3)
  BY <1>4, RoundSame
<1> HIDE DEF e3, g3, d, h
<1>6. e.f = g.f /\ e1.f = g1.f /\ e2.f = g2.f /\ e3.f = g3.f
  BY <1>3, <1>4, <1>5 DEF Same
<1>7. Same(d, h)
  BY <1>1, <1>2, <1>3, <1>4, <1>5, <1>6
<1> QED
  BY <1>7 DEF d, h

LEMMA LoopSame ==
  ASSUME NEW a, Proper(a), NEW e \in Env, NEW g \in Env, Same(e, g)
  PROVE  Same(check_while(e, a.chk), check_while(g, a.chk))
<1> DEFINE y == Entry(e, a.chk)
           x == Round(y, a.chk)
           w == while_once(x, a.chk)
           d == check_while(e, a.chk)
           z == Entry(g, a.chk)
           u == Round(z, a.chk)
           v == while_once(u, a.chk)
           h == check_while(g, a.chk)
<1>1. y \in Env /\ x \in Env /\ d.f = w.exit /\ d.loan = w.env.loan /\ d.brk = w.env.brk /\ d.cont = w.env.cont
      /\ Later(e, x)
  BY LoopFacts
<1>2. z \in Env /\ u \in Env /\ h.f = v.exit /\ h.loan = v.env.loan /\ h.brk = v.env.brk /\ h.cont = v.env.cont
      /\ Later(g, u)
  BY LoopFacts
<1>3. Same(y, z)
  BY EntrySame
<1> HIDE DEF y, z
<1>4. Same(x, u)
  BY <1>1, <1>2, <1>3, RoundSame
<1> HIDE DEF x, u
<1>5. w.exit = v.exit /\ w.env.loan = v.env.loan
  BY <1>1, <1>2, <1>4, OnceSame DEF Same
<1>6. w.env.brk = x.brk /\ w.env.cont = x.cont
  BY <1>1, OnceFacts
<1>7. v.env.brk = u.brk /\ v.env.cont = u.cont
  BY <1>2, OnceFacts
<1> HIDE DEF w, v, d, h
<1>8. Same(d, h)
  BY <1>1, <1>2, <1>4, <1>5, <1>6, <1>7 DEF Same
<1> QED
  BY <1>8 DEF d, h

\* The states at the head of a loop are those of every set that has the states
\* before it and that no round leaves.
LEMMA HeadLeast ==
  ASSUME NEW run, NEW S, NEW T \in SUBSET Memory,
         S \subseteq T, run[T].ok \subseteq T, run[T].cont \subseteq T
  PROVE  AtHead(run, S) \subseteq T /\ AtHead(run, S) \in SUBSET Memory
  BY DEF AtHead

LEMMA HeadType == ASSUME NEW run, NEW S PROVE AtHead(run, S) \in SUBSET Memory
  BY DEF AtHead

LEMMA RunLoopFacts ==
  ASSUME NEW a \in Body, NEW H \in SUBSET Memory
  PROVE  LET r == a.run[H]
             q == RunLoop(H, a.run)
         IN  /\ r \in Results /\ q \in Results
             /\ q.ok = H \cup r.brk /\ q.brk = {} /\ q.cont = {} /\ q.exc = r.exc /\ q.bad = r.bad
<1> DEFINE r == a.run[H]
           q == RunLoop(H, a.run)
           ok == H \cup r.brk
<1>1. r \in Results
  BY BodyFacts
<1>2. q = [r EXCEPT !.ok = ok, !.brk = {}, !.cont = {}]
  BY DEF RunLoop
<1> HIDE DEF r, q
<1>3. ok \in SUBSET Memory
  BY <1>1, ResultsFacts
<1> HIDE DEF ok
<1>4. q \in Results /\ q.ok = ok /\ q.brk = {} /\ q.cont = {} /\ q.exc = r.exc /\ q.bad = r.bad
  BY <1>1, <1>2, <1>3 DEF Results
<1> QED
  BY <1>1, <1>4 DEF r, q, ok

\* The flow and the loans in front of the last round hold at the head, however
\* often the loop runs.
LEMMA LoopSafe ==
  ASSUME NEW a, Proper(a), NEW e \in Env, NEW S \in SUBSET Memory,
         ~e.f.dead, Reached(e, S), Good(check_while(e, a.chk))
  PROVE  LET q == RunLoop(AtHead(a.run, S), a.run)
             d == check_while(e, a.chk)
         IN  q.bad = {} /\ Reached(d, q.ok) /\ Ends(d, q)
<1> DEFINE y == Entry(e, a.chk)
           x == Round(y, a.chk)
           w == while_once(x, a.chk)
           d == check_while(e, a.chk)
           k == Inner(x)
           b == a.chk[k]
           T == {m \in Memory : Holds(x.f, x.loan, m)}
           R == a.run[T]
           H == AtHead(a.run, S)
           r == a.run[H]
           q == RunLoop(H, a.run)
<1>1. /\ y \in Env /\ x \in Env /\ w.env \in Env /\ d \in Env
      /\ Later(e, x)
      /\ d.f = w.exit /\ d.loan = w.env.loan /\ d.seen.raised = w.env.seen.raised
      /\ Grown(w.env, d)
      /\ x.f = y.f /\ ~LoopLost(e, y, x, w)
  BY LoopFacts
<1>2. Good(w.env)
  BY <1>1, GrownGood
<1>3. Trusts(x.f, w.back)
  <2>1. CASE x.loan = y.loan
    <3> DEFINE o == while_once(y, a.chk)
    <3>1. x.f = flow_join(y.f, o.back)
      BY <1>1, RoundFacts
    <3>2. o.back \in Flow /\ y.f \in Flow
      BY <1>1, OnceFacts, EnvFacts
    <3> HIDE DEF y
    <3>3. o.back = w.back
      <4> HIDE DEF x
      <4> QED
        BY <1>1, <2>1, OnceSame
    <3> HIDE DEF x, w, o
    <3> QED
      BY <3>1, <3>2, <3>3, JoinTrusts
  <2>2. CASE x.loan # y.loan
    <3> HIDE DEF x, y, w, d
    <3> QED
      BY <1>1, <2>2 DEF LoopLost
  <2> QED
    BY <2>1, <2>2
<1>4. /\ Keeps(x.f, x.loan, e.loan) /\ \A l \in w.again : Keeps(x.f, x.loan, l)
      /\ \A l \in w.left : Keeps(w.exit, w.env.loan, l)
  <2> HIDE DEF x, y, w, d
  <2> QED
    BY <1>1 DEF LoopLost
<1>5. ~x.f.dead /\ Trusts(x.f, e.f)
  <2> HIDE DEF x, y, w, d
  <2> QED
    BY <1>1 DEF Later
<1> HIDE DEF y, x
<1>6. /\ k \in Env /\ k.f = x.f /\ k.loan = x.loan
      /\ b \in Env /\ b.f \in Flow /\ b.brk \in Flow /\ b.cont \in Flow
      /\ w.env.f = b.f /\ w.env.loan = b.loan /\ w.env.seen.raised = b.seen.raised
      /\ w.back = flow_join(b.f, b.cont) /\ w.exit = flow_join(x.f, b.brk)
      /\ w.again = Loans(b) \cup b.seen.cont /\ w.left = {x.loan} \cup b.seen.brk
      /\ Good(b)
  <2>1. /\ k \in Env /\ k.f = x.f /\ k.loan = x.loan
        /\ b \in Env /\ b.f \in Flow /\ b.brk \in Flow /\ b.cont \in Flow
        /\ w.env.f = b.f /\ w.env.loan = b.loan /\ w.env.seen.raised = b.seen.raised
        /\ w.back = flow_join(b.f, b.cont) /\ w.exit = flow_join(x.f, b.brk)
        /\ w.again = Loans(b) \cup b.seen.cont /\ w.left = {x.loan} \cup b.seen.brk
        /\ Good(w.env) => Good(b)
    BY <1>1, OnceFacts
  <2> HIDE DEF k, b, w
  <2> QED
    BY <1>2, <2>1
<1>7. x.f \in Flow
  BY <1>1, EnvFacts
<1>8. ASSUME NEW M \in SUBSET Memory, \A m \in M : Holds(x.f, x.loan, m)
      PROVE  a.run[M].bad = {} /\ Reached(b, a.run[M].ok) /\ Ends(b, a.run[M])
  <2> HIDE DEF k
  <2>1. Reached(k, M) /\ ~k.f.dead
    BY <1>5, <1>6, <1>8 DEF Reached
  <2> QED
    BY <1>6, <2>1 DEF Proper, Sound
<1> HIDE DEF k, b, w
<1>9. T \in SUBSET Memory /\ \A m \in T : Holds(x.f, x.loan, m)
  OBVIOUS
<1>10. S \subseteq T
  <2>1. ASSUME NEW n \in S PROVE Holds(x.f, x.loan, n)
    BY <1>4, <1>5, HoldsMeet DEF Reached
  <2> QED
    BY <2>1
<1>11. R \in Results /\ R.ok \in SUBSET Memory /\ R.cont \in SUBSET Memory
  <2> HIDE DEF T
  <2> QED
    BY <1>9, BodyFacts, ResultsFacts DEF Proper
<1>12. Reached(b, R.ok) /\ Ends(b, R)
  <2> HIDE DEF T
  <2> QED
    BY <1>8, <1>9
<1>13. Trusts(w.back, b.f) /\ Trusts(w.back, b.cont) /\ Trusts(w.exit, x.f) /\ Trusts(w.exit, b.brk)
  BY <1>6, <1>7, JoinTrusts
<1>14. Trusts(x.f, b.f) /\ Trusts(x.f, b.cont)
  BY <1>3, <1>13, TrustsTrans
<1> HIDE DEF R
<1>15. R.ok \subseteq T
  <2>1. ASSUME NEW n \in R.ok PROVE Holds(x.f, x.loan, n)
    <3>1. ~b.f.dead /\ Holds(b.f, b.loan, n)
      BY <1>12 DEF Reached
    <3>2. Keeps(x.f, x.loan, b.loan)
      BY <1>4, <1>6, <3>1 DEF Loans
    <3> QED
      BY <1>14, <3>1, <3>2, HoldsMeet
  <2> QED
    BY <1>11, <2>1
<1>16. R.cont \subseteq T
  <2>1. ASSUME NEW n \in R.cont PROVE Holds(x.f, x.loan, n)
    <3>1. PICK l \in b.seen.cont : ~b.cont.dead /\ Holds(b.cont, l, n)
      BY <1>12 DEF Ends
    <3>2. Keeps(x.f, x.loan, l)
      BY <1>4, <1>6, <3>1
    <3> QED
      BY <1>14, <3>1, <3>2, HoldsMeet
  <2> QED
    BY <1>11, <2>1
<1>17. H \subseteq T /\ H \in SUBSET Memory
  <2> HIDE DEF T
  <2> QED
    BY <1>9, <1>10, <1>15, <1>16, HeadLeast DEF R
<1>18. \A m \in H : Holds(x.f, x.loan, m)
  BY <1>9, <1>17
<1> HIDE DEF T, H
<1>19. r.bad = {} /\ Ends(b, r)
  BY <1>8, <1>17, <1>18
<1>20. q.ok = H \cup r.brk /\ q.brk = {} /\ q.cont = {} /\ q.exc = r.exc /\ q.bad = r.bad
  BY <1>17, RunLoopFacts DEF Proper
<1> HIDE DEF r, q, d
<1>21. ASSUME NEW n \in H PROVE ~d.f.dead /\ Holds(d.f, d.loan, n)
  <2>1. Keeps(w.exit, w.env.loan, x.loan)
    BY <1>4, <1>6
  <2>2. Holds(x.f, x.loan, n)
    BY <1>18
  <2>3. ~w.exit.dead /\ Holds(w.exit, w.env.loan, n)
    BY <1>5, <1>13, <2>1, <2>2, HoldsMeet
  <2> QED
    BY <1>1, <2>3
<1>22. ASSUME NEW n \in r.brk PROVE ~d.f.dead /\ Holds(d.f, d.loan, n)
  <2>1. PICK l \in b.seen.brk : ~b.brk.dead /\ Holds(b.brk, l, n)
    BY <1>19 DEF Ends
  <2>2. Keeps(w.exit, w.env.loan, l)
    BY <1>4, <1>6, <2>1
  <2>3. ~w.exit.dead /\ Holds(w.exit, w.env.loan, n)
    BY <1>13, <2>1, <2>2, HoldsMeet
  <2> QED
    BY <1>1, <2>3
<1>23. Reached(d, q.ok)
  BY <1>20, <1>21, <1>22 DEF Reached
<1>24. Ends(d, q)
  <2>1. d.seen.raised = b.seen.raised
    BY <1>1, <1>6
  <2> QED
    BY <1>19, <1>20, <2>1 DEF Ends
<1> QED
  BY <1>19, <1>20, <1>23, <1>24 DEF H, q, d

LEMMA LoopProper ==
  ASSUME NEW a, Proper(a)
  PROVE  Proper(Loop(a))
<1> DEFINE c == Loop(a)
<1>1. \A e \in Env : c.chk[e] = check_while(e, a.chk)
  BY DEF Loop
<1>2. \A S \in SUBSET Memory : c.run[S] = RunLoop(AtHead(a.run, S), a.run)
  BY DEF Loop
<1>3. a \in Body
  BY DEF Proper
<1>4. c \in Body
  <2>1. \A e \in Env : check_while(e, a.chk) \in Env
    BY LoopFacts
  <2>2. \A S \in SUBSET Memory : RunLoop(AtHead(a.run, S), a.run) \in Results
    BY <1>3, HeadType, RunLoopFacts
  <2> QED
    BY <2>1, <2>2 DEF Loop, Body
<1>5. Grows(c)
  BY <1>1, LoopFacts DEF Grows
<1>6. Uniform(c)
  BY <1>1, LoopSame DEF Uniform
<1>7. Strict(c)
  <2>1. a.run[{}] = NoStates /\ {} \in SUBSET Memory
    BY DEF Proper, Strict
  <2>2. AtHead(a.run, {}) = {}
    <3>1. a.run[{}].ok \subseteq {} /\ a.run[{}].cont \subseteq {}
      BY <2>1 DEF NoStates
    <3> QED
      BY <2>1, <3>1, HeadLeast
  <2> DEFINE q == RunLoop({}, a.run)
  <2>3. q \in Results /\ q.ok = {} \cup a.run[{}].brk /\ q.brk = {} /\ q.cont = {}
        /\ q.exc = a.run[{}].exc /\ q.bad = a.run[{}].bad
    BY <1>3, <2>1, RunLoopFacts
  <2> HIDE DEF q
  <2>4. q = NoStates
    <3>1. NoStates.brk = {} /\ NoStates.exc = {} /\ NoStates.bad = {}
      BY DEF NoStates
    <3> QED
      BY <2>1, <2>3, <3>1, NothingFacts
  <2> QED
    BY <1>2, <2>1, <2>2, <2>4 DEF Strict, q
<1> HIDE DEF c
<1>8. Sound(c)
  <2>1. ASSUME NEW e \in Env, NEW S \in SUBSET Memory, ~e.f.dead, Reached(e, S), Good(c.chk[e])
        PROVE  /\ c.run[S].bad = {} /\ Reached(c.chk[e], c.run[S].ok) /\ Ends(c.chk[e], c.run[S])
    <3>1. c.chk[e] = check_while(e, a.chk) /\ c.run[S] = RunLoop(AtHead(a.run, S), a.run)
      BY <1>1, <1>2
    <3>2. Good(check_while(e, a.chk))
      BY <2>1, <3>1
    <3> QED
      BY <2>1, <3>1, <3>2, LoopSafe
  <2> QED
    BY <2>1 DEF Sound
<1>9. Proper(c)
  BY <1>4, <1>5, <1>6, <1>7, <1>8 DEF Proper
<1> QED
  BY <1>9 DEF c

\* Every body that can be written is Proper.
AllProper == \A b \in bodies : Proper(b)

LEMMA BodyInitProper == BodyInit => AllProper
  BY PassProper, BreaksProper, ContinuesProper, ReturnsProper, CallsProper, SimpleProper
     DEF BodyInit, AllProper

LEMMA BodyNextProper == AllProper /\ [BodyNext]_bodies => AllProper'
<1> SUFFICES ASSUME AllProper, [BodyNext]_bodies PROVE AllProper'
  OBVIOUS
<1>1. ASSUME NEW a \in bodies, NEW b \in bodies, Write(a, b) PROVE AllProper'
  BY <1>1, SequenceProper DEF Write, AllProper
<1>2. ASSUME NEW a \in bodies, NEW b \in bodies, Fork(a, b) PROVE AllProper'
  BY <1>2, BranchProper DEF Fork, AllProper
<1>3. ASSUME NEW a \in bodies, Wrap(a) PROVE AllProper'
  BY <1>3, LoopProper DEF Wrap, AllProper
<1>4. ASSUME NEW a \in bodies, NEW b \in bodies, Catch(a, b) PROVE AllProper'
  BY <1>4, GuardProper DEF Catch, AllProper
<1>5. CASE UNCHANGED bodies
  BY <1>5 DEF AllProper
<1> QED
  BY <1>1, <1>2, <1>3, <1>4, <1>5 DEF BodyNext

LEMMA ProperSafe == AllProper => BodySafe
<1> SUFFICES ASSUME AllProper, NEW b \in bodies, NEW loan \in LoanTable,
                    Good(b.chk[Start(loan)])
             PROVE  b.run[{Arguments(loan)}].bad = {}
  BY DEF BodySafe, Good
<1> DEFINE e == Start(loan)
           m == Arguments(loan)
<1>1. e \in Env /\ ~e.f.dead /\ Right(e, m)
  BY StartRight
<1>2. m \in Memory /\ ~e.err
  BY <1>1 DEF Right
<1>3. Holds(e.f, e.loan, m)
  BY <1>1, <1>2, HoldsRight
<1>4. {m} \in SUBSET Memory /\ Reached(e, {m})
  BY <1>1, <1>2, <1>3 DEF Reached
<1> HIDE DEF e, m
<1>5. Proper(b) /\ Good(b.chk[e])
  BY DEF AllProper, e
<1>6. b.run[{m}].bad = {}
  BY <1>1, <1>4, <1>5 DEF Proper, Sound
<1> QED
  BY <1>6 DEF m

\* S1 to S3 for every body that can be written, however long and deep and over
\* any number of locals: if the checker accepts it, finds a fixpoint for every
\* loop and loses nothing where paths meet, no execution of it uses a value that
\* was moved or freed or gives one away twice (check_func).
THEOREM BodiesSafe == BodySpec => []BodySafe
  BY BodyInitProper, BodyNextProper, ProperSafe, PTL DEF BodySpec

-----------------------------------------------------------------------------
(***************************************************************************)
(* Straight code. What the checker does not take for valid is gone, as     *)
(* long as no other path has met this one.                                 *)
(***************************************************************************)
\* On a single path, what the checker does not take for valid is gone.
Gone(e, m) == \A v \in Local : e.f.st[v] # "valid" => m[v] \in {"moved", "freed"}

LEMMA GoneDangle ==
  ASSUME NEW e, NEW m, Right(e, m), Gone(e, m), NEW w \in Local, NEW x \in Local,
         (w \in Slot /\ e.loan[w] = x) \/ e.f.st[w] # "valid"
  PROVE  Dangle(m, x)[w] \in {"moved", "freed"}
<1>1. Dangle(m, x)[w] = IF m[w] = x THEN "freed" ELSE m[w]
  BY DangleFacts DEF Right
<1>2. CASE e.f.st[w] # "valid"
  BY <1>1, <1>2 DEF Gone
<1>3. CASE e.f.st[w] = "valid"
  <2>1. m[w] = Value(e, w) /\ w \in Slot /\ e.loan[w] = x /\ x # None
    BY <1>3, LocalsAssumption DEF Right
  <2> QED
    BY <1>1, <2>1 DEF Value
<1> QED
  BY <1>2, <1>3

LEMMA GoneEat ==
  ASSUME NEW e, NEW m, Right(e, m), Gone(e, m), NEW v \in Local, ~Eat(e, v).err
  PROVE  Gone(Eat(e, v), [Dangle(m, v) EXCEPT ![v] = "moved"])
<1> DEFINE n == [Dangle(m, v) EXCEPT ![v] = "moved"]
           d == Eat(e, v)
<1>a. e \in Env /\ m \in Memory
  BY DEF Right
<1>b. Dangle(m, v) \in Memory
  BY <1>a, DangleFacts
<1>c. e.f.st[v] = "valid" /\ Owned(e, v) /\ Eat(e, v) = Move(e, v)
  BY EatStep
<1>1. Dangle(m, v) \in Memory /\ e \in Env /\ d = Move(e, v)
  BY <1>a, <1>b, <1>c
<1>2. \A w \in Local : d.f.st[w] =
        IF w = v \/ (w \in Slot /\ e.loan[w] = v) THEN "moved" ELSE e.f.st[w]
  BY <1>1, MoveFacts
<1>3. \A w \in Local : n[w] = IF w = v THEN "moved" ELSE Dangle(m, v)[w]
  BY <1>1 DEF Memory
<1> HIDE DEF n, d
<1>4. ASSUME NEW w \in Local, d.f.st[w] # "valid" PROVE n[w] \in {"moved", "freed"}
  <2>1. CASE w = v
    BY <1>3, <2>1
  <2>2. CASE w # v
    <3>1. Dangle(m, v)[w] \in {"moved", "freed"}
      BY <1>2, <1>4, <2>2, GoneDangle
    <3> QED
      BY <1>3, <2>2, <3>1
  <2> QED
    BY <2>1, <2>2
<1> QED
  BY <1>4 DEF Gone, n, d

\* A slot is bound again, whatever it holds then.
LEMMA GoneBind ==
  ASSUME NEW e \in Env, NEW m \in Memory, Gone(e, m), NEW v \in Slot,
         NEW x \in Owner \cup {None}, NEW k
  PROVE  Gone(Bind(e, v, x), [m EXCEPT ![v] = k])
<1>0. v \in Local
  BY DEF Local
<1>1. /\ Bind(e, v, x) \in Env /\ Bind(e, v, x).err = e.err
      /\ Bind(e, v, x).loan = [e.loan EXCEPT ![v] = x]
      /\ \A w \in Local : Bind(e, v, x).f.st[w] = IF w = v THEN "valid" ELSE e.f.st[w]
  BY BindFacts
<1>2. \A w \in Local : w # v => [m EXCEPT ![v] = k][w] = m[w]
  BY DEF Memory
<1> QED
  BY <1>1, <1>2 DEF Gone

\* The aliases of x go stale, and x is valid.
LEMMA GoneClear ==
  ASSUME NEW e, NEW m, Right(e, m), Gone(e, m), NEW x \in Local, NEW d, NEW n,
         d.f = flow_clear(invalidate_loans(e.f, e.loan, x), x),
         \A w \in Local : w # x => n[w] = Dangle(m, x)[w]
  PROVE  Gone(d, n)
<1> DEFINE g == invalidate_loans(e.f, e.loan, x)
           f == flow_clear(g, x)
<1>1. e \in Env
  BY DEF Right
<1>2. e.f \in Flow /\ e.loan \in LoanTable
  BY <1>1, EnvFacts
<1>3. g \in Flow /\ \A w \in Local : g.st[w] = IF w \in Slot /\ e.loan[w] = x THEN "moved" ELSE e.f.st[w]
  BY <1>2, StaleFacts
<1> HIDE DEF g
<1>4. \A w \in Local : f.st[w] = IF w = x THEN "valid" ELSE g.st[w]
  BY <1>3, SetFacts
<1>5. d.f = f
  BY DEF g
<1> HIDE DEF f
<1>6. ASSUME NEW w \in Local, d.f.st[w] # "valid" PROVE n[w] \in {"moved", "freed"}
  <2>1. w # x /\ ((w \in Slot /\ e.loan[w] = x) \/ e.f.st[w] # "valid")
    BY <1>3, <1>4, <1>5, <1>6
  <2> QED
    BY <2>1, GoneDangle
<1> QED
  BY <1>6 DEF Gone

LEMMA GoneRenew ==
  ASSUME NEW e, NEW m, Right(e, m), Gone(e, m), NEW v \in Local
  PROVE  Gone(Renew(e, v), [Dangle(m, v) EXCEPT ![v] = "own"])
<1>1. e \in Env /\ m \in Memory /\ Dangle(m, v) \in Memory
  BY DangleFacts DEF Right
<1>2. CASE v \in Owner
  <2>1. Renew(e, v) = [e EXCEPT !.f = flow_clear(invalidate_loans(e.f, e.loan, v), v)]
    BY <1>2 DEF Renew
  <2>2. Renew(e, v).f = flow_clear(invalidate_loans(e.f, e.loan, v), v)
    BY <1>1, <2>1, ClearForm
  <2>3. \A w \in Local : w # v => [Dangle(m, v) EXCEPT ![v] = "own"][w] = Dangle(m, v)[w]
    BY <1>1 DEF Memory
  <2> DEFINE d == Renew(e, v)
             n == [Dangle(m, v) EXCEPT ![v] = "own"]
  <2> HIDE DEF d, n
  <2>4. /\ d.f = flow_clear(invalidate_loans(e.f, e.loan, v), v)
        /\ \A w \in Local : w # v => n[w] = Dangle(m, v)[w]
    BY <2>2, <2>3 DEF d, n
  <2>5. Gone(d, n)
    BY <2>4, GoneClear
  <2> QED
    BY <2>5 DEF d, n
<1>3. CASE v \notin Owner
  <2>1. v \in Slot /\ Renew(e, v) = Bind(e, v, None) /\ Dangle(m, v) = m
    BY <1>1, <1>3, SlotFacts DEF Local, Renew
  <2>2. None \in Owner \cup {None}
    OBVIOUS
  <2> QED
    BY <1>1, <2>1, <2>2, GoneBind
<1> QED
  BY <1>2, <1>3

LEMMA GoneSet ==
  ASSUME NEW e, NEW m, Right(e, m), Gone(e, m), NEW x \in Owner
  PROVE  Gone(SetField(e, x), Dangle(m, x))
<1>1. e \in Env /\ x \in Local
  BY DEF Right, Local
<1>2. SetField(e, x).f = flow_clear(invalidate_loans(e.f, e.loan, x), x)
  BY <1>1, SetForm
<1> QED
  BY <1>1, <1>2, GoneClear

LEMMA GoneStep ==
  ASSUME NEW e, NEW m, Right(e, m), Gone(e, m), NEW s \in Statement, ~Checked(e, s).err
  PROVE  Gone(Checked(e, s), After(s, m))
<1>1. e \in Env /\ m \in Memory
  BY DEF Right
<1>2. CASE s.op = "use"
  <2>1. s.x \in Local /\ Checked(e, s) = Use(e, s.x) /\ After(s, m) = m
    BY <1>2, TypedFacts DEF Checked, After
  <2>2. Checked(e, s).f = e.f
    BY <1>1, <2>1, UseFacts
  <2> QED
    BY <2>1, <2>2 DEF Gone
<1>3. CASE s.op = "eat"
  <2>1. s.x \in Local /\ Checked(e, s) = Eat(e, s.x)
        /\ After(s, m) = [Dangle(m, s.x) EXCEPT ![s.x] = "moved"]
    BY <1>3, TypedFacts DEF Checked, After
  <2> QED
    BY <2>1, GoneEat
<1>4. CASE s.op = "renew"
  <2>1. s.x \in Local /\ Checked(e, s) = Renew(e, s.x)
        /\ After(s, m) = [Dangle(m, s.x) EXCEPT ![s.x] = "own"]
    BY <1>4, TypedFacts DEF Checked, After
  <2> QED
    BY <2>1, GoneRenew
<1>5. CASE s.op = "borrow"
  <2> DEFINE u == Use(e, s.y)
  <2>1. s.x \in Slot /\ s.y \in Owner \cup {None} /\ s.y \in Local
    BY <1>5 DEF Statement, Typed, Local
  <2>2. Checked(e, s) = Bind(u, s.x, s.y) /\ After(s, m) = [m EXCEPT ![s.x] = s.y]
    BY <1>5 DEF Checked, Borrow, After
  <2>3. u \in Env /\ u.f = e.f
    BY <1>1, <2>1, UseFacts
  <2> HIDE DEF u
  <2>4. Gone(u, m)
    BY <2>3 DEF Gone
  <2>5. Gone(Bind(u, s.x, s.y), [m EXCEPT ![s.x] = s.y])
    BY <1>1, <2>1, <2>3, <2>4, GoneBind
  <2> QED
    BY <2>2, <2>5
<1>6. CASE s.op = "assign"
  <2>1. s.x \in Slot /\ s.y \in Slot /\ s.y \in Local
    BY <1>6, TypedFacts DEF Local
  <2>2. Checked(e, s) = Assign(e, s.x, s.y)
        /\ After(s, m) = [m EXCEPT ![s.y] = IF @ = "own" THEN "moved" ELSE @, ![s.x] = m[s.y]]
    BY <1>6 DEF Checked, After
  <2>3. e.f.st[s.y] = "valid"
    BY <2>1, <2>2, AssignStep
  <2>4. m[s.y] = Value(e, s.y) /\ (Owned(e, s.y) <=> m[s.y] = "own")
    BY <1>1, <2>1, <2>3, RightFacts, ValueFacts
  <2>5. CASE Owned(e, s.y)
    <3> DEFINE u == Move(e, s.y)
               n == [m EXCEPT ![s.y] = "moved"]
    <3>1. Checked(e, s) = Bind(u, s.x, None) /\ After(s, m) = [n EXCEPT ![s.x] = "own"]
      BY <2>2, <2>4, <2>5 DEF Assign
    <3>2. Eat(e, s.y) = u /\ Dangle(m, s.y) = m
      BY <1>1, <2>1, <2>5, SlotFacts DEF Eat
    <3>3. u \in Env /\ ~u.err
      BY <1>1, <2>1, <2>3, MoveFacts DEF Right
    <3>4. Gone(u, n)
      BY <2>1, <3>2, <3>3, GoneEat
    <3>5. n \in Memory /\ None \in Owner \cup {None}
      BY <1>1, <2>1 DEF Memory
    <3> HIDE DEF u, n
    <3>6. Gone(Bind(u, s.x, None), [n EXCEPT ![s.x] = "own"])
      BY <2>1, <3>3, <3>4, <3>5, GoneBind
    <3> QED
      BY <3>1, <3>6
  <2>6. CASE ~Owned(e, s.y)
    <3> DEFINE u == Use(e, s.y)
               l == e.loan[s.y]
    <3>1. Checked(e, s) = Bind(u, s.x, l)
      BY <2>2, <2>6 DEF Assign
    <3>2. After(s, m) = [m EXCEPT ![s.x] = m[s.y]]
      <4>1. [m EXCEPT ![s.y] = m[s.y]] = m
        BY <1>1, <2>1 DEF Memory
      <4>2. (IF m[s.y] = "own" THEN "moved" ELSE m[s.y]) = m[s.y]
        BY <2>4, <2>6
      <4> QED
        BY <2>2, <4>1, <4>2
    <3>3. u \in Env /\ u.f = e.f
      BY <1>1, <2>1, UseFacts
    <3>4. l \in Owner \cup {None}
      BY <1>1, <2>1, EnvFacts DEF LoanTable
    <3> DEFINE k == m[s.y]
    <3> HIDE DEF u, l, k
    <3>5. Gone(u, m)
      BY <3>3 DEF Gone
    <3>6. Gone(Bind(u, s.x, l), [m EXCEPT ![s.x] = k])
      BY <1>1, <2>1, <3>3, <3>4, <3>5, GoneBind
    <3> QED
      BY <3>1, <3>2, <3>6 DEF k
  <2> QED
    BY <2>5, <2>6
<1>7. CASE s.op = "set"
  <2>1. s.x \in Owner /\ Checked(e, s) = SetField(e, s.x) /\ After(s, m) = Dangle(m, s.x)
    BY <1>7 DEF Statement, Typed, Checked, After
  <2> QED
    BY <2>1, GoneSet
<1>8. CASE s.op = "store"
  <2> DEFINE d == Eat(e, s.y)
             n == [m EXCEPT ![s.y] = "moved"]
  <2>1. s.x \in Owner /\ s.y \in Slot /\ s.y \in Local /\ s.x \in Local /\ s.x # "moved"
    BY <1>8, ValuesAssumption DEF Statement, Typed, Local
  <2>2. Checked(e, s) = SetField(d, s.x) /\ After(s, m) = [Dangle(m, s.x) EXCEPT ![s.y] = "moved"]
    BY <1>8 DEF Checked, Store, After
  <2>3. d \in Env
    BY <1>1, <2>1, EatForm DEF Plain
  <2>4. n \in Memory
    BY <1>1, <2>1 DEF Memory
  <2>5. ~d.err
    <3> HIDE DEF d, n
    <3> QED
      BY <2>1, <2>2, <2>3, <2>4, SetStep
  <2>6. Dangle(m, s.y) = m
    BY <1>1, <2>1, SlotFacts
  <2>7. Right(d, n) /\ Gone(d, n)
    BY <2>1, <2>5, <2>6, EatStep, GoneEat
  <2>8. Dangle(n, s.x) = [Dangle(m, s.x) EXCEPT ![s.y] = "moved"]
    BY <1>1, <2>1 DEF Dangle, Memory
  <2> HIDE DEF d, n
  <2>9. Gone(SetField(d, s.x), Dangle(n, s.x))
    BY <2>1, <2>7, GoneSet
  <2> QED
    BY <2>2, <2>8, <2>9
<1>9. s.op \in {"use", "eat", "renew", "set", "borrow", "assign", "store"}
  BY DEF Statement
<1> QED
  BY <1>2, <1>3, <1>4, <1>5, <1>6, <1>7, <1>8, <1>9

\* What is reported of x.p = v and of take(v) is the state of the local, or that it
\* is an alias.
LEMMA SetReports ==
  ASSUME NEW e \in Env, NEW x \in Owner, SetField(e, x).err
  PROVE  e.err \/ e.f.st[x] # "valid"
<1> DEFINE g == invalidate_loans(e.f, e.loan, x)
           i == [e EXCEPT !.f = g]
           u == Use(i, x)
           f == flow_clear(u.f, x)
           d == [u EXCEPT !.f = f]
<1>1. e.f \in Flow /\ e.loan \in LoanTable /\ x \in Local /\ x \notin Slot
  BY EnvFacts, LocalsAssumption DEF Local
<1>2. g \in Flow /\ g.st[x] = e.f.st[x]
  BY <1>1, StaleFacts
<1> HIDE DEF g
<1>3. i \in Env /\ i.f = g /\ i.err = e.err
  BY <1>2 DEF Env
<1> HIDE DEF i
<1>4. ~u.err <=> ~i.err /\ i.f.st[x] = "valid"
  BY <1>1, <1>3, UseFacts
<1>5. u \in Env
  BY <1>1, <1>3, UseFacts
<1> HIDE DEF u, f
<1>6. d.err = u.err
  BY <1>5 DEF Env
<1>7. SetField(e, x).err = u.err
  BY <1>6 DEF SetField, d, f, u, i, g
<1>8. u.err
  BY <1>7
<1> QED
  BY <1>2, <1>3, <1>4, <1>8

LEMMA EatReports ==
  ASSUME NEW e, NEW m, Right(e, m), Gone(e, m), NEW v \in Local, Eat(e, v).err
  PROVE  m[v] \in {"moved", "freed"} \/ m[v] \in Owner
<1>1. e \in Env /\ ~e.err
  BY DEF Right
<1>2. CASE e.f.st[v] # "valid"
  BY <1>2 DEF Gone
<1>3. CASE e.f.st[v] = "valid"
  <2>1. ~Owned(e, v)
    BY <1>1, <1>3, MoveFacts DEF Eat
  <2>2. m[v] = Value(e, v) /\ m[v] \in Owner
    BY <1>1, <1>3, <2>1, RightFacts, ValueFacts
  <2> QED
    BY <2>2
<1> QED
  BY <1>2, <1>3

\* A simple statement the checker reports goes wrong.
LEMMA ReportFault ==
  ASSUME NEW e, NEW m, Right(e, m), Gone(e, m), NEW s \in Statement, Checked(e, s).err
  PROVE  Fault(s, m) # {}
<1>1. e \in Env /\ ~e.err /\ m \in Memory
  BY DEF Right
<1>2. CASE s.op = "use"
  <2>1. s.x \in Local /\ Checked(e, s) = Use(e, s.x)
    BY <1>2, TypedFacts DEF Checked
  <2>2. e.f.st[s.x] # "valid"
    BY <1>1, <2>1, UseFacts
  <2>3. m[s.x] \in {"moved", "freed"}
    BY <2>1, <2>2 DEF Gone
  <2> QED
    BY <1>2, <2>3 DEF Fault
<1>3. CASE s.op = "eat"
  <2>1. s.x \in Local /\ Checked(e, s) = Eat(e, s.x)
    BY <1>3, TypedFacts DEF Checked
  <2>2. m[s.x] \in {"moved", "freed"} \/ m[s.x] \in Owner
    BY <2>1, EatReports
  <2> QED
    BY <1>3, <2>2 DEF Fault
<1>4. CASE s.op = "renew"
  <2>1. s.x \in Local /\ Checked(e, s) = Renew(e, s.x)
    BY <1>4, TypedFacts DEF Checked
  <2>2. Renew(e, s.x).err = e.err
    <3>1. CASE s.x \in Owner
      BY <1>1, <3>1, EnvFacts DEF Renew, Env
    <3>2. CASE s.x \notin Owner
      <4>1. s.x \in Slot /\ None \in Owner \cup {None} /\ Renew(e, s.x) = Bind(e, s.x, None)
        BY <2>1, <3>2 DEF Local, Renew
      <4> QED
        BY <1>1, <4>1, BindErr
    <3> QED
      BY <3>1, <3>2
  <2> QED
    BY <1>1, <2>1, <2>2
<1>5. CASE s.op = "borrow"
  <2> DEFINE u == Use(e, s.y)
  <2>1. s.x \in Slot /\ s.y \in Owner \cup {None} /\ s.y \in Local
    BY <1>5 DEF Statement, Typed, Local
  <2>2. Checked(e, s) = Bind(u, s.x, s.y)
    BY <1>5 DEF Checked, Borrow
  <2>3. u \in Env /\ (~u.err <=> ~e.err /\ e.f.st[s.y] = "valid")
    BY <1>1, <2>1, UseFacts
  <2> HIDE DEF u
  <2>4. Bind(u, s.x, s.y).err = u.err
    BY <2>1, <2>3, BindErr
  <2>5. m[s.y] \in {"moved", "freed"}
    BY <1>1, <2>1, <2>2, <2>3, <2>4 DEF Gone
  <2> QED
    BY <1>5, <2>5 DEF Fault
<1>6. CASE s.op = "assign"
  <2>1. s.x \in Slot /\ s.y \in Slot /\ s.y \in Local
    BY <1>6, TypedFacts DEF Local
  <2>2. Checked(e, s) = Assign(e, s.x, s.y)
    BY <1>6 DEF Checked
  <2>3. e.f.st[s.y] # "valid"
    <3>1. CASE Owned(e, s.y)
      <4> DEFINE u == Move(e, s.y)
      <4>1. Checked(e, s) = Bind(u, s.x, None) /\ None \in Owner \cup {None}
        BY <2>2, <3>1 DEF Assign
      <4>2. u \in Env /\ (~u.err <=> ~e.err /\ e.f.st[s.y] = "valid")
        BY <1>1, <2>1, MoveFacts
      <4> HIDE DEF u
      <4> QED
        BY <1>1, <2>1, <4>1, <4>2, BindErr
    <3>2. CASE ~Owned(e, s.y)
      <4> DEFINE u == Use(e, s.y)
                 l == e.loan[s.y]
      <4>1. Checked(e, s) = Bind(u, s.x, l)
        BY <2>2, <3>2 DEF Assign
      <4>2. l \in Owner \cup {None}
        BY <1>1, <2>1, EnvFacts DEF LoanTable
      <4>3. u \in Env /\ (~u.err <=> ~e.err /\ e.f.st[s.y] = "valid")
        BY <1>1, <2>1, UseFacts
      <4> HIDE DEF u, l
      <4> QED
        BY <1>1, <2>1, <4>1, <4>2, <4>3, BindErr
    <3> QED
      BY <3>1, <3>2
  <2>4. m[s.y] \in {"moved", "freed"}
    BY <2>1, <2>3 DEF Gone
  <2> QED
    BY <1>6, <2>4 DEF Fault
<1>7. CASE s.op = "set"
  <2>1. s.x \in Owner /\ s.x \in Local /\ Checked(e, s) = SetField(e, s.x)
    BY <1>7 DEF Statement, Typed, Checked, Local
  <2>2. e.f.st[s.x] # "valid"
    BY <1>1, <2>1, SetReports
  <2>3. m[s.x] \in {"moved", "freed"}
    BY <2>1, <2>2 DEF Gone
  <2> QED
    BY <1>7, <2>3 DEF Fault
<1>8. CASE s.op = "store"
  <2> DEFINE d == Eat(e, s.y)
  <2>1. s.x \in Owner /\ s.y \in Slot /\ s.y \in Local /\ s.x \in Local /\ s.x \notin Slot
    BY <1>8, LocalsAssumption DEF Statement, Typed, Local
  <2>2. Checked(e, s) = SetField(d, s.x)
    BY <1>8 DEF Checked, Store
  <2>3. d \in Env
    BY <1>1, <2>1, EatForm DEF Plain
  <2>4. CASE d.err
    <3>1. m[s.y] \in {"moved", "freed"} \/ m[s.y] \in Owner
      BY <2>1, <2>4, EatReports
    <3> QED
      BY <1>8, <3>1 DEF Fault
  <2>5. CASE ~d.err
    <3>1. d.f.st[s.x] # "valid"
      <4> HIDE DEF d
      <4> QED
        BY <2>1, <2>2, <2>3, <2>5, SetReports
    <3>2. Eat(e, s.y) = Move(e, s.y)
      <4> DEFINE v == s.y
      <4>1. v \in Local /\ ~Eat(e, v).err
        BY <2>1, <2>5
      <4> HIDE DEF v, d
      <4>2. e.f.st[v] = "valid" /\ Owned(e, v) /\ Eat(e, v) = Move(e, v)
        BY <4>1, EatStep
      <4> QED
        BY <4>2 DEF v
    <3>3. d.f.st[s.x] = e.f.st[s.x]
      BY <1>1, <2>1, <3>2, MoveFacts
    <3>4. m[s.x] \in {"moved", "freed"}
      BY <2>1, <3>1, <3>3 DEF Gone
    <3> QED
      BY <1>8, <3>4 DEF Fault
  <2> QED
    BY <2>4, <2>5
<1>9. s.op \in {"use", "eat", "renew", "set", "borrow", "assign", "store"}
  BY DEF Statement
<1> QED
  BY <1>2, <1>3, <1>4, <1>5, <1>6, <1>7, <1>8, <1>9

\* On code without branches the checker is exact, for any number of statements and
\* locals: what it accepts goes wrong nowhere, and the first statement it reports
\* reads a value that is gone or gives away one that is another's (check_use,
\* move_expr, invalidate_loans).
THEOREM StraightExact == StraightSpec => [](PathSafe /\ PathExact)
<1> DEFINE StraightInv == Right(env, mem) /\ Gone(env, mem)
<1>1. PathInit => StraightInv
  <2> SUFFICES ASSUME PathInit PROVE StraightInv
    OBVIOUS
  <2>1. PICK loan \in LoanTable : env = Start(loan)
    BY DEF PathInit
  <2>2. env.loan = loan /\ \A v \in Local : env.f.st[v] = "valid"
    BY <2>1 DEF Start
  <2>3. Right(env, mem)
    BY <2>1, <2>2, StartRight DEF PathInit
  <2> QED
    BY <2>2, <2>3 DEF Gone
<1>2. StraightInv /\ [\E s \in Statement : Runs(s)]_pathVars => StraightInv'
  <2> SUFFICES ASSUME StraightInv, [\E s \in Statement : Runs(s)]_pathVars
               PROVE  Right(env', mem') /\ Gone(env', mem')
    BY DEF Right, Value, Gone
  <2>1. ASSUME NEW s \in Statement, Runs(s) PROVE Right(env', mem') /\ Gone(env', mem')
    BY <2>1, StepSound, GoneStep DEF Runs
  <2>2. CASE UNCHANGED pathVars
    BY <2>2 DEF pathVars
  <2> QED
    BY <2>1, <2>2
<1>3. StraightInv => PathSafe /\ PathExact
  BY StepSound, ReportFault DEF PathSafe, PathExact
<1> QED
  BY <1>1, <1>2, <1>3, PTL DEF StraightSpec

=============================================================================

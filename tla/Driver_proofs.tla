----------------------------- MODULE Driver_proofs -----------------------------
(***************************************************************************)
(* The module loader lists what a program needs in order and refuses just  *)
(* what it should, and a build that says all went well has made the        *)
(* program of these sources: for any modules, imports and failures.        *)
(***************************************************************************)
EXTENDS Driver, TLAPS, FunctionTheorems, FiniteSetTheorems, WellFoundedInduction

Import == [mod : Module, call : Module]
Frame  == [mod : Module, at : Nat \ {0}]

\* The part of TypeOK the order depends on.
LoadType ==
  /\ imports \in [Module -> Seq(Import)]
  /\ state \in [Module -> 0 .. 2]
  /\ stack \in Seq(Frame)
  /\ order \in Seq(Module)

\* A module is listed when, and only when, it is in state 2.
Listed == \A m \in Module : state[m] = 2 <=> \E k \in DOMAIN order : order[k] = m

\* What is on the path is not listed, and is on it once.
PathInv ==
  /\ \A k \in DOMAIN stack : state[stack[k].mod] = 1
  /\ \A j, k \in DOMAIN stack : stack[j].mod = stack[k].mod => j = k

\* The imports a module on the path has behind it are listed, the one it is
\* at is the next module of the path.
ProgressInv ==
  /\ \A k \in DOMAIN stack :
       /\ stack[k].at <= Len(imports[stack[k].mod]) + 1
       /\ \A i \in 1 .. stack[k].at - 1 : state[imports[stack[k].mod][i].mod] = 2
  /\ \A k \in 1 .. Len(stack) - 1 :
       /\ stack[k].at <= Len(imports[stack[k].mod])
       /\ imports[stack[k].mod][stack[k].at].mod = stack[k + 1].mod

\* The loader before its first step.
Fresh ==
  /\ imports \in [Module -> Seq(Import)]
  /\ hits \in [Module -> 0 .. 2]
  /\ state = [m \in Module |-> IF m = Entry THEN 1 ELSE 0]
  /\ deps = [m \in Module |-> <<>>]
  /\ stack = <<[mod |-> Entry, at |-> 1]>>
  /\ order = <<>>
  /\ err = "none"

OrderInv == LoadType /\ Listed /\ PathInv /\ ProgressInv /\ InOrder

-----------------------------------------------------------------------------
LEMMA InitFresh == Init => Fresh
  BY ImportsAssumption DEF Init, Fresh, Import

LEMMA InitOrder == Fresh => OrderInv
<1> SUFFICES ASSUME Fresh PROVE OrderInv
  OBVIOUS
<1>1. LoadType
  <2>1. imports \in [Module -> Seq(Import)]
    BY DEF Fresh
  <2>2. [mod |-> Entry, at |-> 1] \in Frame
    BY EntryAssumption DEF Frame
  <2>3. stack \in Seq(Frame)
    BY <2>2 DEF Fresh
  <2> QED
    BY <2>1, <2>3 DEF Fresh, LoadType
<1>2. Listed
  BY DEF Fresh, Listed
<1>3. PathInv
  BY EntryAssumption DEF Fresh, PathInv
<1>4. ProgressInv
  BY <1>1, EntryAssumption DEF Fresh, ProgressInv, LoadType
<1>5. InOrder
  BY DEF Fresh, InOrder, IsInjective
<1> QED
  BY <1>1, <1>2, <1>3, <1>4, <1>5 DEF OrderInv

\* Where the path ends.
LEMMA TopFacts ==
  ASSUME LoadType, stack # <<>>
  PROVE  /\ Len(stack) \in Nat \ {0}
         /\ Len(stack) \in DOMAIN stack
         /\ DOMAIN stack = 1 .. Len(stack)
         /\ Top = stack[Len(stack)]
         /\ Top.mod \in Module
         /\ Top.at \in Nat \ {0}
         /\ \A k \in DOMAIN stack : stack[k] \in Frame
<1>1. stack \in Seq(Frame)
  BY DEF LoadType
<1>2. Len(stack) \in Nat \ {0} /\ DOMAIN stack = 1 .. Len(stack)
  BY <1>1
<1>3. Len(stack) \in DOMAIN stack /\ \A k \in DOMAIN stack : stack[k] \in Frame
  BY <1>1, <1>2
<1>4. Top = stack[Len(stack)]
  BY DEF Top, Last
<1> QED
  BY <1>2, <1>3, <1>4 DEF Frame

LEMMA ImportFacts ==
  ASSUME LoadType, NEW m \in Module
  PROVE  /\ imports[m] \in Seq(Import)
         /\ Len(imports[m]) \in Nat
         /\ \A i \in 1 .. Len(imports[m]) : imports[m][i] \in Import
                                             /\ imports[m][i].mod \in Module
<1>1. imports[m] \in Seq(Import)
  BY DEF LoadType
<1>2. Len(imports[m]) \in Nat /\ \A i \in 1 .. Len(imports[m]) : imports[m][i] \in Import
  BY <1>1
<1> QED
  BY <1>1, <1>2 DEF Import

LEMMA LastOrBefore ==
  ASSUME NEW n \in Nat \ {0}, NEW k \in 1 .. n
  PROVE  k = n \/ (k \in 1 .. n - 1 /\ k + 1 \in 1 .. n)
  OBVIOUS

LEMMA KnownOrder ==
  ASSUME OrderInv, Known
  PROVE  OrderInv'
<1> USE DEF OrderInv
<1> DEFINE n == Len(stack)
<1>0. stack # <<>>
  BY DEF Known, AtImport, Running
<1>1. /\ n \in Nat \ {0} /\ n \in DOMAIN stack /\ DOMAIN stack = 1 .. n
      /\ Top = stack[n] /\ Top.mod \in Module /\ Top.at \in Nat \ {0}
      /\ \A k \in DOMAIN stack : stack[k] \in Frame
  BY <1>0, TopFacts
<1>2. /\ imports' = imports /\ state' = state /\ order' = order
      /\ stack' = [stack EXCEPT ![n].at = @ + 1]
  BY DEF Known, AddDep, files
<1>3. /\ DOMAIN stack' = 1 .. n /\ Len(stack') = n /\ stack' \in Seq(Frame)
      /\ \A k \in 1 .. n : stack'[k].mod = stack[k].mod
      /\ \A k \in 1 .. n - 1 : stack'[k] = stack[k]
      /\ stack'[n].at = stack[n].at + 1
  <2>1. stack'[n] = [stack[n] EXCEPT !.at = @ + 1]
    BY <1>1, <1>2
  <2>2. stack'[n] \in Frame /\ stack'[n].mod = stack[n].mod /\ stack'[n].at = stack[n].at + 1
    BY <2>1, <1>1 DEF Frame
  <2>3. \A k \in 1 .. n - 1 : stack'[k] = stack[k]
    BY <1>1, <1>2
  <2>4. DOMAIN stack' = 1 .. n
    BY <1>1, <1>2
  <2>5. stack' \in Seq(Frame) /\ Len(stack') = n
    <3>1. \A k \in 1 .. n : stack'[k] \in Frame
      BY <2>2, <2>3, <1>1
    <3>2. stack' = [k \in 1 .. n |-> stack'[k]]
      BY <1>1, <1>2
    <3> QED
      BY <3>1, <3>2, <1>1
  <2> QED
    BY <2>2, <2>3, <2>4, <2>5, <1>1
<1>4. LoadType'
  BY <1>2, <1>3 DEF LoadType
<1>5. Listed'
  BY <1>2 DEF Listed
<1>6. PathInv'
  BY <1>1, <1>2, <1>3 DEF PathInv
<1>7. state[imports[stack[n].mod][stack[n].at].mod] = 2 /\ stack[n].at <= Len(imports[stack[n].mod])
  <2>1. state[This.mod] # 0 /\ Bad(Top.mod, This) = "none" /\ Top.at <= Len(imports[Top.mod])
    BY DEF Known, AtImport
  <2>2. state[This.mod] # 1
    BY <2>1 DEF Bad
  <2>3. This = imports[stack[n].mod][stack[n].at]
    BY <1>1 DEF This
  <2>4. This \in Import
    BY <2>1, <2>3, <1>1 DEF LoadType
  <2>5. state[This.mod] \in 0 .. 2
    BY <2>4 DEF LoadType, Import
  <2> QED
    BY <2>1, <2>2, <2>3, <2>5, <1>1
<1>8. ProgressInv'
  <2>1. \A k \in 1 .. n : stack[k].at \in Nat \ {0} /\ Len(imports[stack[k].mod]) \in Nat
    BY <1>1, ImportFacts DEF Frame
  <2>2. ASSUME NEW k \in 1 .. n
        PROVE  /\ stack'[k].at <= Len(imports[stack[k].mod]) + 1
               /\ \A i \in 1 .. stack'[k].at - 1 : state[imports[stack[k].mod][i].mod] = 2
    <3>1. CASE k = n
      <4>1. ASSUME NEW i \in 1 .. stack'[n].at - 1
            PROVE  state[imports[stack[n].mod][i].mod] = 2
        <5>1. i \in 1 .. stack[n].at - 1 \/ i = stack[n].at
          BY <1>3, <1>1, <2>1
        <5> QED
          BY <5>1, <1>7, <1>1 DEF ProgressInv
      <4> QED
        BY <3>1, <4>1, <1>3, <1>7, <1>1, <2>1
    <3>2. CASE k # n
      <4>1. k \in 1 .. n - 1
        BY <3>2, <1>1, LastOrBefore
      <4>2. stack'[k] = stack[k]
        BY <4>1, <1>3
      <4> QED
        BY <4>2, <1>1 DEF ProgressInv
    <3> QED
      BY <3>1, <3>2
  <2>3. ASSUME NEW k \in 1 .. n - 1
        PROVE  /\ stack'[k].at <= Len(imports[stack[k].mod])
               /\ imports[stack[k].mod][stack'[k].at].mod = stack'[k + 1].mod
    BY <1>1, <1>3 DEF ProgressInv
  <2>4. imports' = imports /\ state' = state /\ DOMAIN stack' = 1 .. n /\ Len(stack') = n
    BY <1>1, <1>2, <1>3
  <2>5. n \in Nat /\ \A k \in 1 .. n : stack'[k].mod = stack[k].mod
    BY <1>1, <1>3
  <2>6. ASSUME NEW k \in DOMAIN stack'
        PROVE  /\ stack'[k].at <= Len(imports'[stack'[k].mod]) + 1
               /\ \A i \in 1 .. stack'[k].at - 1 : state'[imports'[stack'[k].mod][i].mod] = 2
    <3>1. k \in 1 .. n /\ stack'[k].mod = stack[k].mod
      BY <2>4, <2>5
    <3>2. /\ stack'[k].at <= Len(imports[stack[k].mod]) + 1
          /\ \A i \in 1 .. stack'[k].at - 1 : state[imports[stack[k].mod][i].mod] = 2
      BY <3>1, <2>2
    <3> QED
      BY ONLY <3>1, <3>2, <2>4
  <2>7. \A k \in 1 .. Len(stack') - 1 : k \in 1 .. n /\ k \in 1 .. n - 1
    BY ONLY <2>4, <2>5
  <2>8. \A k \in 1 .. Len(stack') - 1 :
          /\ stack'[k].at <= Len(imports'[stack'[k].mod])
          /\ imports'[stack'[k].mod][stack'[k].at].mod = stack'[k + 1].mod
    BY ONLY <2>3, <2>4, <2>5, <2>7
  <2> QED
    BY ONLY <2>6, <2>8 DEF ProgressInv
<1>9. InOrder'
  BY <1>2 DEF InOrder, IsInjective
<1> QED
  BY <1>4, <1>5, <1>6, <1>8, <1>9

LEMMA EnterOrder ==
  ASSUME OrderInv, Enter
  PROVE  OrderInv'
<1> USE DEF OrderInv
<1> DEFINE n == Len(stack)
           d == This.mod
<1>0. stack # <<>>
  BY DEF Enter, AtImport, Running
<1>1. /\ n \in Nat \ {0} /\ n \in DOMAIN stack /\ DOMAIN stack = 1 .. n
      /\ Top = stack[n] /\ Top.mod \in Module /\ Top.at \in Nat \ {0}
      /\ \A k \in DOMAIN stack : stack[k] \in Frame
  BY <1>0, TopFacts
<1>2. /\ Top.at <= Len(imports[Top.mod])
      /\ This = imports[stack[n].mod][stack[n].at]
      /\ d \in Module
      /\ state[d] = 0
  <2>1. Top.at <= Len(imports[Top.mod]) /\ state[d] = 0
    BY DEF Enter, AtImport
  <2>2. This = imports[stack[n].mod][stack[n].at]
    BY <1>1 DEF This
  <2>3. This \in Import
    BY <2>1, <2>2, <1>1 DEF LoadType
  <2> QED
    BY <2>1, <2>2, <2>3 DEF Import
<1> HIDE DEF d
<1>3. /\ imports' = imports /\ order' = order
      /\ state' = [state EXCEPT ![d] = 1]
      /\ stack' = Append(stack, [mod |-> d, at |-> 1])
  BY DEF Enter, Push, files, d
<1>4. /\ Len(stack') = n + 1 /\ DOMAIN stack' = 1 .. n + 1
      /\ \A k \in 1 .. n : stack'[k] = stack[k]
      /\ stack'[n + 1] = [mod |-> d, at |-> 1]
      /\ stack' \in Seq(Frame)
  BY <1>1, <1>2, <1>3 DEF LoadType, Frame
<1>5. LoadType'
  BY <1>2, <1>3, <1>4 DEF LoadType
<1>6. \A m \in Module : (state'[m] = 2 <=> state[m] = 2) /\ (state[m] = 1 => state'[m] = 1)
  BY <1>2, <1>3 DEF LoadType
<1>7. Listed'
  BY <1>3, <1>6 DEF Listed
<1>8. \A k \in 1 .. n : stack[k].mod \in Module /\ stack[k].mod # d
  BY <1>1, <1>2 DEF PathInv, Frame
<1>9. PathInv'
  <2>1. state'[d] = 1
    BY <1>2, <1>3 DEF LoadType
  <2>2. \A k \in 1 .. n + 1 : state'[stack'[k].mod] = 1
    <3>1. \A k \in 1 .. n : state[stack[k].mod] = 1
      BY <1>1 DEF PathInv
    <3>2. \A k \in 1 .. n : state'[stack'[k].mod] = 1
      BY <3>1, <1>4, <1>6, <1>8
    <3>3. state'[stack'[n + 1].mod] = 1
      BY <2>1, <1>4
    <3>4. \A k \in 1 .. n + 1 : k \in 1 .. n \/ k = n + 1
      BY <1>1
    <3> QED
      BY <3>2, <3>3, <3>4
  <2>3. \A j, k \in 1 .. n + 1 : stack'[j].mod = stack'[k].mod => j = k
    BY <1>1, <1>4, <1>8 DEF PathInv
  <2> QED
    BY <2>2, <2>3, <1>4 DEF PathInv
<1>10. ProgressInv'
  <2>1. \A k \in 1 .. n : /\ stack[k].at \in Nat \ {0}
                          /\ imports[stack[k].mod] \in Seq(Import)
    BY <1>1 DEF LoadType, Frame
  <2>2. ASSUME NEW k \in 1 .. n + 1
        PROVE  /\ stack'[k].at <= Len(imports[stack'[k].mod]) + 1
               /\ \A i \in 1 .. stack'[k].at - 1 : state'[imports[stack'[k].mod][i].mod] = 2
    <3>1. CASE k = n + 1
      BY <3>1, <1>2, <1>4 DEF LoadType
    <3>2. CASE k \in 1 .. n
      <4>1. stack[k].at <= Len(imports[stack[k].mod]) + 1
        BY <3>2, <1>1 DEF ProgressInv
      <4>2. ASSUME NEW i \in 1 .. stack[k].at - 1
            PROVE  state'[imports[stack[k].mod][i].mod] = 2
        <5>1. i \in 1 .. Len(imports[stack[k].mod])
          BY <4>1, <2>1, <3>2
        <5>2. imports[stack[k].mod][i] \in Import
          BY <5>1, <2>1, <3>2
        <5>3. state[imports[stack[k].mod][i].mod] = 2
          BY <3>2, <1>1 DEF ProgressInv
        <5> QED
          BY <5>2, <5>3, <1>6 DEF Import
      <4> QED
        BY <3>2, <4>1, <4>2, <1>4
    <3> QED
      BY <3>1, <3>2, <1>1
  <2>3. ASSUME NEW k \in 1 .. n
        PROVE  /\ stack'[k].at <= Len(imports[stack'[k].mod])
               /\ imports[stack'[k].mod][stack'[k].at].mod = stack'[k + 1].mod
    <3>1. CASE k = n
      BY <3>1, <1>1, <1>2, <1>4 DEF d
    <3>2. CASE k \in 1 .. n - 1
      <4>1. k + 1 \in 1 .. n
        BY <3>2, <1>1
      <4> QED
        BY <4>1, <3>2, <1>1, <1>4 DEF ProgressInv
    <3>3. k = n \/ k \in 1 .. n - 1
      BY <1>1, LastOrBefore
    <3> QED
      BY <3>1, <3>2, <3>3
  <2>4. Len(stack') - 1 = n /\ DOMAIN stack' = 1 .. n + 1 /\ imports' = imports
    BY <1>1, <1>3, <1>4
  <2>5. n \in Nat /\ \A k \in 1 .. n : stack'[k] = stack[k]
    BY <1>1, <1>4
  <2>6. \A k \in DOMAIN stack' :
          /\ stack'[k].at <= Len(imports'[stack'[k].mod]) + 1
          /\ \A i \in 1 .. stack'[k].at - 1 : state'[imports'[stack'[k].mod][i].mod] = 2
    BY ONLY <2>2, <2>4
  <2>7. \A k \in 1 .. Len(stack') - 1 :
          /\ stack'[k].at <= Len(imports'[stack'[k].mod])
          /\ imports'[stack'[k].mod][stack'[k].at].mod = stack'[k + 1].mod
    BY ONLY <2>3, <2>4, <2>5
  <2> QED
    BY ONLY <2>6, <2>7 DEF ProgressInv
<1>11. InOrder'
  BY <1>3 DEF InOrder, IsInjective
<1> QED
  BY <1>5, <1>7, <1>9, <1>10, <1>11

LEMMA LastOrNot ==
  ASSUME NEW n \in Nat \ {0}, NEW k \in 1 .. n - 1
  PROVE  k = n - 1 \/ k \in 1 .. n - 2
  OBVIOUS

LEMMA FrameSeq ==
  ASSUME NEW s, NEW j \in Nat, s = [k \in 1 .. j |-> s[k]], \A k \in 1 .. j : s[k] \in Frame
  PROVE  s \in Seq(Frame) /\ Len(s) = j
  OBVIOUS

LEMMA LeaveOrder ==
  ASSUME OrderInv, Leave
  PROVE  OrderInv'
<1> USE DEF OrderInv
<1> DEFINE n == Len(stack)
           m == Top.mod
           st == Front(stack)
<1>0. stack # <<>>
  BY DEF Leave, Running
<1>1. /\ n \in Nat \ {0} /\ n \in DOMAIN stack /\ DOMAIN stack = 1 .. n
      /\ Top = stack[n] /\ m \in Module /\ Top.at \in Nat \ {0}
      /\ \A k \in DOMAIN stack : stack[k] \in Frame
  BY <1>0, TopFacts
<1>n. n \in Nat \ {0} /\ n = Len(stack)
  BY <1>1
<1>2. /\ imports' = imports
      /\ state' = [state EXCEPT ![m] = 2]
      /\ order' = Append(order, m)
      /\ stack' = IF n = 1 THEN <<>> ELSE [st EXCEPT ![Len(st)].at = @ + 1]
  BY DEF Leave, AddDep, files
<1>3. /\ stack[n].mod = m
      /\ state[m] = 1
      /\ \A i \in 1 .. Len(imports[m]) : state[imports[m][i].mod] = 2
  <2>1. ~(Top.at <= Len(imports[m])) /\ Top.at <= Len(imports[m]) + 1
    BY <1>1 DEF Leave, AtImport, Running, ProgressInv
  <2>2. Top.at - 1 = Len(imports[m])
    BY <2>1, <1>1, ImportFacts
  <2> QED
    BY <2>2, <1>1 DEF ProgressInv, PathInv
<1> HIDE DEF m, n
<1>4. /\ st \in Seq(Frame) /\ Len(st) = n - 1
      /\ \A k \in 1 .. n - 1 : st[k] = stack[k]
  BY <1>1, <1>n DEF LoadType, Front
<1> HIDE DEF st
<1>5. /\ stack' \in Seq(Frame) /\ Len(stack') = n - 1 /\ DOMAIN stack' = 1 .. n - 1
      /\ \A k \in 1 .. n - 1 : stack'[k].mod = stack[k].mod
      /\ \A k \in 1 .. n - 2 : stack'[k] = stack[k]
      /\ n > 1 => stack'[n - 1].at = stack[n - 1].at + 1
  <2>1. CASE n = 1
    <3>1. stack' = <<>>
      BY <2>1, <1>2
    <3>2. stack' \in Seq(Frame) /\ Len(stack') = 0 /\ DOMAIN stack' = 1 .. 0
      BY <3>1
    <3>3. n - 1 = 0 /\ 1 .. n - 1 = {} /\ 1 .. n - 2 = {}
      BY <2>1
    <3> QED
      BY <2>1, <3>2, <3>3
  <2>2. CASE n > 1
    <3>1. stack' = [st EXCEPT ![n - 1].at = @ + 1] /\ n - 1 \in 1 .. n - 1
      BY <2>2, <1>1, <1>2, <1>4
    <3>2. DOMAIN st = 1 .. n - 1 /\ DOMAIN stack' = 1 .. n - 1
      BY <3>1, <1>1, <1>4
    <3>3. stack'[n - 1] = [stack[n - 1] EXCEPT !.at = @ + 1]
      BY <3>1, <3>2, <1>4
    <3>4. \A k \in 1 .. n - 2 : stack'[k] = stack[k]
      BY <3>1, <3>2, <1>1, <1>4
    <3>5. stack[n - 1] \in Frame
      BY <2>2, <1>1
    <3>6. /\ stack'[n - 1] \in Frame /\ stack'[n - 1].mod = stack[n - 1].mod
          /\ stack'[n - 1].at = stack[n - 1].at + 1
      BY <3>3, <3>5 DEF Frame
    <3>7. \A k \in 1 .. n - 1 : stack'[k] \in Frame /\ stack'[k].mod = stack[k].mod
      <4>1. \A k \in 1 .. n - 1 : k = n - 1 \/ k \in 1 .. n - 2
        BY <1>n, LastOrNot
      <4>2. \A k \in 1 .. n - 2 : stack[k] \in Frame
        BY <1>1
      <4> QED
        BY <4>1, <4>2, <3>4, <3>6
    <3>8. stack' = [k \in 1 .. n - 1 |-> stack'[k]]
      BY <3>1, <3>2
    <3>9. stack' \in Seq(Frame) /\ Len(stack') = n - 1
      <4>1. n - 1 \in Nat
        BY <1>n
      <4> QED
        BY <4>1, <3>7, <3>8, FrameSeq
    <3> QED
      BY <3>2, <3>4, <3>6, <3>7, <3>9
  <2>3. n = 1 \/ n > 1
    BY <1>n
  <2> QED
    BY <2>1, <2>2, <2>3
<1>6. LoadType'
  <2>1. imports' \in [Module -> Seq(Import)]
    BY <1>2 DEF LoadType
  <2>2. state' \in [Module -> 0 .. 2]
    <3>1. state' = [state EXCEPT ![m] = 2] /\ state \in [Module -> 0 .. 2]
      BY <1>2 DEF LoadType
    <3>2. state' = [x \in Module |-> IF x = m THEN 2 ELSE state[x]]
      BY <3>1
    <3>3. \A x \in Module : (IF x = m THEN 2 ELSE state[x]) \in 0 .. 2
      BY <3>1
    <3> QED
      BY <3>2, <3>3
  <2>3. order' \in Seq(Module)
    BY <1>1, <1>2 DEF LoadType
  <2> QED
    BY <2>1, <2>2, <2>3, <1>5 DEF LoadType
<1>7. \A x \in Module : state'[x] = IF x = m THEN 2 ELSE state[x]
  BY <1>1, <1>2 DEF LoadType
<1>8. /\ Len(order) \in Nat /\ DOMAIN order = 1 .. Len(order)
      /\ DOMAIN order' = 1 .. Len(order) + 1
      /\ \A k \in 1 .. Len(order) : order'[k] = order[k]
      /\ order'[Len(order) + 1] = m
  BY <1>1, <1>2 DEF LoadType
<1>9. Listed'
  <2>1. ASSUME NEW x \in Module
        PROVE  state'[x] = 2 <=> \E k \in DOMAIN order' : order'[k] = x
    <3>1. CASE x = m
      BY <3>1, <1>7, <1>8
    <3>2. CASE x # m
      <4>1. state'[x] = 2 <=> \E k \in DOMAIN order : order[k] = x
        BY <3>2, <1>7 DEF Listed
      <4>2. (\E k \in DOMAIN order : order[k] = x) <=> (\E k \in DOMAIN order' : order'[k] = x)
        BY <3>2, <1>8
      <4> QED
        BY <4>1, <4>2
    <3> QED
      BY <3>1, <3>2
  <2> QED
    BY <2>1 DEF Listed
<1>10. \A k \in 1 .. n - 1 : stack[k].mod # m /\ stack[k].mod \in Module
  <2>1. \A k \in 1 .. n - 1 : k \in DOMAIN stack /\ k # n
    BY <1>1
  <2> QED
    BY <2>1, <1>1, <1>3 DEF PathInv, Frame
<1>11. PathInv'
  <2>1. \A k \in 1 .. n - 1 : k \in DOMAIN stack
    BY <1>1
  <2>2. \A k \in 1 .. n - 1 : state'[stack[k].mod] = 1
    BY <2>1, <1>7, <1>10 DEF PathInv
  <2>3. \A j, k \in 1 .. n - 1 : stack[j].mod = stack[k].mod => j = k
    BY <2>1 DEF PathInv
  <2>4. \A k \in DOMAIN stack' : state'[stack'[k].mod] = 1
    BY <2>2, <1>5
  <2>5. \A j, k \in DOMAIN stack' : stack'[j].mod = stack'[k].mod => j = k
    BY <2>3, <1>5
  <2> QED
    BY <2>4, <2>5 DEF PathInv
<1>12. ProgressInv'
  <2>1. ASSUME NEW k \in 1 .. n - 1, NEW i \in 1 .. stack[k].at - 1
        PROVE  state'[imports[stack[k].mod][i].mod] = 2
    <3>1. k \in DOMAIN stack /\ stack[k].at \in Nat /\ stack[k].mod \in Module
      BY <1>1 DEF Frame
    <3>2. stack[k].at <= Len(imports[stack[k].mod]) + 1
      BY <3>1 DEF ProgressInv
    <3>3. i \in 1 .. Len(imports[stack[k].mod])
      BY <3>1, <3>2, ImportFacts
    <3>4. state[imports[stack[k].mod][i].mod] = 2 /\ imports[stack[k].mod][i].mod \in Module
      BY <3>1, <3>3, ImportFacts DEF ProgressInv
    <3> QED
      BY <3>4, <1>7
  <2>2. ASSUME NEW k \in 1 .. n - 1
        PROVE  /\ stack[k].at <= Len(imports[stack[k].mod])
               /\ imports[stack[k].mod][stack[k].at].mod = stack[k + 1].mod
    BY <1>n DEF ProgressInv
  <2>3. \A k \in 1 .. n - 1 : stack[k].at \in Nat /\ Len(imports[stack[k].mod]) \in Nat
    BY <1>1, <1>10, ImportFacts DEF Frame
  <2>4. ASSUME NEW k \in 1 .. n - 1
        PROVE  /\ stack'[k].at <= Len(imports[stack'[k].mod]) + 1
               /\ \A i \in 1 .. stack'[k].at - 1 : state'[imports[stack'[k].mod][i].mod] = 2
    <3>1. CASE k \in 1 .. n - 2
      <4>1. stack'[k] = stack[k]
        BY <3>1, <1>5
      <4>2. stack[k].at <= Len(imports[stack[k].mod]) + 1
        BY <2>2, <2>3
      <4>3. \A i \in 1 .. stack[k].at - 1 : state'[imports[stack[k].mod][i].mod] = 2
        BY <2>1
      <4> QED
        BY <4>1, <4>2, <4>3
    <3>2. CASE k = n - 1
      <4>1. /\ stack'[k].at = stack[k].at + 1
            /\ stack'[k].mod = stack[k].mod
        BY <3>2, <1>1, <1>5
      <4>2. imports[stack[k].mod][stack[k].at].mod = m
        BY <2>2, <3>2, <1>1, <1>3
      <4>3. state'[m] = 2
        BY <1>1, <1>7
      <4>4. \A i \in 1 .. stack[k].at : i = stack[k].at \/ i \in 1 .. stack[k].at - 1
        BY <2>3
      <4>5. \A i \in 1 .. stack[k].at : state'[imports[stack[k].mod][i].mod] = 2
        BY <4>2, <4>3, <4>4, <2>1
      <4>6. stack[k].at + 1 <= Len(imports[stack[k].mod]) + 1 /\ stack[k].at + 1 - 1 = stack[k].at
        BY <2>2, <2>3
      <4>7. stack'[k].at <= Len(imports[stack'[k].mod]) + 1
        BY <4>1, <4>6
      <4>8. stack'[k].at - 1 = stack[k].at
        BY <4>1, <2>3
      <4> QED
        BY <4>1, <4>5, <4>7, <4>8
    <3>3. k \in 1 .. n - 2 \/ k = n - 1
      BY <1>n, LastOrNot
    <3> QED
      BY <3>1, <3>2, <3>3
  <2>5. ASSUME NEW k \in 1 .. n - 2
        PROVE  /\ stack'[k].at <= Len(imports[stack'[k].mod])
               /\ imports[stack'[k].mod][stack'[k].at].mod = stack'[k + 1].mod
    <3>1. k \in 1 .. n - 1 /\ k + 1 \in 1 .. n - 1
      BY <1>1
    <3> QED
      BY <3>1, <2>2, <1>5
  <2>6. Len(stack') - 1 = n - 2
    BY <1>n, <1>5
  <2>7. imports' = imports /\ DOMAIN stack' = 1 .. n - 1
    BY <1>2, <1>5
  <2> QED
    BY <2>4, <2>5, <2>6, <2>7 DEF ProgressInv
<1>13. InOrder'
  <2>1. \A k \in 1 .. Len(order) : order[k] # m /\ order[k] \in Module
    BY <1>1, <1>3, <1>8 DEF Listed, LoadType
  <2>2. IsInjective(order')
    BY <2>1, <1>8 DEF InOrder, IsInjective
  <2>3. ASSUME NEW k \in DOMAIN order', NEW i \in Range(imports[order'[k]])
        PROVE  \E j \in 1 .. k - 1 : order'[j] = i.mod
    <3>1. CASE k = Len(order) + 1
      <4>1. PICK x \in DOMAIN imports[m] : i = imports[m][x]
        BY <3>1, <1>8 DEF Range
      <4>2. x \in 1 .. Len(imports[m])
        BY <4>1, <1>1, ImportFacts
      <4>3. state[i.mod] = 2 /\ i.mod \in Module
        BY <4>1, <4>2, <1>1, <1>3, ImportFacts
      <4>4. PICK j \in DOMAIN order : order[j] = i.mod
        BY <4>3 DEF Listed
      <4> QED
        BY <4>4, <3>1, <1>8
    <3>2. CASE k \in 1 .. Len(order)
      <4>1. order'[k] = order[k]
        BY <3>2, <1>8
      <4>2. PICK j \in 1 .. k - 1 : order[j] = i.mod
        BY <3>2, <4>1, <1>8 DEF InOrder
      <4>3. order'[j] = order[j]
        BY <3>2, <4>2, <1>8
      <4> QED
        BY <4>2, <4>3
    <3> QED
      BY <3>1, <3>2, <1>8
  <2> QED
    BY <2>2, <2>3, <1>2 DEF InOrder
<1> QED
  BY <1>6, <1>9, <1>11, <1>12, <1>13

LEMMA RestOrder ==
  ASSUME OrderInv, Fail \/ Finished \/ UNCHANGED vars
  PROVE  OrderInv'
<1>1. UNCHANGED <<imports, state, stack, order>>
  BY DEF Fail, Finished, vars, files
<1> QED
  BY <1>1 DEF OrderInv, LoadType, Listed, PathInv, ProgressInv, InOrder, IsInjective

-----------------------------------------------------------------------------
\* The dependencies of a module are the imports it has behind it.
DepsInv ==
  /\ deps \in [Module -> Seq(Import)]
  /\ \A m \in Module :
       /\ Len(deps[m]) <= Len(imports[m])
       /\ \A j \in 1 .. Len(deps[m]) : deps[m][j] = imports[m][j]
       /\ state[m] = 2 => Len(deps[m]) = Len(imports[m])
       /\ state[m] = 1 => \E k \in DOMAIN stack : stack[k].mod = m
       /\ state[m] = 0 => Len(deps[m]) = 0
  /\ \A k \in DOMAIN stack : Len(deps[stack[k].mod]) = stack[k].at - 1

\* Nothing was wrong with import j of m.
Passed(m, j) ==
  /\ hits[imports[m][j].mod] = 1
  /\ \A i \in 1 .. j - 1 : imports[m][i].mod # imports[m][j].mod
                           /\ imports[m][i].call # imports[m][j].call

PassedInv ==
  /\ hits \in [Module -> 0 .. 2]
  /\ \A m \in Module : \A j \in 1 .. Len(deps[m]) : Passed(m, j)
  /\ \A k \in 1 .. Len(stack) - 1 : Passed(stack[k].mod, stack[k].at)

\* What is loaded is in the program, and was found.
LoadedInv ==
  /\ \A m \in Module : state[m] # 0 => m \in Reached /\ (m # Entry => hits[m] # 0)
  /\ stack # <<>> => stack[1].mod = Entry
  /\ stack = <<>> => state[Entry] = 2

Refused == err # "none" => ~(Acyclic /\ \A m \in Reached : Sound(m))

ExactInv == OrderInv /\ DepsInv /\ PassedInv /\ LoadedInv /\ Refused

\* What the entry reaches is closed under imports, and is in every closed set.
LEMMA ReachedFacts ==
  ASSUME LoadType
  PROVE  /\ Entry \in Reached
         /\ Reached \subseteq Module
         /\ \A m \in Reached : \A j \in 1 .. Len(imports[m]) : imports[m][j].mod \in Reached
         /\ \A S \in SUBSET Module :
              /\ Entry \in S
              /\ \A k \in S : \A j \in 1 .. Len(imports[k]) : imports[k][j].mod \in S
              => Reached \subseteq S
<1>1. Entry \in Reached /\ Reached \subseteq Module
  BY EntryAssumption DEF Reached
<1>2. \A k \in Module : DOMAIN imports[k] = 1 .. Len(imports[k])
  BY ImportFacts
<1>3. ASSUME NEW m \in Reached, NEW j \in 1 .. Len(imports[m])
      PROVE  imports[m][j].mod \in Reached
  <2>1. m \in Module /\ imports[m][j].mod \in Module /\ imports[m][j] \in Range(imports[m])
    BY <1>1, <1>2, ImportFacts DEF Range
  <2>2. ASSUME NEW S \in SUBSET Module, Entry \in S,
               \A k \in S : \A i \in Range(imports[k]) : i.mod \in S
        PROVE  imports[m][j].mod \in S
    <3>1. m \in S
      BY <2>2, <1>3 DEF Reached
    <3> QED
      BY <3>1, <2>1, <2>2
  <2> QED
    BY <2>1, <2>2 DEF Reached
<1>4. ASSUME NEW S \in SUBSET Module, Entry \in S,
             \A k \in S : \A j \in 1 .. Len(imports[k]) : imports[k][j].mod \in S
      PROVE  Reached \subseteq S
  <2>1. \A k \in S : \A i \in Range(imports[k]) : i.mod \in S
    BY <1>2, <1>4 DEF Range
  <2> QED
    BY <2>1, <1>4 DEF Reached
<1> QED
  BY <1>1, <1>3, <1>4

LEMMA InitExact == Fresh => ExactInv
<1> SUFFICES ASSUME Fresh PROVE ExactInv
  OBVIOUS
<1>1. OrderInv
  BY InitOrder
<1>2. Entry \in Reached
  BY <1>1, ReachedFacts DEF OrderInv
<1>3. \A m \in Module : Len(imports[m]) \in Nat /\ deps[m] = <<>>
  BY <1>1, ImportFacts DEF Fresh, OrderInv
<1>4. DepsInv
  BY <1>3, EntryAssumption DEF Fresh, DepsInv
<1>5. PassedInv
  BY <1>3 DEF Fresh, PassedInv
<1>6. LoadedInv
  BY <1>2 DEF Fresh, LoadedInv
<1>7. Refused
  BY DEF Fresh, Refused
<1> QED
  BY <1>1, <1>4, <1>5, <1>6, <1>7 DEF ExactInv

\* The module an import is of, and what is known of the imports before it.
LEMMA ThisFacts ==
  ASSUME ExactInv, AtImport
  PROVE  /\ Top.mod \in Module /\ Top.at \in 1 .. Len(imports[Top.mod])
         /\ This = imports[Top.mod][Top.at]
         /\ This \in Import /\ This.mod \in Module
         /\ deps[Top.mod] \in Seq(Import)
         /\ Len(deps[Top.mod]) = Top.at - 1
         /\ DOMAIN deps[Top.mod] = 1 .. Top.at - 1
         /\ \A j \in 1 .. Top.at - 1 : deps[Top.mod][j] = imports[Top.mod][j]
         /\ state[Top.mod] = 1 /\ Top.mod \in Reached
         /\ This.mod \in Reached
<1> USE DEF ExactInv, OrderInv
<1>1. stack # <<>> /\ Top.at <= Len(imports[Top.mod])
  BY DEF AtImport, Running
<1>2. /\ Top = stack[Len(stack)] /\ Len(stack) \in DOMAIN stack
      /\ Top.mod \in Module /\ Top.at \in Nat \ {0}
  BY <1>1, TopFacts
<1>3. Top.at \in 1 .. Len(imports[Top.mod]) /\ This = imports[Top.mod][Top.at]
  BY <1>1, <1>2, ImportFacts DEF This
<1>4. This \in Import /\ This.mod \in Module
  BY <1>2, <1>3, ImportFacts
<1>5. /\ deps[Top.mod] \in Seq(Import) /\ Len(deps[Top.mod]) = Top.at - 1
      /\ \A j \in 1 .. Len(deps[Top.mod]) : deps[Top.mod][j] = imports[Top.mod][j]
  BY <1>2 DEF DepsInv
<1>6. DOMAIN deps[Top.mod] = 1 .. Top.at - 1
  BY <1>5
<1>7. state[Top.mod] = 1
  BY <1>2 DEF PathInv
<1>8. Top.mod \in Reached
  BY <1>2, <1>7 DEF LoadedInv
<1>9. This.mod \in Reached
  BY <1>3, <1>8, ReachedFacts
<1> QED
  BY <1>2, <1>3, <1>4, <1>5, <1>6, <1>7, <1>8, <1>9

\* What an import nothing is wrong with is like.
LEMMA GoodImport ==
  ASSUME ExactInv, AtImport, Bad(Top.mod, This) = "none"
  PROVE  Passed(Top.mod, Top.at) /\ hits[This.mod] = 1
<1>1. /\ hits[This.mod] <= 1
      /\ state[This.mod] # 1
      /\ ~(state[This.mod] = 0 /\ hits[This.mod] = 0)
      /\ ~ \E k \in DOMAIN deps[Top.mod] : deps[Top.mod][k].mod = This.mod
      /\ ~ \E k \in DOMAIN deps[Top.mod] : deps[Top.mod][k].call = This.call
  <2>1. hits[This.mod] \in 0 .. 2
    BY ThisFacts DEF ExactInv, PassedInv
  <2> QED
    BY <2>1 DEF Bad
<1>2. state[This.mod] \in 0 .. 2 /\ hits[This.mod] \in 0 .. 2
  BY ThisFacts DEF ExactInv, PassedInv, OrderInv, LoadType
<1>3. hits[This.mod] # 0
  <2>1. CASE state[This.mod] = 0
    BY <2>1, <1>1
  <2>2. CASE state[This.mod] = 2
    <3>1. stack # <<>> /\ stack[1].mod = Entry
      BY DEF AtImport, Running, ExactInv, LoadedInv
    <3>2. state[Entry] = 1
      BY <3>1, TopFacts DEF ExactInv, OrderInv, PathInv
    <3> QED
      BY <3>2, <2>2, ThisFacts DEF ExactInv, LoadedInv
  <2> QED
    BY <2>1, <2>2, <1>1, <1>2
<1>4. hits[This.mod] = 1
  BY <1>1, <1>2, <1>3
<1>5. \A i \in 1 .. Top.at - 1 : imports[Top.mod][i].mod # This.mod
                                  /\ imports[Top.mod][i].call # This.call
  BY <1>1, ThisFacts
<1> QED
  BY <1>4, <1>5, ThisFacts DEF Passed

\* The numbers of a set have a least one.
LEMMA Least ==
  ASSUME NEW T, T \subseteq Nat, T # {}
  PROVE  \E m \in T : \A y \in T : m <= y
<1> DEFINE R == OpToRel(<, Nat)
<1>1. IsWellFoundedOn(R, Nat)
  BY NatLessThanWellFounded
<1> HIDE DEF R
<1>2. PICK m \in T : \A y \in T : ~(<<y, m>> \in R)
  BY <1>1, WFMin
<1>3. ASSUME NEW y \in T, y < m
      PROVE  <<y, m>> \in R
  BY <1>3 DEF R, OpToRel
<1>4. \A y \in T : ~(y < m)
  BY <1>2, <1>3
<1>5. \A y \in T : y \in Nat /\ m \in Nat
  OBVIOUS
<1> QED
  BY <1>4, <1>5

\* What an import the loader refuses says of the program.
LEMMA BadImport ==
  ASSUME ExactInv, AtImport, Bad(Top.mod, This) # "none"
  PROVE  ~(Acyclic /\ \A m \in Reached : Sound(m))
<1> DEFINE m == Top.mod
           i == This
<1> SUFFICES ASSUME Acyclic, \A x \in Reached : Sound(x)
             PROVE  FALSE
  OBVIOUS
<1>1. PICK rank \in [Reached -> 1 .. Cardinality(Reached)] :
        \A x \in Reached : \A y \in Range(imports[x]) : rank[y.mod] < rank[x]
  BY DEF Acyclic
<1>2. Cardinality(Reached) \in Nat /\ \A x \in Reached : rank[x] \in Nat
  <2>1. Reached \subseteq Module
    BY ReachedFacts DEF ExactInv, OrderInv
  <2>2. IsFiniteSet(Reached)
    BY <2>1, EntryAssumption, FS_Subset
  <2>3. Cardinality(Reached) \in Nat
    BY <2>2, FS_CardinalityType
  <2> QED
    BY <2>3, <1>1
<1>3. \A x \in Reached : \A j \in 1 .. Len(imports[x]) : rank[imports[x][j].mod] < rank[x]
  <2>1. Reached \subseteq Module
    BY ReachedFacts DEF ExactInv, OrderInv
  <2>2. \A x \in Reached : DOMAIN imports[x] = 1 .. Len(imports[x])
    BY <2>1, ImportFacts DEF ExactInv, OrderInv
  <2> QED
    BY <2>2, <1>1 DEF Range
<1>4. rank[i.mod] < rank[m] /\ i.mod \in Reached /\ m \in Reached
  BY <1>3, ThisFacts
<1>5. i.mod # m
  BY <1>4, <1>2
<1>6. /\ hits[i.mod] = 1
      /\ \A j \in 1 .. Top.at - 1 : imports[m][j].mod # i.mod /\ imports[m][j].call # i.call
  <2>1. Sound(m)
    BY <1>4
  <2>2. m \in Module /\ DOMAIN imports[m] = 1 .. Len(imports[m]) /\ Top.at \in DOMAIN imports[m]
        /\ i = imports[m][Top.at] /\ Len(imports[m]) \in Nat
    BY ThisFacts, ImportFacts DEF ExactInv, OrderInv
  <2>3. \A j \in 1 .. Top.at - 1 : j \in DOMAIN imports[m] /\ j # Top.at
    BY <2>2
  <2>4. i \in Range(imports[m])
    BY <2>2 DEF Range
  <2> QED
    BY <2>1, <2>2, <2>3, <2>4 DEF Sound
<1>7. state[i.mod] # 1
  <2> SUFFICES ASSUME state[i.mod] = 1 PROVE FALSE
    OBVIOUS
  <2> DEFINE n == Len(stack)
             r(k) == rank[stack[k].mod]
  <2>1. PICK j \in DOMAIN stack : stack[j].mod = i.mod
    BY ThisFacts DEF ExactInv, DepsInv
  <2>2. n \in Nat \ {0} /\ DOMAIN stack = 1 .. n /\ Top = stack[n]
    BY TopFacts DEF ExactInv, OrderInv, AtImport, Running
  <2>3. \A k \in 1 .. n : stack[k].mod \in Reached /\ r(k) \in Nat
    <3>1. \A k \in 1 .. n : stack[k].mod \in Module /\ state[stack[k].mod] = 1
      BY <2>2, TopFacts DEF ExactInv, OrderInv, AtImport, Running, PathInv, Frame
    <3> QED
      BY <3>1, <1>2 DEF ExactInv, LoadedInv
  <2>4. \A k \in 1 .. n - 1 : r(k + 1) < r(k)
    <3>1. ASSUME NEW k \in 1 .. n - 1
          PROVE  r(k + 1) < r(k)
      <4>1. /\ stack[k].at <= Len(imports[stack[k].mod])
            /\ imports[stack[k].mod][stack[k].at].mod = stack[k + 1].mod
        BY DEF ExactInv, OrderInv, ProgressInv
      <4>2. k \in 1 .. n /\ stack[k] \in Frame
        BY <2>2, TopFacts DEF ExactInv, OrderInv, AtImport, Running
      <4>3. stack[k].at \in 1 .. Len(imports[stack[k].mod])
        BY <4>1, <4>2, ImportFacts DEF Frame, ExactInv, OrderInv
      <4> QED
        BY <4>1, <4>2, <4>3, <2>3, <1>3
    <3> QED
      BY <3>1
  <2>5. r(j) < r(n)
    BY <1>4, <2>1, <2>2
  <2> DEFINE T == {k \in Nat : j < k /\ k <= n /\ r(j) <= r(k)}
  <2>6. T \subseteq Nat /\ n \in T
    BY <2>1, <2>2, <2>3, <2>5
  <2>7. PICK k \in T : \A y \in T : k <= y
    <3> HIDE DEF T
    <3> QED
      BY <2>6, Least
  <2>8. k - 1 \notin T /\ k \in Nat /\ k - 1 \in 1 .. n - 1 /\ k \in 1 .. n /\ j <= k - 1 /\ r(j) <= r(k)
    BY <2>1, <2>2, <2>7
  <2>9. r(k) < r(k - 1)
    BY <2>4, <2>8
  <2>10. r(j) \in Nat /\ r(k) \in Nat /\ r(k - 1) \in Nat
    BY <2>3, <2>8, <2>1, <2>2
  <2>11. r(j) < r(k - 1)
    BY <2>8, <2>9, <2>10
  <2>12. k - 1 # j
    BY <2>11, <2>10
  <2>13. k - 1 \in T
    BY <2>1, <2>2, <2>8, <2>10, <2>11, <2>12
  <2> QED
    BY <2>13, <2>8
<1>8. \A k \in DOMAIN deps[m] : deps[m][k].mod # i.mod /\ deps[m][k].call # i.call
  BY <1>6, ThisFacts
<1> QED
  BY <1>5, <1>6, <1>7, <1>8 DEF Bad

\* One more import behind module p.
LEMMA OneMoreDep ==
  ASSUME DepsInv, PassedInv, LoadType, LoadType', NEW p \in Module,
         Len(deps[p]) + 1 <= Len(imports[p]),
         Passed(p, Len(deps[p]) + 1),
         UNCHANGED files,
         deps' = [deps EXCEPT ![p] = Append(@, imports[p][Len(@) + 1])]
  PROVE  /\ deps' \in [Module -> Seq(Import)]
         /\ \A m \in Module : m # p => deps'[m] = deps[m]
         /\ Len(deps'[p]) = Len(deps[p]) + 1
         /\ \A m \in Module :
              /\ Len(deps'[m]) <= Len(imports[m])
              /\ \A j \in 1 .. Len(deps'[m]) : deps'[m][j] = imports[m][j]
              /\ \A j \in 1 .. Len(deps'[m]) : Passed(m, j)'
<1> DEFINE n == Len(deps[p])
           d == Append(deps[p], imports[p][n + 1])
<1>1. deps \in [Module -> Seq(Import)] /\ deps[p] \in Seq(Import) /\ n \in Nat
  BY DEF DepsInv
<1>2. n + 1 \in 1 .. Len(imports[p]) /\ imports[p][n + 1] \in Import
  BY <1>1, ImportFacts
<1>3. /\ d \in Seq(Import) /\ Len(d) = n + 1
      /\ \A j \in 1 .. n : d[j] = deps[p][j]
      /\ d[n + 1] = imports[p][n + 1]
  BY <1>1, <1>2
<1>4. deps' = [deps EXCEPT ![p] = d]
  OBVIOUS
<1> HIDE DEF d
<1>5. deps' \in [Module -> Seq(Import)] /\ deps'[p] = d /\ \A m \in Module : m # p => deps'[m] = deps[m]
  BY <1>1, <1>3, <1>4
<1>6. ASSUME NEW m \in Module
      PROVE  /\ Len(deps'[m]) <= Len(imports[m])
             /\ \A j \in 1 .. Len(deps'[m]) : deps'[m][j] = imports[m][j] /\ Passed(m, j)
  <2>1. CASE m = p
    <3>1. ASSUME NEW j \in 1 .. n + 1
          PROVE  d[j] = imports[p][j] /\ Passed(p, j)
      <4>1. j = n + 1 \/ j \in 1 .. n
        BY <1>1
      <4> QED
        BY <4>1, <1>3 DEF DepsInv, PassedInv
    <3> QED
      BY <2>1, <3>1, <1>3, <1>5
  <2>2. CASE m # p
    BY <2>2, <1>5 DEF DepsInv, PassedInv
  <2> QED
    BY <2>1, <2>2
<1>7. ASSUME NEW m \in Module, NEW j \in 1 .. Len(deps'[m])
      PROVE  Passed(m, j)'
  <2>1. Passed(m, j) /\ imports' = imports /\ hits' = hits
    BY <1>6 DEF files
  <2> QED
    BY <2>1 DEF Passed
<1> QED
  BY <1>3, <1>5, <1>6, <1>7

LEMMA SameReached ==
  ASSUME imports' = imports
  PROVE  Reached' = Reached
  BY DEF Reached

LEMMA SameVerdict ==
  ASSUME imports' = imports, hits' = hits
  PROVE  (Acyclic /\ \A m \in Reached : Sound(m))' <=> (Acyclic /\ \A m \in Reached : Sound(m))
<1>1. Reached' = Reached
  BY SameReached
<1>2. Acyclic' <=> Acyclic
  BY ONLY <1>1, imports' = imports DEF Acyclic
<1>3. (\A m \in Reached : Sound(m))' <=> \A m \in Reached : Sound(m)
  BY ONLY <1>1, imports' = imports, hits' = hits DEF Sound
<1> QED
  BY <1>2, <1>3

LEMMA Before ==
  ASSUME NEW n \in Nat \ {0}, n # 1
  PROVE  n - 1 \in 1 .. n - 1 /\ n - 1 \in 1 .. n /\ n - 1 \in Nat \ {0} /\ n - 1 # n
  OBVIOUS

LEMMA KnownExact ==
  ASSUME ExactInv, Known
  PROVE  ExactInv'
<1> DEFINE n == Len(stack)
           p == Top.mod
<1>0. AtImport /\ stack # <<>> /\ Bad(Top.mod, This) = "none"
  BY DEF Known, AtImport, Running
<1>1. OrderInv'
  BY KnownOrder DEF ExactInv
<1>2. /\ UNCHANGED <<imports, hits, state, order, err>> /\ UNCHANGED files
      /\ deps' = [deps EXCEPT ![p] = Append(@, imports[p][Len(@) + 1])]
      /\ stack' = [stack EXCEPT ![n].at = @ + 1]
  BY DEF Known, AddDep, files
<1>3. /\ n \in Nat \ {0} /\ n \in DOMAIN stack /\ DOMAIN stack = 1 .. n
      /\ Top = stack[n] /\ p \in Module /\ Top.at \in Nat \ {0}
      /\ \A k \in DOMAIN stack : stack[k] \in Frame
  BY <1>0, TopFacts DEF ExactInv, OrderInv
<1>4. /\ DOMAIN stack' = 1 .. n /\ Len(stack') = n
      /\ \A k \in 1 .. n : stack'[k].mod = stack[k].mod
      /\ \A k \in 1 .. n - 1 : stack'[k] = stack[k]
      /\ stack'[n].at = stack[n].at + 1
  <2>1. stack'[n] = [stack[n] EXCEPT !.at = @ + 1]
    BY <1>3, <1>2
  <2>2. stack'[n].mod = stack[n].mod /\ stack'[n].at = stack[n].at + 1
    BY <2>1, <1>3 DEF Frame
  <2>3. \A k \in 1 .. n - 1 : stack'[k] = stack[k]
    BY <1>3, <1>2
  <2>4. DOMAIN stack' = 1 .. n
    BY <1>3, <1>2
  <2>5. Len(stack') = n
    BY <1>1, <2>4, <1>3 DEF OrderInv, LoadType
  <2>6. \A k \in 1 .. n : k = n \/ k \in 1 .. n - 1
    BY <1>3, LastOrBefore
  <2> QED
    BY <2>2, <2>3, <2>4, <2>5, <2>6
<1>5. /\ Len(deps[p]) = Top.at - 1 /\ Top.at \in 1 .. Len(imports[p])
      /\ Passed(p, Top.at)
      /\ state[p] = 1
  BY <1>0, ThisFacts, GoodImport
<1>6. Len(deps[p]) + 1 = Top.at
  BY <1>5, <1>3
<1>7. /\ deps' \in [Module -> Seq(Import)]
      /\ \A m \in Module : m # p => deps'[m] = deps[m]
      /\ Len(deps'[p]) = Top.at
      /\ \A m \in Module :
           /\ Len(deps'[m]) <= Len(imports[m])
           /\ \A j \in 1 .. Len(deps'[m]) : deps'[m][j] = imports[m][j]
           /\ \A j \in 1 .. Len(deps'[m]) : Passed(m, j)'
  <2>1. DepsInv /\ PassedInv /\ LoadType /\ LoadType'
    BY <1>1 DEF ExactInv, OrderInv
  <2>2. Len(deps[p]) + 1 <= Len(imports[p]) /\ Passed(p, Len(deps[p]) + 1)
    BY <1>5, <1>6
  <2> HIDE DEF p
  <2> QED
    BY <2>1, <2>2, <1>2, <1>3, <1>6, OneMoreDep
<1> HIDE DEF p, n
<1>8. DepsInv'
  <2>1. ASSUME NEW m \in Module, state[m] # 1
        PROVE  deps'[m] = deps[m]
    BY <2>1, <1>5, <1>7
  <2>2. ASSUME NEW m \in Module
        PROVE  /\ state[m] = 2 => Len(deps'[m]) = Len(imports[m])
               /\ state[m] = 0 => Len(deps'[m]) = 0
    BY <2>1 DEF ExactInv, DepsInv
  <2>3. ASSUME NEW m \in Module, state[m] = 1
        PROVE  \E k \in DOMAIN stack' : stack'[k].mod = m
    BY <2>3, <1>3, <1>4 DEF ExactInv, DepsInv
  <2>4. ASSUME NEW k \in DOMAIN stack'
        PROVE  Len(deps'[stack'[k].mod]) = stack'[k].at - 1
    <3>1. CASE k = n
      BY <3>1, <1>3, <1>4, <1>7 DEF p
    <3>2. CASE k \in 1 .. n - 1
      <4>1. stack'[k] = stack[k] /\ k \in DOMAIN stack /\ k # n
        BY <3>2, <1>3, <1>4
      <4>2. stack[k].mod # p /\ stack[k].mod \in Module
        BY <4>1, <1>3 DEF ExactInv, OrderInv, PathInv, Frame, p
      <4> QED
        BY <4>1, <4>2, <1>7 DEF ExactInv, DepsInv
    <3> QED
      BY <3>1, <3>2, <1>4, <1>3, LastOrBefore
  <2> QED
    BY <2>2, <2>3, <2>4, <1>2, <1>7 DEF DepsInv
<1>9. PassedInv'
  <2>1. \A k \in 1 .. Len(stack') - 1 : k \in 1 .. n - 1 /\ stack'[k] = stack[k]
    BY <1>4
  <2>2. \A k \in 1 .. n - 1 : Passed(stack[k].mod, stack[k].at)
    BY DEF ExactInv, PassedInv, n
  <2>3. imports' = imports /\ hits' = hits
    BY <1>2
  <2>4. \A k \in 1 .. Len(stack') - 1 : Passed(stack[k].mod, stack[k].at)'
    BY ONLY <2>1, <2>2, <2>3 DEF Passed
  <2>5. hits \in [Module -> 0 .. 2]
    BY DEF ExactInv, PassedInv
  <2>6. \A m \in Module : \A j \in 1 .. Len(deps'[m]) : Passed(m, j)'
    BY <1>7
  <2> QED
    BY ONLY <2>3, <2>4, <2>5, <2>6 DEF PassedInv
<1>10. LoadedInv'
  <2>1. Reached' = Reached
    BY <1>2, SameReached
  <2>2. stack # <<>> /\ stack' # <<>> /\ stack'[1].mod = stack[1].mod
    BY <1>0, <1>3, <1>4
  <2> QED
    BY <2>1, <2>2, <1>2 DEF ExactInv, LoadedInv
<1>11. Refused'
  <2>1. err = "none"
    BY <1>0 DEF AtImport, Running
  <2> QED
    BY <2>1, <1>2 DEF Refused
<1> QED
  BY <1>1, <1>8, <1>9, <1>10, <1>11 DEF ExactInv

LEMMA EnterExact ==
  ASSUME ExactInv, Enter
  PROVE  ExactInv'
<1> DEFINE n == Len(stack)
           d == This.mod
<1>0. AtImport /\ stack # <<>> /\ Bad(Top.mod, This) = "none" /\ state[d] = 0
  BY DEF Enter, AtImport, Running
<1>1. OrderInv'
  BY EnterOrder DEF ExactInv
<1>2. /\ UNCHANGED <<imports, hits, deps, order, err>>
      /\ state' = [state EXCEPT ![d] = 1]
      /\ stack' = Append(stack, [mod |-> d, at |-> 1])
  BY DEF Enter, Push, files
<1>3. /\ n \in Nat \ {0} /\ n \in DOMAIN stack /\ DOMAIN stack = 1 .. n
      /\ Top = stack[n] /\ d \in Module /\ d \in Reached
      /\ stack \in Seq(Frame) /\ state \in [Module -> 0 .. 2]
      /\ [mod |-> d, at |-> 1] \in Frame
  <2>1. d \in Module /\ d \in Reached
    BY <1>0, ThisFacts
  <2> QED
    BY <2>1, <1>0, TopFacts DEF ExactInv, OrderInv, LoadType, Frame
<1>4. Passed(Top.mod, Top.at) /\ hits[d] = 1
  BY <1>0, GoodImport
<1> HIDE DEF d
<1>5. /\ DOMAIN stack' = 1 .. n + 1 /\ Len(stack') = n + 1
      /\ \A k \in 1 .. n : stack'[k] = stack[k]
      /\ stack'[n + 1] = [mod |-> d, at |-> 1]
  BY <1>2, <1>3
<1>6. state'[d] = 1 /\ \A m \in Module : m # d => state'[m] = state[m]
  BY <1>2, <1>3
<1>7. Len(deps[d]) = 0
  BY <1>0, <1>3 DEF ExactInv, DepsInv, d
<1> HIDE DEF n
<1>8. DepsInv'
  <2>1. ASSUME NEW m \in Module
        PROVE  /\ state'[m] = 2 => Len(deps[m]) = Len(imports[m])
               /\ state'[m] = 0 => Len(deps[m]) = 0
    BY <1>6 DEF ExactInv, DepsInv
  <2>2. ASSUME NEW m \in Module, state'[m] = 1
        PROVE  \E k \in DOMAIN stack' : stack'[k].mod = m
    <3>1. CASE m = d
      BY <3>1, <1>3, <1>5
    <3>2. CASE m # d
      <4>1. PICK k \in DOMAIN stack : stack[k].mod = m
        BY <3>2, <2>2, <1>6 DEF ExactInv, DepsInv
      <4> QED
        BY <4>1, <1>3, <1>5
    <3> QED
      BY <3>1, <3>2
  <2>3. ASSUME NEW k \in DOMAIN stack'
        PROVE  Len(deps[stack'[k].mod]) = stack'[k].at - 1
    <3>1. CASE k = n + 1
      BY <3>1, <1>5, <1>7
    <3>2. CASE k \in 1 .. n
      BY <3>2, <1>3, <1>5 DEF ExactInv, DepsInv
    <3> QED
      BY <3>1, <3>2, <1>3, <1>5
  <2>4. \A m \in Module :
          /\ Len(deps[m]) <= Len(imports[m])
          /\ \A j \in 1 .. Len(deps[m]) : deps[m][j] = imports[m][j]
    BY DEF ExactInv, DepsInv
  <2>5. deps \in [Module -> Seq(Import)]
    BY DEF ExactInv, DepsInv
  <2> QED
    BY <2>1, <2>2, <2>3, <2>4, <2>5, <1>2 DEF DepsInv
<1>9. PassedInv'
  <2>1. ASSUME NEW k \in 1 .. n
        PROVE  Passed(stack[k].mod, stack[k].at)
    <3>1. CASE k = n
      BY <3>1, <1>3, <1>4
    <3>2. CASE k \in 1 .. n - 1
      BY <3>2 DEF ExactInv, PassedInv, n
    <3> QED
      BY <3>1, <3>2, <1>3, LastOrBefore
  <2>2. \A k \in 1 .. Len(stack') - 1 : k \in 1 .. n /\ stack'[k] = stack[k]
    BY <1>3, <1>5
  <2>3. imports' = imports /\ hits' = hits /\ deps' = deps
    BY <1>2
  <2>4. \A k \in 1 .. Len(stack') - 1 : Passed(stack[k].mod, stack[k].at)'
    BY ONLY <2>1, <2>2, <2>3 DEF Passed
  <2>5. /\ hits \in [Module -> 0 .. 2]
        /\ \A m \in Module : \A j \in 1 .. Len(deps[m]) : Passed(m, j)
    BY DEF ExactInv, PassedInv
  <2>6. \A m \in Module : \A j \in 1 .. Len(deps[m]) : Passed(m, j)'
    BY ONLY <2>3, <2>5 DEF Passed
  <2> QED
    BY ONLY <2>3, <2>4, <2>5, <2>6 DEF PassedInv
<1>10. LoadedInv'
  <2>1. Reached' = Reached
    BY <1>2, SameReached
  <2>2. stack # <<>> /\ stack' # <<>> /\ stack'[1].mod = stack[1].mod
    BY <1>0, <1>3, <1>5
  <2>3. ASSUME NEW m \in Module, state'[m] # 0
        PROVE  m \in Reached /\ (m # Entry => hits[m] # 0)
    <3>1. CASE m = d
      BY <3>1, <1>3, <1>4
    <3>2. CASE m # d
      BY <3>2, <2>3, <1>6 DEF ExactInv, LoadedInv
    <3> QED
      BY <3>1, <3>2
  <2> QED
    BY <2>1, <2>2, <2>3, <1>2 DEF ExactInv, LoadedInv
<1>11. Refused'
  <2>1. err = "none"
    BY <1>0 DEF AtImport, Running
  <2> QED
    BY <2>1, <1>2 DEF Refused
<1> QED
  BY <1>1, <1>8, <1>9, <1>10, <1>11 DEF ExactInv

LEMMA LeaveExact ==
  ASSUME ExactInv, Leave
  PROVE  ExactInv'
<1> DEFINE n == Len(stack)
           m == Top.mod
           p == stack[n - 1].mod
<1>0. stack # <<>> /\ err = "none"
  BY DEF Leave, Running
<1>1. OrderInv'
  BY LeaveOrder DEF ExactInv
<1>2. /\ UNCHANGED <<imports, hits, err>> /\ UNCHANGED files
      /\ state' = [state EXCEPT ![m] = 2]
      /\ n = 1 => stack' = <<>> /\ deps' = deps
      /\ n # 1 => /\ stack' = [Front(stack) EXCEPT ![Len(Front(stack))].at = @ + 1]
                  /\ deps' = [deps EXCEPT ![p] = Append(@, imports[p][Len(@) + 1])]
  BY DEF Leave, AddDep, files
<1>3. /\ n \in Nat \ {0} /\ n \in DOMAIN stack /\ DOMAIN stack = 1 .. n
      /\ Top = stack[n] /\ m \in Module /\ Top.at \in Nat \ {0}
      /\ \A k \in DOMAIN stack : stack[k] \in Frame
      /\ stack \in Seq(Frame) /\ state \in [Module -> 0 .. 2]
  BY <1>0, TopFacts DEF ExactInv, OrderInv, LoadType
<1>4. Len(deps[m]) = Len(imports[m]) /\ state[m] = 1
  <2>1. ~(Top.at <= Len(imports[m])) /\ Top.at <= Len(imports[m]) + 1
    BY <1>0, <1>3 DEF Leave, AtImport, Running, ExactInv, OrderInv, ProgressInv
  <2>2. Len(deps[m]) = Top.at - 1 /\ state[m] = 1
    BY <1>3 DEF ExactInv, DepsInv, OrderInv, PathInv
  <2> QED
    BY <2>1, <2>2, <1>3, ImportFacts DEF ExactInv, OrderInv
<1>5. \A x \in Module : state'[x] = IF x = m THEN 2 ELSE state[x]
  BY <1>2, <1>3
<1>6. Reached' = Reached
  BY <1>2, SameReached
<1>7. Refused'
  BY <1>0, <1>2 DEF Refused
<1> HIDE DEF m
<1>8. CASE n = 1
  <2>1. stack' = <<>> /\ deps' = deps /\ m = Entry
    BY <1>8, <1>0, <1>2, <1>3 DEF ExactInv, LoadedInv, m
  <2>2. ASSUME NEW x \in Module
        PROVE  /\ state'[x] = 2 => Len(deps[x]) = Len(imports[x])
               /\ state'[x] # 1
               /\ state'[x] = 0 => Len(deps[x]) = 0
    <3>1. state[x] = 1 => x = m
      BY <1>8, <1>3 DEF ExactInv, DepsInv, m
    <3> QED
      BY <3>1, <1>4, <1>5 DEF ExactInv, DepsInv
  <2>3. DepsInv'
    <3>1. /\ deps \in [Module -> Seq(Import)]
          /\ \A x \in Module :
               /\ Len(deps[x]) <= Len(imports[x])
               /\ \A j \in 1 .. Len(deps[x]) : deps[x][j] = imports[x][j]
      BY DEF ExactInv, DepsInv
    <3>2. DOMAIN stack' = {}
      BY <2>1
    <3> QED
      BY <3>1, <3>2, <2>1, <2>2, <1>2 DEF DepsInv
  <2>4. PassedInv'
    <3>1. imports' = imports /\ hits' = hits /\ deps' = deps
      BY <1>2, <2>1
    <3>2. /\ hits \in [Module -> 0 .. 2]
          /\ \A x \in Module : \A j \in 1 .. Len(deps[x]) : Passed(x, j)
      BY DEF ExactInv, PassedInv
    <3>3. \A x \in Module : \A j \in 1 .. Len(deps[x]) : Passed(x, j)'
      BY ONLY <3>1, <3>2 DEF Passed
    <3>4. 1 .. Len(stack') - 1 = {}
      BY <2>1
    <3> QED
      BY ONLY <3>1, <3>2, <3>3, <3>4 DEF PassedInv
  <2>5. LoadedInv'
    BY <2>1, <1>2, <1>4, <1>5, <1>6, EntryAssumption DEF ExactInv, LoadedInv
  <2> QED
    BY <2>3, <2>4, <2>5, <1>1, <1>7 DEF ExactInv
<1>9. CASE n # 1
  <2> DEFINE st == Front(stack)
  <2>0. n - 1 \in 1 .. n - 1 /\ n - 1 \in 1 .. n /\ n - 1 \in Nat \ {0} /\ n - 1 # n
    BY <1>9, <1>3, Before
  <2>1. st \in Seq(Frame) /\ Len(st) = n - 1 /\ \A k \in 1 .. n - 1 : st[k] = stack[k]
    <3>1. st = [k \in 1 .. n - 1 |-> stack[k]]
      BY DEF Front
    <3>0. n \in Nat \ {0}
      BY <1>3
    <3> HIDE DEF n, st
    <3>2. n - 1 \in Nat /\ \A k \in 1 .. n - 1 : k \in 1 .. n
      BY <3>0
    <3> QED
      BY <3>1, <3>2, <1>3
  <2>2. stack' = [st EXCEPT ![n - 1].at = @ + 1]
    BY <1>2, <1>9, <2>1
  <2> HIDE DEF st
  <2>3. /\ DOMAIN stack' = 1 .. n - 1 /\ Len(stack') = n - 1
        /\ \A k \in 1 .. n - 1 : stack'[k].mod = stack[k].mod
        /\ \A k \in 1 .. n - 2 : stack'[k] = stack[k]
        /\ stack'[n - 1].at = stack[n - 1].at + 1
    <3>1. DOMAIN stack' = 1 .. n - 1
      BY <2>0, <2>1, <2>2
    <3>2. stack'[n - 1] = [stack[n - 1] EXCEPT !.at = @ + 1] /\ stack[n - 1] \in Frame
      <4> HIDE DEF n
      <4>1. n - 1 \in DOMAIN st /\ st[n - 1] = stack[n - 1]
        BY <2>0, <2>1
      <4> QED
        BY <4>1, <2>0, <2>2, <1>3
    <3>3. stack'[n - 1].mod = stack[n - 1].mod /\ stack'[n - 1].at = stack[n - 1].at + 1
      BY <3>2 DEF Frame
    <3>4. \A k \in 1 .. n - 2 : stack'[k] = stack[k]
      BY <2>0, <2>1, <2>2, <1>3
    <3>5. \A k \in 1 .. n - 1 : k = n - 1 \/ k \in 1 .. n - 2
      BY <1>3, LastOrNot
    <3>6. Len(stack') = n - 1
      BY <3>1, <1>1, <2>0 DEF OrderInv, LoadType
    <3> QED
      BY <3>1, <3>3, <3>4, <3>5, <3>6
  <2>4. /\ p \in Module /\ state[p] = 1 /\ p # m
        /\ Len(deps[p]) = stack[n - 1].at - 1 /\ stack[n - 1].at \in Nat \ {0}
        /\ stack[n - 1].at <= Len(imports[p])
        /\ Passed(p, stack[n - 1].at)
    <3>1. /\ p \in Module /\ stack[n - 1].at \in Nat \ {0} /\ state[p] = 1 /\ p # m
      BY <2>0, <1>3 DEF ExactInv, OrderInv, PathInv, Frame, m
    <3>2. Len(deps[p]) = stack[n - 1].at - 1
      BY <2>0, <1>3 DEF ExactInv, DepsInv
    <3>3. stack[n - 1].at <= Len(imports[p]) /\ Passed(p, stack[n - 1].at)
      BY <2>0 DEF ExactInv, OrderInv, ProgressInv, PassedInv
    <3> QED
      BY <3>1, <3>2, <3>3
  <2>5. /\ deps' \in [Module -> Seq(Import)]
        /\ \A x \in Module : x # p => deps'[x] = deps[x]
        /\ Len(deps'[p]) = stack[n - 1].at
        /\ \A x \in Module :
             /\ Len(deps'[x]) <= Len(imports[x])
             /\ \A j \in 1 .. Len(deps'[x]) : deps'[x][j] = imports[x][j]
             /\ \A j \in 1 .. Len(deps'[x]) : Passed(x, j)'
    <3>1. DepsInv /\ PassedInv /\ LoadType /\ LoadType'
      BY <1>1 DEF ExactInv, OrderInv
    <3>2. Len(deps[p]) + 1 = stack[n - 1].at
      BY <2>4
    <3>3. Len(deps[p]) + 1 <= Len(imports[p]) /\ Passed(p, Len(deps[p]) + 1)
      BY <3>2, <2>4
    <3>4. deps' = [deps EXCEPT ![p] = Append(@, imports[p][Len(@) + 1])] /\ UNCHANGED files
      BY <1>2, <1>9
    <3>5. p \in Module
      BY <2>4
    <3> HIDE DEF p
    <3> QED
      BY <3>1, <3>2, <3>3, <3>4, <3>5, OneMoreDep
  <2> HIDE DEF p, n
  <2>6. DepsInv'
    <3>1. ASSUME NEW x \in Module
          PROVE  /\ state'[x] = 2 => Len(deps'[x]) = Len(imports[x])
                 /\ state'[x] = 0 => Len(deps'[x]) = 0
      <4>1. CASE x = m
        BY <4>1, <1>4, <1>5, <2>4, <2>5
      <4>2. CASE x = p
        BY <4>2, <1>5, <2>4
      <4>3. CASE x # m /\ x # p
        BY <4>3, <1>5, <2>5 DEF ExactInv, DepsInv
      <4> QED
        BY <4>1, <4>2, <4>3
    <3>2. ASSUME NEW x \in Module, state'[x] = 1
          PROVE  \E k \in DOMAIN stack' : stack'[k].mod = x
      <4>1. x # m /\ state[x] = 1
        BY <3>2, <1>5
      <4>2. PICK k \in DOMAIN stack : stack[k].mod = x
        BY <4>1 DEF ExactInv, DepsInv
      <4>3. k # n
        BY <4>1, <4>2, <1>3 DEF m
      <4>4. k \in 1 .. n - 1
        BY <4>2, <4>3, <1>3, LastOrBefore
      <4> QED
        BY <4>2, <4>4, <2>3
    <3>3. ASSUME NEW k \in DOMAIN stack'
          PROVE  Len(deps'[stack'[k].mod]) = stack'[k].at - 1
      <4>1. CASE k = n - 1
        BY <4>1, <2>0, <2>3, <2>4, <2>5 DEF p
      <4>2. CASE k \in 1 .. n - 2
        <5>1. stack'[k] = stack[k] /\ k \in DOMAIN stack /\ k # n - 1
          BY <4>2, <2>0, <2>3, <1>3
        <5>2. stack[k].mod # p /\ stack[k].mod \in Module
          BY <5>1, <1>3, <2>0 DEF ExactInv, OrderInv, PathInv, Frame, p
        <5> QED
          BY <5>1, <5>2, <2>5 DEF ExactInv, DepsInv
      <4> QED
        BY <4>1, <4>2, <1>3, <2>3, LastOrNot
    <3> QED
      BY <3>1, <3>2, <3>3, <1>2, <2>5 DEF DepsInv
  <2>7. PassedInv'
    <3>1. \A k \in 1 .. Len(stack') - 1 : k \in 1 .. n - 2 /\ k \in 1 .. n - 1 /\ stack'[k] = stack[k]
      BY <2>3, <2>0, <1>3
    <3>2. \A k \in 1 .. n - 1 : Passed(stack[k].mod, stack[k].at)
      BY DEF ExactInv, PassedInv, n
    <3>3. imports' = imports /\ hits' = hits
      BY <1>2
    <3>4. \A k \in 1 .. Len(stack') - 1 : Passed(stack[k].mod, stack[k].at)'
      BY ONLY <3>1, <3>2, <3>3 DEF Passed
    <3>5. hits \in [Module -> 0 .. 2]
      BY DEF ExactInv, PassedInv
    <3>6. \A x \in Module : \A j \in 1 .. Len(deps'[x]) : Passed(x, j)'
      BY <2>5
    <3> QED
      BY ONLY <3>3, <3>4, <3>5, <3>6 DEF PassedInv
  <2>8. LoadedInv'
    <3>1. stack # <<>> /\ stack' # <<>> /\ stack'[1].mod = stack[1].mod
      BY <1>0, <2>0, <2>3
    <3>2. \A x \in Module : state'[x] # 0 => x \in Reached /\ (x # Entry => hits[x] # 0)
      BY <1>4, <1>5 DEF ExactInv, LoadedInv
    <3> QED
      BY <3>1, <3>2, <1>2, <1>6 DEF ExactInv, LoadedInv
  <2> QED
    BY <2>6, <2>7, <2>8, <1>1, <1>7 DEF ExactInv
<1> QED
  BY <1>8, <1>9

LEMMA FailExact ==
  ASSUME ExactInv, Fail
  PROVE  ExactInv'
<1>1. UNCHANGED <<imports, hits, state, deps, stack, order>>
  BY DEF Fail, files
<1>2. OrderInv'
  BY RestOrder DEF ExactInv
<1>3. ~(Acyclic /\ \A m \in Reached : Sound(m))
  BY BadImport DEF Fail
<1>4. Refused'
  BY <1>1, <1>3, SameVerdict DEF Refused
<1>5. DepsInv' /\ LoadedInv'
  BY <1>1, SameReached DEF ExactInv, DepsInv, LoadedInv
<1>6. PassedInv'
  BY <1>1 DEF ExactInv, PassedInv, Passed
<1> QED
  BY <1>2, <1>4, <1>5, <1>6 DEF ExactInv

LEMMA RestExact ==
  ASSUME ExactInv, UNCHANGED vars
  PROVE  ExactInv'
<1>1. UNCHANGED <<imports, hits, state, deps, stack, order, err>>
  BY DEF vars, files
<1>2. OrderInv'
  BY RestOrder DEF ExactInv
<1>3. Refused'
  BY <1>1, SameVerdict DEF ExactInv, Refused
<1>4. DepsInv' /\ LoadedInv'
  BY <1>1, SameReached DEF ExactInv, DepsInv, LoadedInv
<1>5. PassedInv'
  BY <1>1 DEF ExactInv, PassedInv, Passed
<1> QED
  BY <1>2, <1>3, <1>4, <1>5 DEF ExactInv

LEMMA NextExact ==
  ASSUME ExactInv, [Next]_vars
  PROVE  ExactInv'
  BY KnownExact, EnterExact, LeaveExact, FailExact, RestExact DEF Next, Finished

\* When the path is empty, the list is what the entry reaches, and the place
\* in it is the rank of a module.
LEMMA Accepted ==
  ASSUME ExactInv, err = "none", stack = <<>>
  PROVE  Acyclic /\ (\A m \in Reached : Sound(m)) /\ Range(order) = Reached
<1> USE DEF ExactInv, OrderInv
<1>1. /\ order \in Seq(Module) /\ Len(order) \in Nat /\ DOMAIN order = 1 .. Len(order)
      /\ \A k \in 1 .. Len(order) : order[k] \in Module
  BY DEF LoadType
<1>2. \A m \in Module : state[m] = 2 <=> m \in Range(order)
  BY DEF Listed, Range
<1>3. Range(order) \subseteq Module
  BY <1>1 DEF Range
<1>4. Range(order) \subseteq Reached
  BY <1>2, <1>3 DEF LoadedInv
<1>5. Reached \subseteq Range(order)
  <2>1. Entry \in Range(order)
    BY <1>2, EntryAssumption DEF LoadedInv
  <2>2. ASSUME NEW m \in Range(order), NEW j \in 1 .. Len(imports[m])
        PROVE  imports[m][j].mod \in Range(order)
    <3>1. PICK k \in DOMAIN order : order[k] = m
      BY DEF Range
    <3>2. m \in Module
      BY <1>3
    <3>3. DOMAIN imports[m] = 1 .. Len(imports[m])
      BY <3>2, ImportFacts
    <3>4. imports[m][j] \in Range(imports[m])
      BY <3>3 DEF Range
    <3>5. PICK x \in 1 .. k - 1 : order[x] = imports[m][j].mod
      BY <3>1, <3>4 DEF InOrder
    <3>6. x \in DOMAIN order
      BY <3>1, <3>5, <1>1
    <3> QED
      BY <3>5, <3>6 DEF Range
  <2> QED
    BY <2>1, <2>2, <1>3, ReachedFacts
<1>6. Range(order) = Reached
  BY <1>4, <1>5
<1>7. ASSUME NEW m \in Reached
      PROVE  Sound(m)
  <2>1. m \in Module /\ state[m] = 2
    BY <1>2, <1>3, <1>6
  <2>2. Len(deps[m]) = Len(imports[m])
    BY <2>1 DEF DepsInv
  <2>3. /\ Len(imports[m]) \in Nat /\ DOMAIN imports[m] = 1 .. Len(imports[m])
        /\ \A j \in 1 .. Len(imports[m]) : Passed(m, j)
    BY <2>1, <2>2, ImportFacts DEF PassedInv
  <2>4. \A i \in Range(imports[m]) : hits[i.mod] = 1
    BY <2>3 DEF Range, Passed
  <2>5. ASSUME NEW j \in DOMAIN imports[m], NEW k \in DOMAIN imports[m], j # k
        PROVE  imports[m][j].mod # imports[m][k].mod /\ imports[m][j].call # imports[m][k].call
    <3>1. CASE j < k
      <4>1. j \in 1 .. k - 1
        BY <3>1, <2>3
      <4> QED
        BY <4>1, <2>3 DEF Passed
    <3>2. CASE k < j
      <4>1. k \in 1 .. j - 1
        BY <3>2, <2>3
      <4> QED
        BY <4>1, <2>3 DEF Passed
    <3> QED
      BY <3>1, <3>2, <2>3, <2>5
  <2> QED
    BY <2>4, <2>5 DEF Sound
<1>8. IsFiniteSet(Reached) /\ Cardinality(Reached) = Len(order)
  <2>1. order \in Bijection(1 .. Len(order), Reached)
    <3>1. order \in [1 .. Len(order) -> Reached]
      BY <1>1, <1>6 DEF Range
    <3>2. \A j, k \in 1 .. Len(order) : order[j] = order[k] => j = k
      BY <1>1 DEF InOrder, IsInjective
    <3>3. \A m \in Reached : \E k \in 1 .. Len(order) : order[k] = m
      BY <1>1, <1>6 DEF Range
    <3> QED
      BY <3>1, <3>2, <3>3, Fun_IsBij
  <2>2. ExistsBijection(1 .. Len(order), Reached)
    BY <2>1 DEF ExistsBijection
  <2>3. Reached \subseteq Module
    BY <1>3, <1>6
  <2> QED
    BY <2>2, <2>3, <1>1, EntryAssumption, FS_Subset, FS_CountingElements
<1>9. Acyclic
  <2> DEFINE place(m) == CHOOSE k \in 1 .. Len(order) : order[k] = m
             rank == [m \in Reached |-> place(m)]
  <2>1. \A m \in Reached : place(m) \in 1 .. Len(order) /\ order[place(m)] = m
    BY <1>1, <1>6 DEF Range
  <2>2. rank \in [Reached -> 1 .. Cardinality(Reached)]
    BY <2>1, <1>8
  <2>3. ASSUME NEW m \in Reached, NEW i \in Range(imports[m])
        PROVE  rank[i.mod] < rank[m]
    <3> DEFINE k == place(m)
    <3>1. k \in 1 .. Len(order) /\ order[k] = m
      BY <2>1
    <3>2. PICK x \in 1 .. k - 1 : order[x] = i.mod
      BY <3>1, <1>1 DEF InOrder
    <3>3. x \in 1 .. Len(order)
      BY <3>1, <3>2, <1>1
    <3>4. i.mod \in Reached
      BY <3>2, <3>3, <1>1, <1>6 DEF Range
    <3>5. place(i.mod) = x
      BY <3>2, <3>3, <3>4, <2>1, <1>1 DEF InOrder, IsInjective
    <3>6. x < k
      BY <3>1, <3>2, <1>1
    <3> HIDE DEF place
    <3>7. rank[i.mod] = place(i.mod) /\ rank[m] = place(m)
      BY <3>4
    <3> QED
      BY <3>5, <3>6, <3>7
  <2> HIDE DEF rank
  <2> QED
    BY <2>2, <2>3 DEF Acyclic
<1> QED
  BY <1>6, <1>7, <1>9

LEMMA LoaderInv == Spec => []ExactInv
  BY InitFresh, InitExact, NextExact, PTL DEF Spec

\* Whatever a program imports, the modules the compiler works through come
\* after the modules they import, and none comes twice (load, load_modules).
THEOREM LoadedInOrder == Spec => []InOrder
<1>1. ExactInv => InOrder
  BY DEF ExactInv, OrderInv
<1> QED
  BY LoaderInv, <1>1, PTL

\* Whatever a program imports, wherever its modules are found: the loader
\* refuses it exactly when an import is bad or the imports go round in a
\* circle, and what it hands the compiler is what the entry reaches.
THEOREM AcceptsExactly == Spec => []Exact
<1>1. ExactInv => Exact
  BY Accepted DEF ExactInv, Refused, Exact
<1> QED
  BY LoaderInv, <1>1, PTL

-----------------------------------------------------------------------------
Working == {"runs", "done", "failed"}

BuildType ==
  /\ step \in {"load", "jobs", "link", "clean", "exit"}
  /\ src \in 1 .. Sources
  /\ ll \in [Module -> 0 .. Broken] /\ obj \in [Module -> 0 .. Broken]
  /\ job \in [Module -> Working \cup {"due", "got"}]

\* The modules whose process has been started and has not been waited for.
Busy == {m \in All : job[m] \in Working}

\* The table of jobs: the first ones are started, the counters count, and what
\* has been compiled without failing is there.
Table ==
  /\ started \in 0 .. Len(order) /\ done \in Nat /\ running \in Nat
  /\ done + running = started
  /\ running = Cardinality(Busy)
  /\ \A i \in 1 .. Len(order) :
       IF i <= started THEN job[order[i]] # "due" ELSE job[order[i]] = "due"
  /\ \A m \in All :
       /\ ll[m] = src
       /\ job[m] = "done" => obj[m] = src
       /\ job[m] = "got" /\ m \notin rc => obj[m] = src

\* Every job is over.
Idle == \A m \in All : job[m] = "got"

BuildInv ==
  /\ BuildType
  /\ orphans = {}
  /\ step \in {"jobs", "link"} => err = "none" /\ stack = <<>>
  /\ step = "jobs" => Table
  /\ step = "link" => Idle /\ \A m \in All : obj[m] = src
  /\ step = "clean" /\ code = 0 => Idle /\ exe = {src}
  /\ step = "exit" /\ code = 0 =>
       Idle /\ exe = {src} /\ \A m \in All : obj[m] = None /\ ll[m] = None

LEMMA InitBuild ==
  ASSUME DriverInit, Orphans = {}
  PROVE  BuildInv
<1>1. None \in 0 .. Broken /\ 1 \in 1 .. Sources
  BY JobsAssumption DEF None, Broken
<1>2. BuildType
  BY <1>1 DEF DriverInit, BuildType
<1> QED
  BY <1>2 DEF DriverInit, BuildInv

\* What is known of the list and the numbers while jobs are run.
LEMMA JobFacts ==
  ASSUME ExactInv, BuildInv, step = "jobs"
  PROVE  /\ Table
         /\ order \in Seq(Module) /\ Len(order) \in Nat /\ DOMAIN order = 1 .. Len(order)
         /\ \A i \in 1 .. Len(order) : order[i] \in All /\ order[i] \in Module
         /\ \A i, k \in 1 .. Len(order) : order[i] = order[k] => i = k
         /\ \A m \in All : \E i \in 1 .. Len(order) : order[i] = m
         /\ All \subseteq Module /\ IsFiniteSet(Busy) /\ Busy \subseteq All
         /\ done \in Nat /\ running \in Nat /\ started \in Nat
         /\ None \in 0 .. Broken /\ src \in 0 .. Broken /\ Jobs \in Nat \ {0}
<1>1. Table
  BY DEF BuildInv
<1>2. order \in Seq(Module) /\ IsInjective(order)
  BY DEF ExactInv, OrderInv, LoadType, InOrder
<1>3. Len(order) \in Nat /\ DOMAIN order = 1 .. Len(order) /\ \A i \in 1 .. Len(order) : order[i] \in Module
  BY <1>2
<1>4. /\ \A i \in 1 .. Len(order) : order[i] \in All
      /\ \A m \in All : \E i \in 1 .. Len(order) : order[i] = m
  BY <1>3 DEF All, Range
<1>5. All \subseteq Module
  BY <1>3, <1>4
<1>6. Busy \subseteq All /\ IsFiniteSet(Busy)
  <2>1. Busy \subseteq All /\ Busy \subseteq Module
    BY <1>5 DEF Busy
  <2> QED
    BY <2>1, EntryAssumption, FS_Subset
<1>7. None \in 0 .. Broken /\ src \in 0 .. Broken
  BY JobsAssumption DEF None, Broken, BuildInv, BuildType
<1>8. started \in Nat /\ done \in Nat /\ running \in Nat
  BY <1>1, <1>3 DEF Table
<1> QED
  BY <1>1, <1>2, <1>3, <1>4, <1>5, <1>6, <1>7, <1>8, JobsAssumption DEF IsInjective

LEMMA GenerateBuild ==
  ASSUME ExactInv, BuildInv, Generate
  PROVE  BuildInv'
<1>1. /\ step' = "jobs" /\ err' = "none" /\ stack' = <<>> /\ order' = order /\ orphans' = orphans
      /\ src' = src /\ obj' = obj /\ rc' = {} /\ started' = 0 /\ done' = 0 /\ running' = 0
      /\ ll' = [m \in Module |-> IF m \in All THEN src ELSE ll[m]]
      /\ job' = [m \in Module |-> "due"]
  BY DEF Generate, vars, files, Running
<1>2. order \in Seq(Module) /\ Len(order) \in Nat /\ \A i \in 1 .. Len(order) : order[i] \in Module
  <2>1. order \in Seq(Module)
    BY DEF ExactInv, OrderInv, LoadType
  <2> QED
    BY <2>1
<1>3. DOMAIN order = 1 .. Len(order) /\ All' = All /\ All \subseteq Module
  BY <1>1, <1>2 DEF All, Range
<1>4. src \in 0 .. Broken
  BY JobsAssumption DEF Broken, BuildInv, BuildType
<1>5. BuildType'
  BY <1>1, <1>4 DEF BuildInv, BuildType, Broken
<1>6. Busy' = {}
  BY <1>1, <1>3 DEF Busy, Working
<1>7. Cardinality(Busy') = 0
  BY <1>6, FS_EmptySet
<1>8. Table'
  BY <1>1, <1>2, <1>3, <1>7 DEF Table
<1> QED
  BY <1>1, <1>5, <1>8 DEF BuildInv

\* The next module to start, which no earlier number has.
LEMMA NextModule ==
  ASSUME ExactInv, BuildInv, MayStart
  PROVE  /\ step = "jobs"
         /\ started + 1 \in 1 .. Len(order)
         /\ order[started + 1] \in All /\ order[started + 1] \in Module
         /\ job[order[started + 1]] = "due"
         /\ order[started + 1] \notin Busy
<1>1. step = "jobs" /\ started < Len(order)
  BY DEF MayStart, InLoop
<1>2. started + 1 \in 1 .. Len(order) /\ ~(started + 1 <= started)
  BY <1>1, JobFacts
<1>3. job[order[started + 1]] = "due"
  BY <1>1, <1>2, JobFacts DEF Table
<1> QED
  BY <1>1, <1>2, <1>3, JobFacts DEF Busy, Working

\* The table after job `m`, the next, has begun as `how`.
LEMMA OneMoreStarted ==
  ASSUME ExactInv, BuildInv, MayStart, NEW how, how # "due",
         order' = order, started' = started + 1,
         job' = [job EXCEPT ![order[started + 1]] = how]
  PROVE  /\ started' \in 0 .. Len(order)
         /\ \A i \in 1 .. Len(order) :
              IF i <= started' THEN job'[order[i]] # "due" ELSE job'[order[i]] = "due"
<1> DEFINE m == order[started + 1]
<1>1. started + 1 \in 1 .. Len(order) /\ m \in Module /\ step = "jobs"
  BY NextModule
<1>2. job'[m] = how /\ \A x \in Module : x # m => job'[x] = job[x]
  BY <1>1 DEF BuildInv, BuildType
<1>3. ASSUME NEW i \in 1 .. Len(order)
      PROVE  IF i <= started' THEN job'[order[i]] # "due" ELSE job'[order[i]] = "due"
  <2>1. CASE i = started + 1
    BY <2>1, <1>2
  <2>2. CASE i # started + 1
    <3>1. order[i] # m /\ order[i] \in Module
      BY <2>2, <1>1, JobFacts
    <3>2. i <= started' <=> i <= started
      BY <2>2, <1>1, JobFacts
    <3>3. IF i <= started THEN job[order[i]] # "due" ELSE job[order[i]] = "due"
      BY <1>1, JobFacts DEF Table
    <3> QED
      BY <3>1, <3>2, <3>3, <1>2
  <2> QED
    BY <2>1, <2>2
<1>4. started' \in 0 .. Len(order)
  BY <1>1, JobFacts
<1> QED
  BY <1>3, <1>4

LEMMA SpawnBuild ==
  ASSUME ExactInv, BuildInv, Spawn
  PROVE  BuildInv'
<1> DEFINE m == order[started + 1]
<1>0. MayStart
  BY DEF Spawn
<1>1. /\ step = "jobs" /\ m \in All /\ m \in Module /\ job[m] = "due" /\ m \notin Busy
  BY <1>0, NextModule
<1>2. /\ step' = step /\ err' = err /\ stack' = stack /\ order' = order /\ orphans' = orphans
      /\ src' = src /\ obj' = obj /\ ll' = ll /\ rc' = rc /\ done' = done
      /\ started' = started + 1 /\ running' = running + 1
      /\ job' = [job EXCEPT ![m] = "runs"]
  BY DEF Spawn, vars, files, disk
<1>3. All' = All
  BY <1>2 DEF All, Range
<1>4. job'[m] = "runs" /\ \A x \in Module : x # m => job'[x] = job[x]
  BY <1>1, <1>2 DEF BuildInv, BuildType
<1>5. BuildType'
  BY <1>1, <1>2 DEF BuildInv, BuildType, Working, Broken
<1>6. Busy' = Busy \cup {m}
  BY <1>1, <1>3, <1>4, JobFacts DEF Busy, Working
<1>7. Cardinality(Busy') = running + 1
  <2>1. IsFiniteSet(Busy) /\ running = Cardinality(Busy)
    BY <1>1, JobFacts DEF Table
  <2>2. Cardinality(Busy \cup {m}) = Cardinality(Busy) + 1
    BY <2>1, <1>1, FS_AddElement
  <2> QED
    BY <2>1, <2>2, <1>6
<1>8. \A x \in All :
        /\ ll[x] = src
        /\ job'[x] = "done" => obj[x] = src
        /\ job'[x] = "got" /\ x \notin rc => obj[x] = src
  BY <1>1, <1>4, JobFacts DEF Table
<1>9. Table'
  <2>1. /\ started' \in 0 .. Len(order)
        /\ \A i \in 1 .. Len(order) :
             IF i <= started' THEN job'[order[i]] # "due" ELSE job'[order[i]] = "due"
    BY <1>0, <1>2, OneMoreStarted
  <2>2. done + (running + 1) = started + 1 /\ done \in Nat /\ running + 1 \in Nat
    BY <1>1, JobFacts DEF Table
  <2> QED
    BY <2>1, <2>2, <1>2, <1>3, <1>7, <1>8 DEF Table
<1> QED
  BY <1>1, <1>2, <1>5, <1>9 DEF BuildInv

LEMMA RunHereBuild ==
  ASSUME ExactInv, BuildInv, RunHere
  PROVE  BuildInv'
<1> DEFINE m == order[started + 1]
<1>0. MayStart
  BY DEF RunHere
<1>1. /\ step = "jobs" /\ m \in All /\ m \in Module /\ job[m] = "due" /\ m \notin Busy
  BY <1>0, NextModule
<1>2. /\ step' = step /\ err' = err /\ stack' = stack /\ order' = order /\ orphans' = orphans
      /\ src' = src /\ ll' = ll /\ done' = done + 1
      /\ started' = started + 1 /\ running' = running
      /\ job' = [job EXCEPT ![m] = "got"]
  BY DEF RunHere, vars, files
<1>3. PICK how \in {"done", "failed"}, to \in 0 .. Broken :
        /\ Compiled(m, to, how)
        /\ obj' = [obj EXCEPT ![m] = to]
        /\ rc' = IF how = "failed" THEN rc \cup {m} ELSE rc
  BY DEF RunHere
<1>4. All' = All
  BY <1>2 DEF All, Range
<1>5. /\ job'[m] = "got" /\ \A x \in Module : x # m => job'[x] = job[x]
      /\ obj'[m] = to /\ \A x \in Module : x # m => obj'[x] = obj[x]
  BY <1>1, <1>2, <1>3 DEF BuildInv, BuildType
<1>6. BuildType'
  BY <1>1, <1>2, <1>3 DEF BuildInv, BuildType, Working, Broken
<1>7. Busy' = Busy
  BY <1>1, <1>4, <1>5, JobFacts DEF Busy, Working
<1>8. ASSUME NEW x \in All
      PROVE  /\ ll[x] = src
             /\ job'[x] = "done" => obj'[x] = src
             /\ job'[x] = "got" /\ x \notin rc' => obj'[x] = src
  <2>1. ll[x] = src /\ x \in Module
    BY <1>1, JobFacts DEF Table
  <2>2. CASE x = m
    <3>1. how = "done" => to = ll[m]
      BY <1>3 DEF Compiled
    <3>2. how = "failed" => m \in rc'
      BY <1>3
    <3> QED
      BY <3>1, <3>2, <2>1, <2>2, <1>3, <1>5
  <2>3. CASE x # m
    <3>1. x \notin rc' => x \notin rc
      BY <1>3
    <3> QED
      BY <3>1, <2>1, <2>3, <1>1, <1>5, JobFacts DEF Table
  <2> QED
    BY <2>2, <2>3
<1>9. Table'
  <2>1. /\ started' \in 0 .. Len(order)
        /\ \A i \in 1 .. Len(order) :
             IF i <= started' THEN job'[order[i]] # "due" ELSE job'[order[i]] = "due"
    BY <1>0, <1>2, OneMoreStarted
  <2>2. /\ (done + 1) + running = started + 1 /\ done + 1 \in Nat /\ running \in Nat
        /\ running = Cardinality(Busy)
    BY <1>1, JobFacts DEF Table
  <2> QED
    BY <2>1, <2>2, <1>2, <1>4, <1>7, <1>8 DEF Table
<1> QED
  BY <1>1, <1>2, <1>6, <1>9 DEF BuildInv

LEMMA JobEndsBuild ==
  ASSUME ExactInv, BuildInv, NEW m \in Module, JobEnds(m)
  PROVE  BuildInv'
<1>1. /\ job[m] = "runs"
      /\ UNCHANGED <<step, err, stack, order, orphans, src, ll, rc, done, started, running, exe, code>>
  BY DEF JobEnds, vars, files
<1>2. PICK how \in {"done", "failed"}, to \in 0 .. Broken :
        /\ Compiled(m, to, how)
        /\ obj' = [obj EXCEPT ![m] = to]
        /\ job' = [job EXCEPT ![m] = how]
  BY DEF JobEnds
<1>3. All' = All
  BY <1>1 DEF All, Range
<1>4. /\ job'[m] = how /\ \A x \in Module : x # m => job'[x] = job[x]
      /\ obj'[m] = to /\ \A x \in Module : x # m => obj'[x] = obj[x]
  BY <1>2 DEF BuildInv, BuildType
<1>5. BuildType'
  BY <1>1, <1>2 DEF BuildInv, BuildType, Working, Broken
<1>6. CASE step = "jobs"
  <2>1. All \subseteq Module
    BY <1>6, JobFacts
  <2>2. Busy' = Busy
    BY <2>1, <1>1, <1>3, <1>4 DEF Busy, Working
  <2>3. ASSUME NEW i \in 1 .. Len(order)
        PROVE  IF i <= started THEN job'[order[i]] # "due" ELSE job'[order[i]] = "due"
    <3>1. IF i <= started THEN job[order[i]] # "due" ELSE job[order[i]] = "due"
      BY <1>6, JobFacts DEF Table
    <3>2. order[i] \in Module
      BY <1>6, JobFacts
    <3>3. CASE order[i] = m
      BY <3>1, <3>3, <1>1, <1>4
    <3>4. CASE order[i] # m
      BY <3>1, <3>2, <3>4, <1>4
    <3> QED
      BY <3>3, <3>4
  <2>4. ASSUME NEW x \in All
        PROVE  /\ ll[x] = src
               /\ job'[x] = "done" => obj'[x] = src
               /\ job'[x] = "got" /\ x \notin rc => obj'[x] = src
    <3>1. ll[x] = src
      BY <1>6, JobFacts DEF Table
    <3>2. CASE x = m
      <4>1. how = "done" => to = ll[m]
        BY <1>2 DEF Compiled
      <4> QED
        BY <4>1, <3>1, <3>2, <1>2, <1>4
    <3>3. CASE x # m
      BY <3>3, <2>1, <1>4, <1>6, JobFacts DEF Table
    <3> QED
      BY <3>2, <3>3
  <2>5. Table'
    <3>1. /\ started \in 0 .. Len(order) /\ done \in Nat /\ running \in Nat
          /\ done + running = started /\ running = Cardinality(Busy)
      BY <1>6, JobFacts DEF Table
    <3> QED
      BY <3>1, <2>2, <2>3, <2>4, <1>1, <1>3 DEF Table
  <2> QED
    BY <2>5, <1>1, <1>5, <1>6 DEF BuildInv
<1>7. CASE step # "jobs"
  <2>1. Idle => m \notin All
    BY <1>1 DEF Idle
  <2>2. ASSUME Idle
        PROVE  Idle' /\ \A x \in All : obj'[x] = obj[x]
    <3>1. All \subseteq Module
      BY DEF All, Range, ExactInv, OrderInv, LoadType
    <3>2. \A x \in All : x \in Module /\ x # m
      BY <3>1, <2>1, <2>2
    <3>3. \A x \in All : job'[x] = job[x] /\ obj'[x] = obj[x]
      BY <3>2, <1>4
    <3> QED
      BY <3>3, <1>3, <2>2 DEF Idle
  <2> QED
    BY <2>2, <1>1, <1>3, <1>5, <1>7 DEF BuildInv
<1> QED
  BY <1>6, <1>7

LEMMA WaitBuild ==
  ASSUME ExactInv, BuildInv, Wait
  PROVE  BuildInv'
<1>0. step = "jobs" /\ running > 0
  BY DEF Wait, InLoop
<1>1. PICK c \in Ended :
        /\ orphans' = orphans \ {c}
        /\ IF c \notin All THEN UNCHANGED <<job, rc, done>>
           ELSE /\ job' = [job EXCEPT ![c] = "got"]
                /\ rc' = IF job[c] = "failed" THEN rc \cup {c} ELSE rc
                /\ done' = done + 1
  BY DEF Wait
<1>2. /\ running' = running - 1
      /\ UNCHANGED <<step, err, stack, order, src, ll, obj, started>>
  BY DEF Wait, vars, files, disk
<1>3. c \in All /\ c \in Module /\ job[c] \in {"done", "failed"} /\ c \in Busy
  BY <1>0, <1>1, JobFacts DEF Ended, BuildInv, Busy, Working
<1>4. All' = All
  BY <1>2 DEF All, Range
<1>5. job'[c] = "got" /\ \A x \in Module : x # c => job'[x] = job[x]
  BY <1>1, <1>3 DEF BuildInv, BuildType
<1>6. BuildType'
  BY <1>1, <1>2, <1>3 DEF BuildInv, BuildType, Working, Broken
<1>7. Busy' = Busy \ {c}
  BY <1>0, <1>3, <1>4, <1>5, JobFacts DEF Busy, Working
<1>8. Cardinality(Busy') = running - 1
  BY <1>0, <1>3, <1>7, FS_RemoveElement, JobFacts DEF Table
<1>9. ASSUME NEW i \in 1 .. Len(order)
      PROVE  IF i <= started THEN job'[order[i]] # "due" ELSE job'[order[i]] = "due"
  <2>1. IF i <= started THEN job[order[i]] # "due" ELSE job[order[i]] = "due"
    BY <1>0, JobFacts DEF Table
  <2>2. order[i] \in Module
    BY <1>0, JobFacts
  <2>3. CASE order[i] = c
    BY <2>1, <2>3, <1>3, <1>5
  <2>4. CASE order[i] # c
    BY <2>1, <2>2, <2>4, <1>5
  <2> QED
    BY <2>3, <2>4
<1>10. ASSUME NEW x \in All
       PROVE  /\ ll[x] = src
              /\ job'[x] = "done" => obj[x] = src
              /\ job'[x] = "got" /\ x \notin rc' => obj[x] = src
  <2>1. CASE x = c
    <3>1. job[c] = "done" => obj[c] = src
      BY <1>0, <1>3, JobFacts DEF Table
    <3>2. job[c] = "failed" => c \in rc'
      BY <1>1, <1>3
    <3> QED
      BY <2>1, <3>1, <3>2, <1>0, <1>3, <1>5, JobFacts DEF Table
  <2>2. CASE x # c
    <3>1. x \notin rc' => x \notin rc
      BY <1>1, <1>3
    <3> QED
      BY <3>1, <2>2, <1>0, <1>5, JobFacts DEF Table
  <2> QED
    BY <2>1, <2>2
<1>11. Table'
  <2>1. /\ started \in 0 .. Len(order)
        /\ (done + 1) + (running - 1) = started /\ done + 1 \in Nat /\ running - 1 \in Nat
    <3>1. /\ started \in 0 .. Len(order) /\ done + running = started
          /\ done \in Nat /\ running \in Nat
      BY <1>0, JobFacts DEF Table
    <3> QED
      BY <3>1, <1>0
  <2>2. done' = done + 1
    BY <1>1, <1>3
  <2> QED
    BY <2>1, <2>2, <1>2, <1>4, <1>8, <1>9, <1>10 DEF Table
<1>12. orphans' = {}
  BY <1>1 DEF BuildInv
<1> QED
  BY <1>0, <1>2, <1>6, <1>11, <1>12 DEF BuildInv

\* When the loop ends, every module has been compiled or has failed.
LEMMA LoopOver ==
  ASSUME ExactInv, BuildInv, JobsOver
  PROVE  Idle
<1>1. step = "jobs" /\ (~InLoop \/ (~MayStart /\ running = 0))
  BY DEF JobsOver, JobsEnd
<1>2. /\ started \in 0 .. Len(order) /\ done + running = started
      /\ done \in Nat /\ running \in Nat /\ Len(order) \in Nat /\ Jobs \in Nat \ {0}
  BY <1>1, JobFacts DEF Table
<1>3. started = Len(order) /\ running = 0
  <2>1. CASE ~InLoop
    BY <2>1, <1>1, <1>2 DEF InLoop
  <2>2. CASE ~MayStart /\ running = 0 /\ InLoop
    BY <2>2, <1>2 DEF MayStart
  <2> QED
    BY <2>1, <2>2, <1>1
<1>4. Busy = {}
  BY <1>1, <1>3, JobFacts, FS_EmptySet DEF Table
<1>5. ASSUME NEW m \in All
      PROVE  job[m] = "got"
  <2>1. PICK i \in 1 .. Len(order) : order[i] = m
    BY <1>1, JobFacts
  <2>2. i <= started
    BY <1>2, <1>3
  <2>3. job[m] # "due"
    BY <2>1, <2>2, <1>1, JobFacts DEF Table
  <2>4. job[m] \notin Working
    BY <1>4 DEF Busy
  <2>5. m \in Module
    BY <1>1, JobFacts
  <2> QED
    BY <2>3, <2>4, <2>5 DEF BuildInv, BuildType
<1> QED
  BY <1>5 DEF Idle

LEMMA JobsOverBuild ==
  ASSUME ExactInv, BuildInv, JobsOver
  PROVE  BuildInv'
<1>1. /\ step = "jobs"
      /\ step' = (IF rc # {} THEN "clean" ELSE "link")
      /\ code' = (IF rc # {} THEN 1 ELSE 0)
      /\ UNCHANGED <<err, stack, order, orphans, src, ll, obj, job>>
  BY DEF JobsOver, JobsEnd, vars, files, disk, work
<1>2. Idle
  BY LoopOver
<1>3. All' = All
  BY <1>1 DEF All, Range
<1>4. Idle'
  BY <1>1, <1>2, <1>3 DEF Idle
<1>5. BuildType'
  BY <1>1 DEF BuildInv, BuildType, Broken
<1>6. rc = {} => \A m \in All : obj[m] = src
  BY <1>1, <1>2, JobFacts DEF Table, Idle
<1> QED
  BY <1>1, <1>3, <1>4, <1>5, <1>6 DEF BuildInv

LEMMA LinkBuild ==
  ASSUME ExactInv, BuildInv, Link
  PROVE  BuildInv'
<1>1. /\ step = "link" /\ step' = "clean"
      /\ UNCHANGED <<err, stack, order, orphans, src, ll, obj, job>>
      /\ exe' = {obj[m] : m \in All} \/ code' = 1
  BY DEF Link, vars, files, work
<1>2. All' = All
  BY <1>1 DEF All, Range
<1>3. Idle /\ \A m \in All : obj[m] = src
  BY <1>1 DEF BuildInv
<1>4. Idle'
  BY <1>1, <1>2, <1>3 DEF Idle
<1>5. BuildType'
  BY <1>1 DEF BuildInv, BuildType, Broken
<1>6. All # {}
  BY <1>1, Accepted, ReachedFacts DEF BuildInv, ExactInv, OrderInv, All
<1>7. {obj[m] : m \in All} = {src}
  BY <1>3, <1>6
<1> QED
  BY <1>1, <1>4, <1>5, <1>7 DEF BuildInv

LEMMA CleanBuild ==
  ASSUME ExactInv, BuildInv, Clean
  PROVE  BuildInv'
<1>1. /\ step = "clean" /\ step' = "exit"
      /\ UNCHANGED <<err, stack, order, orphans, src, exe, code, job>>
      /\ obj' = [m \in Module |-> IF m \in All THEN None ELSE obj[m]]
      /\ ll' = [m \in Module |-> IF m \in All /\ code = 0 THEN None ELSE ll[m]]
  BY DEF Clean, vars, files, work
<1>2. All' = All /\ All \subseteq Module
  <2>1. order \in Seq(Module)
    BY DEF ExactInv, OrderInv, LoadType
  <2> QED
    BY <1>1, <2>1 DEF All, Range
<1>3. None \in 0 .. Broken
  BY JobsAssumption DEF None, Broken
<1>4. BuildType'
  BY <1>1, <1>3 DEF BuildInv, BuildType, Broken
<1>5. Idle => Idle'
  BY <1>1, <1>2 DEF Idle
<1> QED
  BY <1>1, <1>2, <1>4, <1>5 DEF BuildInv

LEMMA InterruptBuild ==
  ASSUME BuildInv, Interrupt
  PROVE  BuildInv'
<1>1. /\ step' = "exit" /\ code' = 1 /\ UNCHANGED <<src, ll, job, orphans>>
      /\ obj' \in [Module -> 0 .. Broken]
  BY DEF Interrupt, work
<1>2. BuildType'
  BY <1>1 DEF BuildInv, BuildType, Broken
<1> QED
  BY <1>1, <1>2 DEF BuildInv

LEMMA RestBuild ==
  ASSUME BuildInv, Load \/ Refuse \/ Exited \/ UNCHANGED <<vars, build>>
  PROVE  BuildInv'
<1>1. CASE Load \/ Refuse
  <2>1. /\ step' \in {"load", "exit"} /\ (step' = "exit" => code' = 1)
        /\ UNCHANGED <<src, ll, obj, job, orphans>>
    BY <1>1 DEF Load, Refuse, build, disk, work
  <2>2. BuildType'
    BY <2>1 DEF BuildInv, BuildType, Broken
  <2> QED
    BY <2>1, <2>2 DEF BuildInv
<1>2. CASE Exited \/ UNCHANGED <<vars, build>>
  <2>1. /\ UNCHANGED <<step, src, ll, obj, exe, job, rc, started, done, running, orphans, code>>
        /\ UNCHANGED <<order, err, stack>>
    BY <1>2 DEF Exited, vars, build, disk, work, counters
  <2>2. All' = All
    BY <2>1 DEF All, Range
  <2>3. Busy' = Busy
    BY <2>1, <2>2 DEF Busy
  <2>4. BuildType' /\ (Table => Table') /\ (Idle => Idle')
    BY <2>1, <2>2, <2>3 DEF BuildInv, BuildType, Broken, Table, Idle
  <2> QED
    BY <2>1, <2>2, <2>4 DEF BuildInv
<1> QED
  BY <1>1, <1>2

LEMMA AgainBuild ==
  ASSUME BuildInv, Again
  PROVE  BuildInv'
<1>1. /\ step' = "load" /\ src' = src + 1 /\ src < Sources
      /\ UNCHANGED <<ll, obj, job, orphans>>
  BY DEF Again, work
<1>2. BuildType'
  BY <1>1, JobsAssumption DEF BuildInv, BuildType, Broken
<1> QED
  BY <1>1, <1>2 DEF BuildInv

\* Every build begins with an empty loader, and no step but those of the
\* loader touches it.
LEMMA AgainFresh ==
  ASSUME ExactInv, Again
  PROVE  Fresh'
  BY DEF Again, Fresh, files, ExactInv, OrderInv, LoadType, PassedInv

LEMMA DriverLoads ==
  ASSUME [DriverNext]_<<vars, build>>
  PROVE  [Next]_vars \/ Again
<1>1. CASE Load
  BY <1>1 DEF Load
<1>2. CASE Again
  BY <1>2
<1>3. CASE \E m \in Module : JobEnds(m)
  BY <1>3 DEF JobEnds
<1>4. CASE Refuse \/ Generate \/ Spawn \/ RunHere \/ Wait \/ JobsOver \/ Link \/ Clean
  BY <1>4 DEF Refuse, Generate, Spawn, RunHere, Wait, JobsOver, JobsEnd, Link, Clean
<1>5. CASE Interrupt \/ Exited \/ UNCHANGED <<vars, build>>
  BY <1>5 DEF Interrupt, Exited
<1> QED
  BY <1>1, <1>2, <1>3, <1>4, <1>5 DEF DriverNext, Steps

LEMMA DriverLoader == DriverSpec => []ExactInv
<1>1. DriverInit => Fresh
  BY InitFresh DEF DriverInit
<1>2. ExactInv /\ [Next]_vars => ExactInv'
  BY NextExact
<1>3. ExactInv /\ Again => ExactInv'
  <2>1. ExactInv /\ Again => Fresh'
    BY AgainFresh
  <2>2. Fresh' => ExactInv'
    BY InitExact, PTL
  <2> QED
    BY <2>1, <2>2
<1>4. ExactInv /\ [DriverNext]_<<vars, build>> => ExactInv'
  BY <1>2, <1>3, DriverLoads
<1> QED
  BY <1>1, <1>4, InitExact, PTL DEF DriverSpec

\* The loader does in every build what it does in one.
THEOREM LoadedEveryTime == DriverSpec => [](InOrder /\ Exact)
<1>1. ExactInv => InOrder /\ Exact
  BY Accepted DEF ExactInv, OrderInv, Refused, Exact
<1> QED
  BY DriverLoader, <1>1, PTL

LEMMA StepBuild ==
  ASSUME ExactInv, BuildInv, [DriverNext]_<<vars, build>>
  PROVE  BuildInv'
<1>1. CASE Generate \/ Spawn \/ RunHere \/ Wait
  BY <1>1, GenerateBuild, SpawnBuild, RunHereBuild, WaitBuild
<1>2. CASE JobsOver \/ Link \/ Clean \/ Interrupt \/ Again
  BY <1>2, JobsOverBuild, LinkBuild, CleanBuild, InterruptBuild, AgainBuild
<1>3. CASE \E m \in Module : JobEnds(m)
  BY <1>3, JobEndsBuild
<1>4. CASE Load \/ Refuse \/ Exited \/ UNCHANGED <<vars, build>>
  BY <1>4, RestBuild
<1> QED
  BY <1>1, <1>2, <1>3, <1>4 DEF DriverNext, Steps

\* For any program, number of processes and number of builds, however the C
\* compiler and the linker fail, and wherever an earlier build was
\* interrupted: a compiler that returns 0 has linked all of the sources it
\* was called on, and has left nothing.  It has no children but its own: wait
\* counts any child as a job (run_jobs).
THEOREM BuildsWhatItSays ==
  ASSUME Orphans = {}
  PROVE  DriverSpec => []ExitTrue
<1>1. DriverInit => BuildInv
  BY InitBuild
<1>2. ExactInv /\ BuildInv /\ [DriverNext]_<<vars, build>> => BuildInv'
  BY StepBuild
<1>3. BuildInv => ExitTrue
  BY DEF BuildInv, ExitTrue
<1> QED
  BY DriverLoader, <1>1, <1>2, <1>3, PTL DEF DriverSpec

=============================================================================

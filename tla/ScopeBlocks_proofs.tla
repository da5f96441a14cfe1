------------------------- MODULE ScopeBlocks_proofs -------------------------
(***************************************************************************)
(* Proofs about the blocks of ThreadScope: scopes end their threads, what  *)
(* is lent outlives its borrowers, and the runtime, seen through its       *)
(* frames, is structured fork and join, for any number of threads and      *)
(* scopes.                                                                 *)
(***************************************************************************)
EXTENDS ThreadScope_proofs, WellFoundedInduction

\* The rule about exceptions, on top of those about handles.
BlockRules == HandleRules /\ "caught" \in Rules

ScopeNum == 0 .. MaxScopes

LEMMA NumFacts ==
  /\ Thread \subseteq Nat
  /\ ScopeNum \subseteq Nat
  /\ \A p \in Thread, k \in ScopeNum : <<p, k>> \in Block /\ <<p, k>>[1] = p /\ <<p, k>>[2] = k
  /\ \A b \in Block : b[1] \in Thread /\ b[2] \in ScopeNum /\ b = <<b[1], b[2]>>
  /\ None \notin Block
  /\ None \notin Thread
  BY BlockFacts, BoundsAssumption DEF Thread, ScopeNum

\* Where a thread is: its block is one it has opened.
LEMMA CurFacts ==
  ASSUME HandleInv, ChainInv, NEW p \in Thread
  PROVE  /\ cur[p] = <<p, cur[p][2]>>
         /\ cur[p] \in Block
         /\ cur[p][2] \in ScopeNum
         /\ opened[p] \in ScopeNum
         /\ cur[p][2] <= opened[p]
  BY NumFacts DEF HandleInv, TypeOK, FrameInv, ChainInv, ScopeNum

\* What is known of a block that has been opened and not left.
LEMMA NestFacts ==
  ASSUME HandleInv, NestInv, NEW p \in Thread, NEW k \in ScopeNum,
         k # 0, k <= opened[p]
  PROVE  /\ parent[<<p, k>>] \in Block
         /\ parent[<<p, k>>][1] = p
         /\ parent[<<p, k>>][2] \in ScopeNum
         /\ parent[<<p, k>>][2] < k
         /\ outer[<<p, k>>] = FrameOf(parent[<<p, k>>])
         /\ <<p, k>> \notin left =>
              /\ k <= cur[p][2]
              /\ parent[<<p, k>>] \notin left
              /\ \A j \in ScopeNum : parent[<<p, k>>][2] < j /\ j < k => <<p, j>> \in left
<1>1. k \in 0 .. MaxScopes /\ opened[p] \in Nat /\ k \in Nat
  BY NumFacts DEF HandleInv, TypeOK, ScopeNum
<1>2. k \in 1 .. opened[p] /\ k \in 0 .. opened[p]
  BY <1>1
<1>3. <<p, k>> \in Block /\ <<p, k>>[1] = p
  BY NumFacts
<1>4. parent[<<p, k>>] \in Block /\ parent[<<p, k>>][1] = p /\ parent[<<p, k>>][2] \in ScopeNum
  BY <1>3, NumFacts DEF HandleInv, TypeOK, FrameInv
<1> QED
  BY <1>1, <1>2, <1>4 DEF NestInv, ScopeNum

\* Only Escape leaves a block without its end.
LEMMA NoEscape ==
  ASSUME BlockRules, NEW p \in Thread
  PROVE  ~Escape(p)
  BY DEF BlockRules, Escape

-----------------------------------------------------------------------------
LEMMA ChainStep ==
  ASSUME BlockRules, HandleInv, BlockInv, NEW p \in Thread, Step(p), HandleInv'
  PROVE  ChainInv'
<1> USE DEF HandleInv, BlockInv
<1>0. ~Escape(p)
  BY NoEscape
<1>c. \A q \in Thread : /\ cur[q] = <<q, cur[q][2]>> /\ cur[q] \in Block
                        /\ cur[q][2] \in ScopeNum /\ opened[q] \in ScopeNum
                        /\ cur[q][2] <= opened[q]
  BY CurFacts
<1>t. TypeOK /\ TypeOK'
  OBVIOUS
<1>1. CASE \E b \in Block \cup {None}, h \in Thread \cup {None} : Spawn(p, b, h)
  <2> PICK b \in Block \cup {None}, h \in Thread \cup {None} : Spawn(p, b, h)
    BY <1>1
  <2>1. UNCHANGED <<waiting, closing, cur, parent, opened, left, top, outer>>
    BY DEF Spawn, frameVars
  <2>2. /\ n \in Thread
        /\ stage[n] = "unborn"
        /\ \A q \in Thread : stage'[q] = IF q = n THEN "running" ELSE stage[q]
    <3>1. n \in Thread /\ n \in Nat
      BY <1>t, BoundsAssumption DEF Spawn, TypeOK, Thread
    <3>2. stage[n] = "unborn"
      BY <3>1 DEF UnbornInv
    <3> QED
      BY <3>1, <3>2, <1>t DEF Spawn, TypeOK
  <2> QED
    BY <2>1, <2>2 DEF ChainInv
<1>2. CASE \E b \in Block : Consume(p, b)
  BY <1>2 DEF Consume, ctlVars, frameVars, boxVars, ChainInv
<1>3. CASE \E h \in Thread : StartJoin(p, h)
  BY <1>3, <1>t DEF StartJoin, blockVars, frameVars, ChainInv, TypeOK
<1>4. CASE \E c \in Thread : NextItem(p, c)
  BY <1>4 DEF NextItem, blockVars, frameVars, ChainInv
<1>5. CASE Return(p)
  <2>1. \A q \in Thread : /\ stage'[q] = (IF q = p THEN "done" ELSE stage[q])
                          /\ q # p => cur[q] # cur[p]
    BY <1>5, <1>t, <1>c, NumFacts DEF Return, TypeOK, FrameInv
  <2>2. left' = left \cup {cur[p]} /\ UNCHANGED <<closing, cur, parent, opened, top>>
    BY <1>5 DEF Return, frameVars
  <2>3. stage[p] = "running" /\ cur[p][2] = 0
    BY <1>5 DEF Return
  <2> QED
    BY <2>1, <2>2, <2>3 DEF ChainInv
<1>6. CASE BeginScope(p)
  <2> DEFINE b == <<p, opened[p] + 1>>
  <2>1. /\ opened[p] + 1 \in ScopeNum
        /\ b \in Block
        /\ b[2] = opened[p] + 1
        /\ b \notin left
    <3>1. opened[p] + 1 \in ScopeNum
      BY <1>6, <1>c, BoundsAssumption DEF BeginScope, ScopeNum
    <3>2. opened[p] + 1 > opened[p]
      BY <1>c DEF ScopeNum
    <3> QED
      BY <3>1, <3>2, NumFacts DEF NestInv, ScopeNum
  <2>2. \A q \in Thread : /\ cur'[q] = (IF q = p THEN b ELSE cur[q])
                          /\ top'[q] = (IF q = p THEN b ELSE top[q])
                          /\ opened'[q] = (IF q = p THEN opened[p] + 1 ELSE opened[q])
    BY <1>6, <1>t DEF BeginScope, TypeOK
  <2>3. /\ UNCHANGED <<stage, closing, left>>
        /\ stage[p] = "running"
    BY <1>6 DEF BeginScope, ctlVars
  <2>4. \A q \in Thread : q # p => FrameOf(parent'[cur[q]]) = FrameOf(parent[cur[q]])
    <3> SUFFICES ASSUME NEW q \in Thread, q # p PROVE parent'[cur[q]] = parent[cur[q]]
      OBVIOUS
    <3>1. cur[q] # b
      BY <1>c, <2>1, NumFacts DEF FrameInv
    <3> QED
      BY <3>1, <1>6, <1>c, <1>t DEF BeginScope, TypeOK
  <2>5. FrameOf(b) = b /\ b[2] <= opened[p] + 1
    BY <2>1, <1>c DEF FrameOf, ScopeNum
  <2> QED
    BY <2>1, <2>2, <2>3, <2>4, <2>5, NumFacts DEF ChainInv
<1>7. CASE EndScope(p)
  <2>1. /\ stage[p] = "running"
        /\ cur[p][2] > 0
        /\ UNCHANGED <<cur, parent, opened, left, outer>>
        /\ \A q \in Thread :
             /\ stage'[q] = (IF q = p THEN "ending" ELSE stage[q])
             /\ closing'[q] = (IF q = p THEN top[p] ELSE closing[q])
             /\ q # p => top'[q] = top[q]
        /\ top'[p] = IF top[p] = None THEN None ELSE outer[top[p]]
    BY <1>7, <1>t DEF EndScope, blockVars, TypeOK
  <2>2. top[p] = cur[p] /\ cur[p] # None
    BY <2>1, <1>c, NumFacts DEF ChainInv, FrameOf
  <2>3. outer[cur[p]] = FrameOf(parent[cur[p]])
    <3>1. cur[p][2] # 0
      BY <2>1
    <3> QED
      BY <3>1, <1>c, NestFacts
  <2> QED
    BY <2>1, <2>2, <2>3 DEF ChainInv
<1>8. CASE FinishJoin(p)
  <2>1. /\ UNCHANGED <<closing, cur, parent, opened, left, top>>
        /\ stage[p] \in {"joining", "ending"}
        /\ \A q \in Thread : stage'[q] = IF q = p /\ stage[p] = "joining" THEN "running" ELSE stage[q]
    BY <1>8, <1>t DEF FinishJoin, blockVars, frameVars, TypeOK
  <2> QED
    BY <2>1 DEF ChainInv
<1>9. CASE LeaveScope(p)
  <2>1. /\ stage[p] = "ending"
        /\ UNCHANGED <<parent, opened, top>>
        /\ left' = left \cup {cur[p]}
        /\ \A q \in Thread :
             /\ stage'[q] = (IF q = p THEN "running" ELSE stage[q])
             /\ closing'[q] = (IF q = p THEN None ELSE closing[q])
             /\ cur'[q] = (IF q = p THEN parent[cur[p]] ELSE cur[q])
    BY <1>9, <1>t DEF LeaveScope, frameVars, TypeOK
  <2>2. cur[p][2] > 0 /\ cur[p] \notin left /\ top[p] = FrameOf(parent[cur[p]])
    BY <2>1 DEF ChainInv
  <2>3. /\ parent[cur[p]][2] < cur[p][2]
        /\ parent[cur[p]][2] \in ScopeNum
        /\ parent[cur[p]] \notin left
    <3>1. cur[p][2] # 0
      BY <2>2
    <3> QED
      BY <3>1, <2>2, <1>c, NestFacts
  <2>4. parent[cur[p]] \notin left' /\ parent[cur[p]][2] <= opened[p]
    BY <2>1, <2>3, <1>c, NumFacts DEF ScopeNum
  <2>5. \A q \in Thread : q # p => cur[q] # cur[p]
    BY <1>c, NumFacts DEF FrameInv
  <2> QED
    BY <2>1, <2>2, <2>3, <2>4, <2>5 DEF ChainInv
<1> QED
  BY <1>0, <1>1, <1>2, <1>3, <1>4, <1>5, <1>6, <1>7, <1>8, <1>9 DEF Step

\* A step that opens and leaves no block keeps the nesting as it is.
LEMMA NestSame ==
  ASSUME NestInv, UNCHANGED <<cur, parent, opened, left, outer>>
  PROVE  NestInv'
  BY DEF NestInv

LEMMA NestStep ==
  ASSUME BlockRules, HandleInv, BlockInv, NEW p \in Thread, Step(p), HandleInv'
  PROVE  NestInv'
<1> USE DEF HandleInv, BlockInv
<1>0. ~Escape(p)
  BY NoEscape
<1>c. \A q \in Thread : /\ cur[q] = <<q, cur[q][2]>> /\ cur[q] \in Block
                        /\ cur[q][2] \in ScopeNum /\ opened[q] \in ScopeNum
                        /\ cur[q][2] <= opened[q]
  BY CurFacts
<1>t. TypeOK /\ TypeOK'
  OBVIOUS
<1>1. CASE \E b \in Block \cup {None}, h \in Thread \cup {None} : Spawn(p, b, h)
  BY <1>1, NestSame DEF Spawn, frameVars
<1>2. CASE \E b \in Block : Consume(p, b)
  BY <1>2, NestSame DEF Consume, frameVars
<1>3. CASE \E h \in Thread : StartJoin(p, h)
  BY <1>3, NestSame DEF StartJoin, blockVars, frameVars
<1>4. CASE \E c \in Thread : NextItem(p, c)
  BY <1>4, NestSame DEF NextItem, blockVars, frameVars
<1>5. CASE Return(p)
  <2>1. left' = left \cup {cur[p]} /\ UNCHANGED <<cur, parent, opened, outer>> /\ cur[p][2] = 0
    BY <1>5 DEF Return, frameVars
  <2>2. cur[p] = <<p, 0>>
    BY <1>c, <2>1
  <2> SUFFICES ASSUME NEW q \in Thread, NEW k \in 0 .. MaxScopes
               PROVE  /\ k > opened[q] => <<q, k>> \notin left'
                      /\ k \in 1 .. opened[q] =>
                           /\ parent[<<q, k>>][2] < k
                           /\ outer[<<q, k>>] = FrameOf(parent[<<q, k>>])
                      /\ k \in 0 .. opened[q] /\ <<q, k>> \notin left' => k <= cur[q][2]
                      /\ k \in 1 .. opened[q] /\ <<q, k>> \notin left' =>
                           /\ parent[<<q, k>>] \notin left'
                           /\ \A j \in 0 .. MaxScopes :
                                parent[<<q, k>>][2] < j /\ j < k => <<q, j>> \in left'
    BY <2>1 DEF NestInv
  <2>3. k > opened[q] => <<q, k>> # <<p, 0>>
    BY <1>c DEF ScopeNum
  <2>4. k \in 1 .. opened[q] /\ <<q, k>> \notin left => q # p
    <3> SUFFICES ASSUME k \in 1 .. opened[p], <<p, k>> \notin left, q = p PROVE FALSE
      OBVIOUS
    <3>1. k \in 0 .. opened[p]
      OBVIOUS
    <3>2. k <= cur[p][2]
      BY <3>1 DEF NestInv
    <3> QED
      BY <3>2, <2>1
  <2>5. k \in 1 .. opened[q] => parent[<<q, k>>][1] = q
    BY NumFacts DEF FrameInv, ScopeNum
  <2>6. k \in 1 .. opened[q] /\ q # p => parent[<<q, k>>] # cur[p]
    BY <2>5, <2>2, NumFacts DEF ScopeNum
  <2> QED
    BY <2>1, <2>2, <2>3, <2>4, <2>6 DEF NestInv
<1>6. CASE BeginScope(p)
  <2> DEFINE o == opened[p]
             b == <<p, o + 1>>
  <2>1. /\ o \in Nat /\ o + 1 \in ScopeNum
        /\ b \in Block
        /\ b \notin left
    <3>1. o \in Nat /\ o + 1 \in ScopeNum
      BY <1>6, <1>c, BoundsAssumption DEF BeginScope, ScopeNum
    <3> QED
      BY <3>1, NumFacts DEF NestInv, ScopeNum
  <2>2. /\ \A q \in Thread : /\ cur'[q] = (IF q = p THEN b ELSE cur[q])
                             /\ opened'[q] = (IF q = p THEN o + 1 ELSE opened[q])
        /\ \A a \in Block : /\ parent'[a] = (IF a = b THEN cur[p] ELSE parent[a])
                            /\ outer'[a] = (IF a = b THEN top[p] ELSE outer[a])
        /\ left' = left
        /\ stage[p] = "running"
    BY <1>6, <1>t DEF BeginScope, TypeOK
  <2>3. /\ top[p] = FrameOf(cur[p])
        /\ cur[p] \notin left
        /\ cur[p][2] \in Nat /\ cur[p][2] <= o
        /\ \A j \in 0 .. MaxScopes : cur[p][2] < j /\ j < o + 1 => <<p, j>> \in left
    <3>1. top[p] = FrameOf(cur[p]) /\ cur[p] \notin left
      BY <2>2 DEF ChainInv
    <3>2. cur[p][2] \in Nat /\ cur[p][2] <= o
      BY <1>c, NumFacts
    <3>3. ASSUME NEW j \in 0 .. MaxScopes, cur[p][2] < j, j < o + 1
          PROVE  <<p, j>> \in left
      <4>1. j \in 0 .. o /\ ~(j <= cur[p][2])
        BY <3>2, <3>3, <2>1
      <4> QED
        BY <4>1 DEF NestInv
    <3> QED
      BY <3>1, <3>2, <3>3
  <2> SUFFICES ASSUME NEW q \in Thread, NEW k \in 0 .. MaxScopes
               PROVE  /\ k > opened'[q] => <<q, k>> \notin left'
                      /\ k \in 1 .. opened'[q] =>
                           /\ parent'[<<q, k>>][2] < k
                           /\ outer'[<<q, k>>] = FrameOf(parent'[<<q, k>>])
                      /\ k \in 0 .. opened'[q] /\ <<q, k>> \notin left' => k <= cur'[q][2]
                      /\ k \in 1 .. opened'[q] /\ <<q, k>> \notin left' =>
                           /\ parent'[<<q, k>>] \notin left'
                           /\ \A j \in 0 .. MaxScopes :
                                parent'[<<q, k>>][2] < j /\ j < k => <<q, j>> \in left'
    BY DEF NestInv
  <2>4. CASE q = p /\ k = o + 1
    <3>1. <<q, k>> = b /\ b \in Block
      BY <2>1, <2>4
    <3>2. parent'[<<q, k>>] = cur[p] /\ outer'[<<q, k>>] = top[p]
      BY <3>1, <2>2
    <3>3. opened'[q] = k /\ cur'[q][2] = k
      BY <2>2, <2>4, <2>1, NumFacts
    <3> QED
      BY <3>2, <3>3, <2>2, <2>3, <2>4, <2>1
  <2>5. CASE q = p /\ k # o + 1
    <3>1. <<q, k>> \in Block /\ <<q, k>> # b
      BY <2>5, <2>1, NumFacts DEF ScopeNum
    <3>2. parent'[<<q, k>>] = parent[<<q, k>>] /\ outer'[<<q, k>>] = outer[<<q, k>>]
      BY <3>1, <2>2
    <3>3. opened'[q] = o + 1 /\ cur'[q][2] = o + 1 /\ k \in Nat
      BY <2>2, <2>5, <2>1, NumFacts
    <3>4. /\ k > opened'[q] => k > opened[q]
          /\ k \in 1 .. opened'[q] => k \in 1 .. opened[q]
          /\ k \in 0 .. opened'[q] => k <= cur'[q][2]
      BY <3>3, <2>5, <2>1
    <3> QED
      BY <3>2, <3>4, <2>2 DEF NestInv
  <2>6. CASE q # p
    <3>1. <<q, k>> \in Block /\ <<q, k>> # b
      BY <2>6, NumFacts DEF ScopeNum
    <3>2. parent'[<<q, k>>] = parent[<<q, k>>] /\ outer'[<<q, k>>] = outer[<<q, k>>]
      BY <3>1, <2>2
    <3>3. opened'[q] = opened[q] /\ cur'[q] = cur[q]
      BY <2>2, <2>6
    <3> QED
      BY <3>2, <3>3, <2>2 DEF NestInv
  <2> QED
    BY <2>4, <2>5, <2>6
<1>7. CASE EndScope(p)
  BY <1>7, NestSame DEF EndScope, blockVars
<1>8. CASE FinishJoin(p)
  BY <1>8, NestSame DEF FinishJoin, blockVars, frameVars
<1>9. CASE LeaveScope(p)
  <2> DEFINE u == cur[p]
             v == parent[cur[p]]
  <2>1. /\ stage[p] = "ending"
        /\ UNCHANGED <<parent, opened, outer>>
        /\ left' = left \cup {u}
        /\ \A q \in Thread : cur'[q] = (IF q = p THEN v ELSE cur[q])
    BY <1>9, <1>t DEF LeaveScope, frameVars, TypeOK
  <2>2. u[2] # 0 /\ u \notin left
    BY <2>1 DEF ChainInv
  <2>3. /\ v[2] < u[2] /\ v[2] \in ScopeNum /\ v \notin left
        /\ \A j \in ScopeNum : v[2] < j /\ j < u[2] => <<p, j>> \in left
    BY <2>2, <1>c, NestFacts
  <2> SUFFICES ASSUME NEW q \in Thread, NEW k \in 0 .. MaxScopes
               PROVE  /\ k > opened[q] => <<q, k>> \notin left'
                      /\ k \in 1 .. opened[q] =>
                           /\ parent[<<q, k>>][2] < k
                           /\ outer[<<q, k>>] = FrameOf(parent[<<q, k>>])
                      /\ k \in 0 .. opened[q] /\ <<q, k>> \notin left' => k <= cur'[q][2]
                      /\ k \in 1 .. opened[q] /\ <<q, k>> \notin left' =>
                           /\ parent[<<q, k>>] \notin left'
                           /\ \A j \in 0 .. MaxScopes :
                                parent[<<q, k>>][2] < j /\ j < k => <<q, j>> \in left'
    BY <2>1 DEF NestInv
  <2>4. k > opened[q] => <<q, k>> # u
    BY <1>c, NumFacts DEF ScopeNum
  <2>5. k \in 0 .. opened[q] /\ <<q, k>> \notin left' => k <= cur'[q][2]
    <3> SUFFICES ASSUME k \in 0 .. opened[q], <<q, k>> \notin left'
                 PROVE  k <= cur'[q][2]
      OBVIOUS
    <3>1. <<q, k>> \notin left /\ <<q, k>> # u /\ k <= cur[q][2]
      BY <2>1 DEF NestInv
    <3>2. CASE q = p
      <4>1. k # u[2] /\ k \in Nat /\ u[2] \in Nat /\ v[2] \in Nat
        BY <3>1, <3>2, <1>c, <2>3, NumFacts
      <4>2. ~(v[2] < k)
        BY <4>1, <3>1, <3>2, <2>3 DEF ScopeNum
      <4> QED
        BY <4>1, <4>2, <2>1, <3>2
    <3>3. CASE q # p
      BY <3>1, <3>3, <2>1
    <3> QED
      BY <3>2, <3>3
  <2>6. k \in 1 .. opened[q] /\ <<q, k>> \notin left' => parent[<<q, k>>] # u
    <3> SUFFICES ASSUME k \in 1 .. opened[q], <<q, k>> \notin left', parent[<<q, k>>] = u
                 PROVE  FALSE
      OBVIOUS
    <3>1. parent[<<q, k>>][1] = q /\ u[1] = p
      BY <1>c, NumFacts DEF FrameInv, ScopeNum
    <3>2. q = p
      BY <3>1
    <3>3. u[2] < k /\ k \in 0 .. opened[q]
      BY DEF NestInv
    <3>4. k <= v[2]
      BY <3>2, <3>3, <2>5, <2>1
    <3> QED
      BY <3>3, <3>4, <2>3, <1>c, NumFacts
  <2> QED
    BY <2>1, <2>4, <2>5, <2>6 DEF NestInv
<1> QED
  BY <1>0, <1>1, <1>2, <1>3, <1>4, <1>5, <1>6, <1>7, <1>8, <1>9 DEF Step

\* What a step does to the frames threads are recorded in: only a spawn adds one.
LEMMA FrameGrows ==
  ASSUME HandleInv, NEW p \in Thread, Step(p), NEW c \in Thread
  PROVE  \/ frame'[c] = frame[c] /\ lent'[c] = lent[c]
         \/ /\ c = n /\ stage[c] = "unborn" /\ stage[p] = "running" /\ p < c
            /\ frame'[c] = top[p]
            /\ UNCHANGED <<waiting, closing, cur, parent, opened, left, top, outer>>
<1> USE DEF HandleInv
<1>1. CASE \E b \in Block \cup {None}, h \in Thread \cup {None} : Spawn(p, b, h)
  <2> PICK b \in Block \cup {None}, h \in Thread \cup {None} : Spawn(p, b, h)
    BY <1>1
  <2>1. /\ \A d \in Thread : /\ frame'[d] = (IF d = n THEN top[p] ELSE frame[d])
                             /\ d # n => lent'[d] = lent[d]
        /\ UNCHANGED <<waiting, closing, cur, parent, opened, left, top, outer>>
    BY DEF Spawn, Register, frameVars, TypeOK
  <2>2. c = n => stage[c] = "unborn" /\ p < c
    <3>1. p \in Nat /\ n \in Nat /\ ~(p >= n)
      BY BoundsAssumption DEF UnbornInv, Thread, TypeOK, Spawn
    <3> QED
      BY <3>1 DEF UnbornInv
  <2> QED
    BY <2>1, <2>2 DEF Spawn
<1>2. CASE \E b \in Block : Consume(p, b)
  BY <1>2 DEF Consume, boxVars
<1>3. CASE \E h \in Thread : StartJoin(p, h)
  BY <1>3 DEF StartJoin
<1>4. CASE \E d \in Thread : NextItem(p, d)
  BY <1>4 DEF NextItem
<1>5. CASE Return(p) \/ BeginScope(p) \/ EndScope(p) \/ FinishJoin(p) \/ LeaveScope(p) \/ Escape(p)
  BY <1>5 DEF Return, BeginScope, EndScope, FinishJoin, LeaveScope, Escape, boxVars
<1> QED
  BY <1>1, <1>2, <1>3, <1>4, <1>5 DEF Step

\* Blocks are left by the thread they belong to, from where it is.
LEMMA LeftGrows ==
  ASSUME BlockRules, NEW p \in Thread, Step(p)
  PROVE  /\ \/ left' = left
            \/ left' = left \cup {cur[p]} /\ (Return(p) \/ LeaveScope(p))
         /\ left \subseteq left'
<1>0. ~Escape(p)
  BY NoEscape
<1>1. CASE \E b \in Block \cup {None}, h \in Thread \cup {None} : Spawn(p, b, h)
  BY <1>1 DEF Spawn
<1>2. CASE \E b \in Block : Consume(p, b)
  BY <1>2 DEF Consume
<1>3. CASE \E h \in Thread : StartJoin(p, h)
  BY <1>3 DEF StartJoin, blockVars
<1>4. CASE \E d \in Thread : NextItem(p, d)
  BY <1>4 DEF NextItem, blockVars
<1>5. CASE BeginScope(p) \/ EndScope(p) \/ FinishJoin(p)
  BY <1>5 DEF BeginScope, EndScope, FinishJoin, blockVars
<1>6. CASE Return(p) \/ LeaveScope(p)
  BY <1>6 DEF Return, LeaveScope
<1> QED
  BY <1>0, <1>1, <1>2, <1>3, <1>4, <1>5, <1>6 DEF Step

LEMMA OpenStep ==
  ASSUME BlockRules, HandleInv, BlockInv, NEW p \in Thread, Step(p), HandleInv', ChainInv', NestInv'
  PROVE  OpenInv'
<1> USE DEF HandleInv, BlockInv
<1>c. \A q \in Thread : /\ cur[q] = <<q, cur[q][2]>> /\ cur[q] \in Block
                        /\ cur[q][2] \in ScopeNum /\ opened[q] \in ScopeNum
                        /\ cur[q][2] <= opened[q]
  BY CurFacts
<1>t. TypeOK /\ TypeOK'
  OBVIOUS
<1>1. ASSUME NEW q \in Thread, top'[q] # None
      PROVE  top'[q] \notin left'
  <2>n. ASSUME stage'[q] # "ending"
        PROVE  top'[q] \notin left'
    <3>1. top'[q] = FrameOf(cur'[q]) /\ (stage'[q] # "done" => cur'[q] \notin left')
      BY <2>n DEF ChainInv
    <3>2. stage'[q] # "done"
      BY <3>1, <1>1 DEF ChainInv, FrameOf
    <3> QED
      BY <3>1, <3>2, <1>1 DEF FrameOf
  <2>e. ASSUME stage'[q] = "ending"
        PROVE  top'[q] \notin left'
    <3> DEFINE k == cur'[q][2]
    <3>1. top'[q] = FrameOf(parent'[cur'[q]]) /\ cur'[q][2] > 0 /\ cur'[q] \notin left'
      BY <2>e DEF ChainInv
    <3>2. k \in 1 .. opened'[q] /\ k \in 0 .. MaxScopes /\ cur'[q] = <<q, k>>
      BY <3>1, <1>t, NumFacts DEF ChainInv, TypeOK, FrameInv, ScopeNum
    <3>3. parent'[cur'[q]] \notin left'
      BY <3>1, <3>2 DEF NestInv
    <3> QED
      BY <3>1, <3>3, <1>1 DEF FrameOf
  <2> QED
    BY <2>n, <2>e
<1>2. \A q \in Thread : opened'[q] \in Nat /\ opened[q] \in Nat /\ opened[q] <= opened'[q]
  <2>1. \A q \in Thread : opened'[q] = opened[q] \/ opened'[q] = opened[q] + 1
    <3>1. CASE BeginScope(p)
      BY <3>1, <1>t DEF BeginScope, TypeOK
    <3>2. CASE ~BeginScope(p)
      BY <3>2 DEF Step, Spawn, Consume, StartJoin, NextItem, Return, EndScope, FinishJoin,
                  LeaveScope, Escape, blockVars
    <3> QED
      BY <3>1, <3>2
  <2> QED
    BY <2>1, <1>t, BoundsAssumption DEF TypeOK
<1>3. ASSUME NEW c \in Thread, frame'[c] # None
      PROVE  frame'[c][2] <= opened'[frame'[c][1]] /\ frame'[c][1] < c
  <2>1. CASE frame'[c] = frame[c]
    <3>1. frame[c][2] <= opened[frame[c][1]] /\ frame[c][1] < c
      BY <2>1, <1>3 DEF OpenInv
    <3>2. frame[c][1] \in Thread /\ frame[c][2] \in Nat
      BY <2>1, <1>3, <1>t, NumFacts DEF TypeOK, OptBlock
    <3> QED
      BY <3>1, <3>2, <2>1, <1>2
  <2>2. CASE frame'[c] = top[p] /\ stage[p] = "running" /\ p < c /\ opened' = opened
    <3>1. top[p] = cur[p]
      BY <2>2, <1>3 DEF ChainInv, FrameOf
    <3> QED
      BY <3>1, <2>2, <1>c, NumFacts
  <2> QED
    BY <2>1, <2>2, FrameGrows
<1> QED
  BY <1>1, <1>3 DEF OpenInv

\* A thread recorded in a frame that no join is looking at, in a scope that
\* ends and has no items left, has been joined.
LEMMA JoinedStep ==
  ASSUME BlockRules, HandleInv, BlockInv, NEW p \in Thread, Step(p), HandleInv'
  PROVE  ScopeJoined'
<1> USE DEF HandleInv, BlockInv
<1>c. \A q \in Thread : cur[q] = <<q, cur[q][2]>> /\ cur[q] \in Block
  BY CurFacts
<1>t. TypeOK /\ TypeOK'
  OBVIOUS
<1>1. ASSUME NEW c \in Thread, frame[c] # None, frame[c] \in left,
             frame'[c] = frame[c]
      PROVE  stage'[c] = "done" /\ joined'[c] /\ box'[c] = "freed"
  <2>1. stage[c] = "done" /\ joined[c] /\ box[c] = "freed"
    BY <1>1 DEF ScopeJoined
  <2>2. c \in 1 .. (n - 1)
    <3>1. n \in Nat /\ c \in Nat /\ ~(c >= n) /\ c # 0
      BY <2>1, BoundsAssumption DEF UnbornInv, Thread, TypeOK
    <3> QED
      BY <3>1
  <2>3. c # p
    <3>1. stage[p] # "done"
      BY DEF Step, Spawn, Consume, StartJoin, NextItem, Return, BeginScope, EndScope,
             FinishJoin, LeaveScope, Escape
    <3> QED
      BY <3>1, <2>1
  <2>4. \A q \in Thread : waiting[q] # c
    BY <2>1, NumFacts DEF WaitInv
  <2>5. CASE \E b \in Block \cup {None}, h \in Thread \cup {None} : Spawn(p, b, h)
    BY <2>5, <2>1, <2>2, <1>t DEF Spawn, TypeOK
  <2>6. CASE FinishJoin(p)
    BY <2>6, <2>1, <2>3, <2>4, <1>t DEF FinishJoin, TypeOK
  <2>7. CASE Return(p)
    BY <2>7, <2>1, <2>3, <1>t DEF Return, boxVars, TypeOK
  <2>8. CASE ~FinishJoin(p) /\ ~Return(p)
              /\ ~\E b \in Block \cup {None}, h \in Thread \cup {None} : Spawn(p, b, h)
    <3>1. stage'[c] = stage[c] /\ joined' = joined /\ box' = box
      BY <2>8, <2>3, <1>t DEF Step, Consume, StartJoin, NextItem, BeginScope, EndScope,
             LeaveScope, Escape, ctlVars, boxVars, TypeOK
    <3> QED
      BY <3>1, <2>1
  <2> QED
    BY <2>5, <2>6, <2>7, <2>8
<1>2. ASSUME NEW c \in Thread, frame[c] # None, frame[c] \notin left, frame[c] \in left',
             frame'[c] = frame[c]
      PROVE  stage'[c] = "done" /\ joined'[c] /\ box'[c] = "freed"
  <2>1. frame[c] = cur[p] /\ (Return(p) \/ LeaveScope(p))
    BY <1>2, LeftGrows
  <2>2. ~Return(p)
    <3>1. frame[c][2] > 0
      BY <1>2 DEF FrameInv
    <3> QED
      BY <3>1, <2>1 DEF Return
  <2>3. /\ stage[p] = "ending" /\ waiting[p] = None /\ Items(closing[p]) = {}
        /\ closing[p] = cur[p]
        /\ UNCHANGED <<box, joined>>
        /\ c # p => stage'[c] = stage[c]
    BY <2>1, <2>2, <1>t DEF LeaveScope, ChainInv, boxVars, TypeOK
  <2>4. ~scoped[c]
    BY <2>3, <2>1, <1>2 DEF Items
  <2>5. frame[c][1] = p
    BY <2>1, <1>c, NumFacts
  <2>6. box[c] = "freed"
    BY <2>4, <2>5, <2>3, <1>2, NumFacts DEF BoxInv
  <2>7. joined[c] /\ stage[c] = "done"
    BY <2>6 DEF BoxInv
  <2> QED
    BY <2>3, <2>6, <2>7
<1>3. ASSUME NEW c \in Thread, frame'[c] # None, frame'[c] \in left', frame'[c] # frame[c]
      PROVE  FALSE
  <2>1. stage[p] = "running" /\ frame'[c] = top[p] /\ UNCHANGED left
    BY <1>3, FrameGrows
  <2>2. top[p] \notin left
    BY <2>1, <1>3 DEF OpenInv
  <2> QED
    BY <1>3, <2>1, <2>2
<1> QED
  BY <1>1, <1>2, <1>3 DEF ScopeJoined

-----------------------------------------------------------------------------
\* A block that was never opened has no locals.
FreshInv == \A b \in Block : b[2] > opened[b[1]] => local[b] = "none"

LEMMA FreshStep ==
  ASSUME HandleInv, ChainInv, FreshInv, NEW p \in Thread, Step(p), HandleInv'
  PROVE  FreshInv'
<1> USE DEF HandleInv
<1>c. /\ \A q \in Thread : opened[q] \in Nat /\ 0 <= opened[q]
      /\ \A b \in Block : b[1] \in Thread /\ b[2] \in Nat
  BY NumFacts, BoundsAssumption DEF TypeOK
<1>p. cur[p] = <<p, cur[p][2]>> /\ cur[p][2] <= opened[p] /\ cur[p] \in Block /\ cur[p][2] \in Nat
  BY CurFacts, NumFacts
<1>t. TypeOK /\ TypeOK'
  OBVIOUS
<1> SUFFICES ASSUME NEW b \in Block, b[2] > opened'[b[1]] PROVE local'[b] = "none"
  BY DEF FreshInv
<1>1. CASE \E e \in Block \cup {None}, h \in Thread \cup {None} : Spawn(p, e, h)
  <2>1. /\ opened' = opened
        /\ local' = [local EXCEPT ![<<n, 0>>] = "live"]
    BY <1>1 DEF Spawn
  <2>2. b # <<n, 0>>
    <3>1. n \in Thread
      BY <1>1, <1>t, BoundsAssumption DEF Spawn, TypeOK, Thread
    <3> QED
      BY <3>1, <2>1, <1>c
  <2> QED
    BY <2>1, <2>2, <1>t DEF FreshInv, TypeOK
<1>2. CASE \E e \in Block : Consume(p, e)
  BY <1>2, <1>t DEF Consume, FreshInv, TypeOK
<1>3. CASE \E h \in Thread : StartJoin(p, h)
  BY <1>3 DEF StartJoin, blockVars, FreshInv
<1>4. CASE \E c \in Thread : NextItem(p, c)
  BY <1>4 DEF NextItem, blockVars, FreshInv
<1>5. CASE Return(p) \/ LeaveScope(p)
  <2>1. /\ opened' = opened
        /\ local' = [local EXCEPT ![cur[p]] = "gone"]
    BY <1>5 DEF Return, LeaveScope
  <2>2. b # cur[p]
    <3>1. cur[p][1] = p
      BY DEF FrameInv
    <3> QED
      BY <3>1, <2>1, <1>p, <1>c
  <2> QED
    BY <2>1, <2>2, <1>t DEF FreshInv, TypeOK
<1>6. CASE BeginScope(p)
  <2> DEFINE e == <<p, opened[p] + 1>>
  <2>1. /\ opened' = [opened EXCEPT ![p] = @ + 1]
        /\ local' = [local EXCEPT ![e] = "live"]
    BY <1>6 DEF BeginScope
  <2>2. \A q \in Thread : opened'[q] = (IF q = p THEN opened[p] + 1 ELSE opened[q])
    BY <2>1, <1>t DEF TypeOK
  <2>3. b # e
    BY <2>2, <1>c
  <2>4. b[2] > opened[b[1]]
    BY <2>2, <1>c
  <2> QED
    BY <2>1, <2>3, <2>4, <1>t DEF FreshInv, TypeOK
<1>7. CASE EndScope(p) \/ FinishJoin(p)
  BY <1>7 DEF EndScope, FinishJoin, blockVars, FreshInv
<1>8. CASE Escape(p)
  BY <1>8 DEF Escape, FreshInv
<1> QED
  BY <1>1, <1>2, <1>3, <1>4, <1>5, <1>6, <1>7, <1>8 DEF Step

-----------------------------------------------------------------------------
\* The numbers of threads are well-founded.
LEMMA Least ==
  ASSUME NEW T, T \subseteq Nat, T # {}
  PROVE  \E m \in T : \A y \in T : m <= y
<1> DEFINE R == OpToRel(<, Nat)
<1>1. IsWellFoundedOn(R, Nat)
  BY NatLessThanWellFounded
<1> HIDE DEF R
<1>2. PICK m \in T : \A y \in T : ~(<<y, m>> \in R)
  BY <1>1, WFMin
<1>3. ASSUME NEW y \in T, y < m
      PROVE  <<y, m>> \in R
  BY <1>3 DEF R, OpToRel
<1>4. \A y \in T : ~(y < m)
  BY <1>2, <1>3
<1>5. \A y \in T : y \in Nat /\ m \in Nat
  OBVIOUS
<1> QED
  BY <1>4, <1>5

\* Behind every loan made inside scopes stands one the owner of the local made
\* itself, to a thread of a scope that is still open: a thread that passes a loan
\* on is started later than the one it has the loan from.
LEMMA FirstLoan ==
  ASSUME HandleInv, BlockInv, LoanInv, NEW c \in Thread, Alive(c), lent[c] # None,
         ~LentOutside(lent[c])
  PROVE  \E d \in Thread :
            /\ Alive(d)
            /\ lent[d] = lent[c]
            /\ frame[d] \in Block
            /\ frame[d] \notin left
            /\ frame[d][1] = lent[c][1]
            /\ lent[c][2] <= frame[d][2]
<1> USE DEF HandleInv, BlockInv
<1> DEFINE T == {d \in Thread : Alive(d) /\ lent[d] = lent[c]}
<1>1. PICK m \in T : \A y \in T : m <= y
  <2>1. T \subseteq Nat /\ T # {}
    BY NumFacts
  <2> HIDE DEF T
  <2> QED
    BY <2>1, Least
<1>2. m \in Thread /\ Alive(m) /\ lent[m] = lent[c] /\ lent[m] # None
  OBVIOUS
<1>3. frame[m] # None /\ frame[m] \notin left
  <2>1. frame[m] # None
    BY <1>2 DEF LentOutside
  <2> QED
    BY <2>1, <1>2 DEF ScopeJoined, Alive
<1>4. frame[m] \in Block
  BY <1>3, <1>2 DEF TypeOK, OptBlock
<1>5. CASE lent[m][1] = frame[m][1] /\ lent[m][2] <= frame[m][2]
  BY <1>2, <1>3, <1>4, <1>5
<1>6. CASE lent[frame[m][1]] = lent[m]
  <2> DEFINE q == frame[m][1]
             k == frame[m][2]
  <2>1. q \in Thread /\ k \in 0 .. MaxScopes /\ frame[m] = <<q, k>> /\ k > 0
    BY <1>3, <1>4, <1>2, NumFacts DEF FrameInv, ScopeNum
  <2>2. q < m /\ k <= opened[q]
    BY <1>3, <1>2 DEF OpenInv
  <2>3. opened[q] \in Nat /\ cur[q][2] \in Nat
    BY <2>1, NumFacts, BoundsAssumption DEF TypeOK
  <2>4. k \in 0 .. opened[q]
    BY <2>1, <2>2, <2>3
  <2>5. k <= cur[q][2]
    BY <2>1, <2>4, <1>3 DEF NestInv
  <2>6. Alive(q)
    <3>1. stage[q] # "done"
      BY <2>1, <2>3, <2>5 DEF ChainInv
    <3>2. stage[q] # "unborn"
      BY <2>1, <2>2, <2>3 DEF ChainInv
    <3> QED
      BY <3>1, <3>2 DEF Alive
  <2>7. q \in T
    BY <2>1, <2>6, <1>6, <1>2
  <2>8. m <= q /\ m \in Nat /\ q \in Nat
    BY <2>7, <2>1, <1>1, <1>2, NumFacts
  <2> QED
    BY <2>2, <2>8
<1> QED
  BY <1>2, <1>5, <1>6 DEF LoanInv

\* The locals of a block are dropped only where it ends.
LEMMA LocalStep ==
  ASSUME HandleInv, NEW p \in Thread, Step(p), HandleInv',
         NEW b \in Block, local[b] \in {"live", "moved"}, local'[b] \notin {"live", "moved"}
  PROVE  b = cur[p] /\ (Return(p) \/ LeaveScope(p))
<1> USE DEF HandleInv
<1>t. TypeOK /\ TypeOK'
  OBVIOUS
<1>1. CASE \E e \in Block \cup {None}, h \in Thread \cup {None} : Spawn(p, e, h)
  <2>1. local' = [local EXCEPT ![<<n, 0>>] = "live"]
    BY <1>1 DEF Spawn
  <2> QED
    BY <2>1, <1>t DEF TypeOK
<1>2. CASE \E e \in Block : Consume(p, e)
  <2> PICK e \in Block : Consume(p, e)
    BY <1>2
  <2>1. local' = [local EXCEPT ![e] = "moved"]
    BY DEF Consume
  <2> QED
    BY <2>1, <1>t DEF TypeOK
<1>3. CASE \E h \in Thread : StartJoin(p, h)
  BY <1>3 DEF StartJoin, blockVars
<1>4. CASE \E c \in Thread : NextItem(p, c)
  BY <1>4 DEF NextItem, blockVars
<1>5. CASE Return(p) \/ LeaveScope(p)
  <2>1. local' = [local EXCEPT ![cur[p]] = "gone"]
    BY <1>5 DEF Return, LeaveScope
  <2> QED
    BY <2>1, <1>5, <1>t DEF TypeOK
<1>6. CASE BeginScope(p)
  <2>1. local' = [local EXCEPT ![<<p, opened[p] + 1>>] = "live"]
    BY <1>6 DEF BeginScope
  <2> QED
    BY <2>1, <1>t DEF TypeOK
<1>7. CASE EndScope(p) \/ FinishJoin(p) \/ Escape(p)
  BY <1>7 DEF EndScope, FinishJoin, Escape, blockVars
<1> QED
  BY <1>1, <1>2, <1>3, <1>4, <1>5, <1>6, <1>7 DEF Step

\* Threads come to life when they are spawned, and only then.
LEMMA AliveStep ==
  ASSUME HandleInv, NEW p \in Thread, Step(p), HandleInv', NEW c \in Thread, Alive(c)'
  PROVE  \/ Alive(c) /\ c # n /\ frame'[c] = frame[c] /\ lent'[c] = lent[c]
         \/ c = n /\ \E b \in Block \cup {None}, h \in Thread \cup {None} : Spawn(p, b, h)
<1> USE DEF HandleInv
<1>t. TypeOK /\ TypeOK'
  OBVIOUS
<1>n. n \in Nat /\ c \in Nat
  BY <1>t, BoundsAssumption DEF TypeOK, Thread
<1>0. Alive(c) => c # n
  BY <1>n DEF Alive, UnbornInv
<1>1. CASE \E b \in Block \cup {None}, h \in Thread \cup {None} : Spawn(p, b, h)
  <2>1. /\ stage' = [stage EXCEPT ![n] = "running"]
        /\ lent'[c] = lent[c] \/ c = n
        /\ frame'[c] = frame[c] \/ c = n
    BY <1>1, <1>t DEF Spawn, Register, TypeOK
  <2>2. c # n => stage'[c] = stage[c]
    BY <2>1, <1>t DEF TypeOK
  <2> QED
    BY <1>1, <2>1, <2>2 DEF Alive
<1>2. CASE ~\E b \in Block \cup {None}, h \in Thread \cup {None} : Spawn(p, b, h)
  <2>1. UNCHANGED <<frame, lent>>
    BY <1>2 DEF Step, Consume, StartJoin, NextItem, Return, BeginScope, EndScope, FinishJoin,
           LeaveScope, Escape, boxVars
  <2>2. stage[p] \in {"running", "joining", "ending"}
    BY <1>2 DEF Step, Consume, StartJoin, NextItem, Return, BeginScope, EndScope, FinishJoin,
           LeaveScope, Escape
  <2>3. c # p => stage'[c] = stage[c]
    BY <1>2, <1>t DEF Step, Consume, StartJoin, NextItem, Return, BeginScope, EndScope, FinishJoin,
           LeaveScope, Escape, ctlVars, TypeOK
  <2>4. Alive(c)
    BY <2>2, <2>3 DEF Alive
  <2> QED
    BY <2>1, <2>4, <1>0
<1> QED
  BY <1>1, <1>2

\* Whom a thread has its loan from, and whether it was in a scope, stays.
LEMMA OutsideKept ==
  ASSUME HandleInv, NEW p \in Thread, Step(p), NEW d \in Thread, lent[d] # None
  PROVE  frame'[d] = frame[d] /\ lent'[d] = lent[d]
<1>1. stage[d] # "unborn"
  BY DEF HandleInv, UnbornInv
<1> QED
  BY <1>1, FrameGrows

LEMMA LoanStep ==
  ASSUME BlockRules, HandleInv, BlockInv, LoanInv, FreshInv,
         NEW p \in Thread, Step(p), HandleInv'
  PROVE  LoanInv'
<1> USE DEF HandleInv, BlockInv
<1>t. TypeOK /\ TypeOK'
  OBVIOUS
<1>p. /\ cur[p] = <<p, cur[p][2]>> /\ cur[p] \in Block /\ cur[p][2] \in ScopeNum
      /\ opened[p] \in ScopeNum /\ cur[p][2] <= opened[p]
  BY CurFacts
\* A borrowed local stays: where its block ends, all loans of it have ended.
<1>1. ASSUME NEW c \in Thread, Alive(c), lent[c] # None, ~LentOutside(lent[c])
      PROVE  local'[lent[c]] \in {"live", "moved"}
  <2> SUFFICES ASSUME local'[lent[c]] \notin {"live", "moved"} PROVE FALSE
    OBVIOUS
  <2> DEFINE b == lent[c]
  <2>1. b \in Block /\ local[b] \in {"live", "moved"}
    BY <1>1, <1>t DEF LoanInv, TypeOK, OptBlock
  <2>2. b = cur[p] /\ (Return(p) \/ LeaveScope(p))
    BY <2>1, <1>1, LocalStep
  <2>3. PICK d \in Thread : /\ Alive(d)
                            /\ frame[d] \in Block
                            /\ frame[d] \notin left
                            /\ frame[d][1] = b[1]
                            /\ b[2] <= frame[d][2]
    BY <1>1, FirstLoan
  <2> DEFINE k == frame[d][2]
  <2>4. /\ frame[d] = <<p, k>> /\ k \in 0 .. MaxScopes /\ frame[d] # None
        /\ k \in Nat /\ cur[p][2] \in Nat /\ opened[p] \in Nat
    BY <2>2, <2>3, <1>p, NumFacts DEF ScopeNum
  <2>5. k <= opened[p] /\ k > 0
    BY <2>4 DEF OpenInv, FrameInv
  <2>6. k <= cur[p][2]
    <3>1. k \in 0 .. opened[p]
      BY <2>4, <2>5
    <3> QED
      BY <3>1, <2>3, <2>4 DEF NestInv
  <2>7. CASE Return(p)
    BY <2>7, <2>4, <2>5, <2>6 DEF Return
  <2>8. CASE LeaveScope(p)
    <3>1. frame[d] = cur[p]
      BY <2>2, <2>3, <2>4, <2>6, <1>p
    <3>2. /\ stage[p] = "ending" /\ waiting[p] = None /\ Items(closing[p]) = {}
          /\ closing[p] = cur[p]
      BY <2>8 DEF LeaveScope, ChainInv
    <3>3. ~scoped[d]
      BY <3>1, <3>2, <2>4 DEF Items
    <3>4. frame[d][1] = p
      BY <2>4, NumFacts
    <3>5. box[d] = "freed"
      BY <3>3, <3>4, <3>2, <2>4, NumFacts DEF BoxInv
    <3>6. stage[d] = "done"
      BY <3>5 DEF BoxInv
    <3> QED
      BY <3>6, <2>3 DEF Alive
  <2> QED
    BY <2>2, <2>7, <2>8
<1>o. ASSUME NEW c \in Thread, lent'[c] # None, ~LentOutside(lent[c])'
      PROVE  ~LentOutside(lent'[c]) /\ frame'[c] # None
  <2>1. ~(\E d \in Thread : lent'[d] = lent'[c] /\ frame'[d] = None)
    BY <1>o DEF LentOutside
  <2>2. frame'[c] # None
    BY <2>1
  <2>3. ASSUME NEW d \in Thread, lent[d] = lent'[c], frame[d] = None
        PROVE  FALSE
    BY <2>1, <2>3, <1>o, OutsideKept
  <2> QED
    BY <2>2, <2>3 DEF LentOutside
<1> SUFFICES ASSUME NEW c \in Thread, Alive(c)', lent'[c] # None, ~LentOutside(lent[c])'
             PROVE  /\ local'[lent'[c]] \in {"live", "moved"}
                    /\ \/ lent'[c][1] = frame'[c][1] /\ lent'[c][2] <= frame'[c][2]
                       \/ lent'[frame'[c][1]] = lent'[c]
  BY DEF LoanInv
<1>2. CASE Alive(c) /\ c # n /\ frame'[c] = frame[c] /\ lent'[c] = lent[c]
  <2> DEFINE q == frame[c][1]
  <2>0. ~LentOutside(lent[c]) /\ frame[c] # None
    BY <1>o, <1>2
  <2>1. /\ frame[c] # None
        /\ \/ lent[c][1] = frame[c][1] /\ lent[c][2] <= frame[c][2]
           \/ lent[q] = lent[c]
    BY <1>2, <2>0 DEF LoanInv
  <2>2. local'[lent[c]] \in {"live", "moved"}
    BY <1>1, <1>2, <2>0
  <2>3. q \in Thread /\ q # n
    <3>1. q \in Thread /\ q < c
      BY <2>1, <1>t, NumFacts DEF OpenInv, TypeOK, OptBlock
    <3>2. c \in Nat /\ n \in Nat /\ q \in Nat
      <4>1. n \in Nat
        BY ONLY <1>t, BoundsAssumption DEF TypeOK
      <4>2. c \in Nat /\ q \in Nat
        BY ONLY <3>1, NumFacts, c \in Thread
      <4> QED
        BY ONLY <4>1, <4>2
    <3>3. ~(c >= n)
      BY <1>2 DEF Alive, UnbornInv
    <3> QED
      BY <3>1, <3>2, <3>3
  <2>4. lent'[q] = lent[q]
    BY <2>3, FrameGrows
  <2> QED
    BY <1>2, <2>1, <2>2, <2>4
<1>3. CASE c = n /\ \E b \in Block \cup {None}, h \in Thread \cup {None} : Spawn(p, b, h)
  <2> PICK b \in Block \cup {None}, h \in Thread \cup {None} : Spawn(p, b, h)
    BY <1>3
  <2>1. /\ lent'[c] = b /\ frame'[c] = top[p] /\ b \in Block
        /\ stage[p] = "running"
        /\ b \in Lendable(p)
        /\ local' = [local EXCEPT ![<<n, 0>>] = "live"]
        /\ p # c => lent'[p] = lent[p]
    BY <1>3, <1>t DEF Spawn, Register, TypeOK
  <2>0. ~LentOutside(b) /\ top[p] # None
    BY <1>o, <2>1
  <2>2. b \in {e \in Block : e[1] = p /\ e \notin left /\ local[e] = "live"} \/ b = lent[p]
    BY <2>1 DEF Lendable
  <2>3. top[p] = cur[p] /\ cur[p] # None
    BY <2>0, <2>1, <1>p, NumFacts DEF ChainInv, FrameOf
  <2>4. CASE b[1] = p /\ b \notin left /\ local[b] = "live"
    <3>1. local'[b] \in {"live", "moved"}
      BY <2>1, <2>4, <1>t DEF TypeOK
    <3>2. b[2] \in 0 .. opened[p] /\ b = <<p, b[2]>> /\ b[2] \in 0 .. MaxScopes
      BY <2>1, <2>4, <1>p, NumFacts DEF FreshInv, ScopeNum
    <3>3. b[2] <= cur[p][2]
      BY <3>2, <2>4 DEF NestInv
    <3>4. cur[p][1] = p
      BY DEF FrameInv
    <3> QED
      BY <2>1, <2>3, <2>4, <3>1, <3>3, <3>4
  <2>5. CASE b = lent[p]
    <3>1. Alive(p) /\ p # c
      <4>1. Alive(p)
        BY <2>1 DEF Alive
      <4>2. p \in Nat /\ n \in Nat
        BY <1>t, NumFacts, BoundsAssumption DEF TypeOK
      <4> QED
        BY <4>1, <4>2, <1>3 DEF Alive, UnbornInv
    <3>2. local'[b] \in {"live", "moved"}
      BY <3>1, <2>0, <2>5, <2>1, <1>1, NumFacts
    <3>3. frame'[c][1] = p
      BY <2>1, <2>3 DEF FrameInv
    <3> QED
      BY <2>1, <2>3, <2>5, <3>1, <3>2, <3>3
  <2> QED
    BY <2>2, <2>4, <2>5
<1> QED
  BY <1>2, <1>3, AliveStep

-----------------------------------------------------------------------------
\* What ScopeInv says, and that blocks not yet opened have no locals.
LoansInv == ScopeInv /\ FreshInv

LEMMA InitBlock == Init => BlockInv
<1> SUFFICES ASSUME Init PROVE BlockInv
  OBVIOUS
<1> USE NumFacts DEF Init
<1>0. \A p \in Thread : <<p, 0>> \in Block /\ <<p, 0>>[2] = 0
  BY BoundsAssumption DEF ScopeNum
<1>1. ChainInv
  BY <1>0 DEF ChainInv, FrameOf
<1>2. NestInv
  <2>1. left = {} /\ \A p \in Thread : opened[p] = 0 /\ cur[p][2] = 0
    BY <1>0
  <2>2. \A k : k \notin 1 .. 0 /\ (k \in 0 .. 0 => k <= 0)
    OBVIOUS
  <2> QED
    BY ONLY <2>1, <2>2 DEF NestInv
<1>3. OpenInv
  BY DEF OpenInv
<1>4. ScopeJoined
  BY DEF ScopeJoined
<1> QED
  BY <1>1, <1>2, <1>3, <1>4 DEF BlockInv

LEMMA StepBlock ==
  ASSUME BlockRules, HandleInv /\ BlockInv, [Next]_vars
  PROVE  (HandleInv /\ BlockInv)'
<1>1. HandleInv'
  BY StepHandle DEF BlockRules
<1>2. CASE Next
  <2> PICK p \in Thread : Step(p)
    BY <1>2 DEF Next
  <2>1. ChainInv' /\ NestInv' /\ ScopeJoined'
    BY <1>1, ChainStep, NestStep, JoinedStep
  <2> QED
    BY <1>1, <2>1, OpenStep DEF BlockInv
<1>3. CASE UNCHANGED vars
  BY <1>1, <1>3 DEF BlockInv, ChainInv, NestInv, OpenInv, ScopeJoined,
              vars, ctlVars, blockVars, frameVars, boxVars
<1> QED
  BY <1>2, <1>3

LEMMA InitLoans == Init => LoansInv
<1>1. Init => LoanInv
  BY DEF Init, LoanInv
<1>2. Init => FreshInv
  <2> SUFFICES ASSUME Init, NEW b \in Block, b[2] > opened[b[1]]
               PROVE  local[b] = "none"
    BY DEF FreshInv
  <2>1. b[2] > 0
    BY NumFacts DEF Init
  <2>2. b # <<0, 0>>
    BY <2>1
  <2> QED
    BY <2>2 DEF Init
<1> QED
  BY <1>1, <1>2, InitHandle, InitBlock DEF LoansInv, ScopeInv

LEMMA StepLoans ==
  ASSUME BlockRules, LoansInv, [Next]_vars
  PROVE  LoansInv'
<1>2. HandleInv' /\ BlockInv'
  BY StepBlock DEF LoansInv, ScopeInv
<1>3. CASE Next
  <2> PICK p \in Thread : Step(p)
    BY <1>3 DEF Next
  <2>1. FreshInv' /\ LoanInv'
    BY <1>2, FreshStep, LoanStep DEF LoansInv, ScopeInv, BlockInv
  <2> QED
    BY <1>2, <2>1 DEF LoansInv, ScopeInv
<1>4. CASE UNCHANGED vars
  <2>1. FreshInv' /\ LoanInv'
    BY <1>4 DEF LoansInv, ScopeInv, FreshInv, LoanInv, LentOutside, Alive,
                vars, ctlVars, blockVars, frameVars, boxVars
  <2> QED
    BY <1>2, <2>1 DEF LoansInv, ScopeInv
<1> QED
  BY <1>3, <1>4

\* In a program that keeps the rules about handles and catches the errors of a
\* scope in it, a scope: block is left only after its threads have ended, have
\* been joined and have been given back.
THEOREM ScopesJoin ==
  ASSUME BlockRules
  PROVE  Spec => []ScopeJoined
<1>1. Init => HandleInv /\ BlockInv
  BY InitHandle, InitBlock
<1>2. HandleInv /\ BlockInv => ScopeJoined
  BY DEF BlockInv
<1> QED
  BY <1>1, <1>2, StepBlock, PTL DEF Spec

\* Under the same rules no block of a thread, and no return, drops a local that a
\* running thread has borrowed inside a scope, also when it was passed on from
\* thread to thread; whatever the program moves, and lends outside, besides.
THEOREM BorrowsLive ==
  ASSUME BlockRules
  PROVE  Spec => []BorrowAlive
<1>1. LoansInv => BorrowAlive
  BY DEF LoansInv, ScopeInv, LoanInv, BorrowAlive
<1> QED
  BY InitLoans, StepLoans, <1>1, PTL DEF Spec

-----------------------------------------------------------------------------
\* The refinement of ForkJoin.
LEMMA InitForkJoin == Init => FJ!Init
<1> SUFFICES ASSUME Init PROVE FJ!Init
  OBVIOUS
<1>1. [c \in Thread |-> IF stage[c] = "unborn" THEN "new"
                        ELSE IF stage[c] = "done" THEN "ended" ELSE "running"]
        = [c \in Thread |-> IF c = 0 THEN "running" ELSE "new"]
  BY DEF Init
<1> QED
  BY <1>1 DEF Init, FJ!Init

LEMMA SpawnStarts ==
  ASSUME HandleInv, BlockInv, NEW p \in Thread,
         NEW b \in Block \cup {None}, NEW h \in Thread \cup {None}, Spawn(p, b, h)
  PROVE  FJ!Next
<1> USE DEF HandleInv, BlockInv
<1>1. n \in Thread /\ stage[n] = "unborn"
  <2>1. n \in Thread /\ n \in Nat
    BY BoundsAssumption DEF Spawn, TypeOK, Thread
  <2> QED
    BY <2>1 DEF UnbornInv
<1>2. /\ stage' = [stage EXCEPT ![n] = "running"]
      /\ frame' = [frame EXCEPT ![n] = top[p]]
      /\ left' = left
      /\ stage[p] = "running"
  BY DEF Spawn, Register
<1>3. top[p] # None => /\ top[p] \notin left
                       /\ top[p][1] = p
                       /\ top[p] \in ScopeBlock
  <2> SUFFICES ASSUME top[p] # None
               PROVE  top[p] \notin left /\ top[p][1] = p /\ top[p] \in ScopeBlock
    OBVIOUS
  <2>1. top[p] \in Block /\ top[p][1] = p /\ top[p][2] > 0
    BY NumFacts DEF TypeOK, OptBlock, FrameInv
  <2>2. top[p][2] \in 1 .. MaxScopes /\ top[p] = <<p, top[p][2]>>
    BY <2>1, NumFacts, BoundsAssumption DEF ScopeNum
  <2> QED
    BY <2>1, <2>2 DEF OpenInv, ScopeBlock
<1>4. FJ!Start(n, top[p])
  <2> DEFINE f == [c \in Thread |-> IF stage[c] = "unborn" THEN "new"
                                    ELSE IF stage[c] = "done" THEN "ended" ELSE "running"]
             g == [c \in Thread |-> IF stage'[c] = "unborn" THEN "new"
                                    ELSE IF stage'[c] = "done" THEN "ended" ELSE "running"]
  <2>1. f[n] = "new" /\ f[p] = "running"
    BY <1>1, <1>2
  <2>2. g = [f EXCEPT ![n] = "running"]
    BY <1>1, <1>2 DEF TypeOK
  <2>3. (left \cap ScopeBlock)' = left \cap ScopeBlock
    BY <1>2 DEF ScopeBlock
  <2> HIDE DEF f, g
  <2>4. /\ f[n] = "new"
        /\ top[p] # None => top[p] \notin (left \cap ScopeBlock) /\ f[FJ!Owner(top[p])] = "running"
        /\ g = [f EXCEPT ![n] = "running"]
        /\ frame' = [frame EXCEPT ![n] = top[p]]
        /\ (left \cap ScopeBlock)' = left \cap ScopeBlock
    BY <2>1, <2>2, <2>3, <1>2, <1>3 DEF FJ!Owner
  <2> QED
    BY <2>4 DEF f, g, FJ!Start
<1>5. \E c \in Thread, e \in ScopeBlock \cup {None} : FJ!Start(c, e)
  <2>1. top[p] \in ScopeBlock \cup {None}
    BY <1>3
  <2> QED
    BY ONLY <2>1, <1>1, <1>4 DEF FJ!Start
<1> QED
  BY ONLY <1>5 DEF FJ!Next

LEMMA ReturnEnds ==
  ASSUME HandleInv, BlockInv, NEW p \in Thread, Return(p)
  PROVE  FJ!Next
<1> USE DEF HandleInv, BlockInv
<1>1. /\ stage[p] = "running"
      /\ stage' = [stage EXCEPT ![p] = "done"]
      /\ frame' = frame
      /\ left' = left \cup {cur[p]}
      /\ cur[p][2] = 0
  BY DEF Return, boxVars
<1>2. (left \cap ScopeBlock)' = left \cap ScopeBlock
  <2>1. cur[p] \notin ScopeBlock
    BY <1>1 DEF ScopeBlock
  <2>2. ScopeBlock' = ScopeBlock
    BY DEF ScopeBlock
  <2> QED
    BY <2>1, <2>2, <1>1
<1>3. ASSUME NEW d \in Thread, frame[d] # None, frame[d][1] = p
      PROVE  stage[d] = "done"
  <2> DEFINE k == frame[d][2]
  <2>1. frame[d] = <<p, k>> /\ k \in 0 .. MaxScopes /\ k > 0 /\ k <= opened[p]
    BY <1>3, NumFacts DEF TypeOK, OptBlock, FrameInv, OpenInv, ScopeNum
  <2>2. k \in 0 .. opened[p] /\ ~(k <= cur[p][2])
    BY <2>1, <1>1, BoundsAssumption DEF TypeOK
  <2>3. frame[d] \in left
    BY <2>1, <2>2 DEF NestInv
  <2> QED
    BY <2>3, <1>3 DEF ScopeJoined
<1>4. FJ!End(p)
  <2> DEFINE f == [c \in Thread |-> IF stage[c] = "unborn" THEN "new"
                                    ELSE IF stage[c] = "done" THEN "ended" ELSE "running"]
             g == [c \in Thread |-> IF stage'[c] = "unborn" THEN "new"
                                    ELSE IF stage'[c] = "done" THEN "ended" ELSE "running"]
  <2>1. f[p] = "running" /\ g = [f EXCEPT ![p] = "ended"]
    BY <1>1 DEF TypeOK
  <2>2. \A d \in Thread : frame[d] # None /\ FJ!Owner(frame[d]) = p => f[d] = "ended"
    BY <1>3 DEF FJ!Owner
  <2> HIDE DEF f, g
  <2>3. /\ f[p] = "running"
        /\ \A d \in Thread : frame[d] # None /\ FJ!Owner(frame[d]) = p => f[d] = "ended"
        /\ g = [f EXCEPT ![p] = "ended"]
        /\ frame' = frame
        /\ (left \cap ScopeBlock)' = left \cap ScopeBlock
    BY <2>1, <2>2, <1>1, <1>2
  <2> QED
    BY <2>3 DEF f, g, FJ!End
<1> QED
  BY <1>4 DEF FJ!Next

LEMMA LeaveCloses ==
  ASSUME HandleInv, BlockInv, NEW p \in Thread, LeaveScope(p), HandleInv', ScopeJoined'
  PROVE  FJ!Next
<1> USE DEF HandleInv, BlockInv
<1>1. /\ stage[p] = "ending"
      /\ stage' = [stage EXCEPT ![p] = "running"]
      /\ frame' = frame
      /\ left' = left \cup {cur[p]}
      /\ cur[p][2] > 0
  BY DEF LeaveScope, boxVars, ChainInv
<1>2. cur[p] \in ScopeBlock /\ cur[p][1] = p
  <2>1. cur[p][1] = p /\ cur[p] \in Block /\ cur[p][2] \in ScopeNum
    BY NumFacts DEF FrameInv, TypeOK
  <2>2. cur[p][2] \in 1 .. MaxScopes /\ cur[p] = <<p, cur[p][2]>>
    BY <2>1, <1>1, NumFacts, BoundsAssumption DEF ScopeNum
  <2> QED
    BY <2>1, <2>2 DEF ScopeBlock
<1>3. (left \cap ScopeBlock)' = (left \cap ScopeBlock) \cup {cur[p]}
  BY <1>1, <1>2 DEF ScopeBlock
<1>4. ASSUME NEW c \in Thread, frame[c] = cur[p]
      PROVE  stage[c] = "done"
  <2>1. frame'[c] # None /\ frame'[c] \in left'
    BY <1>1, <1>2, <1>4, NumFacts DEF TypeOK
  <2>2. stage'[c] = "done"
    BY <2>1 DEF ScopeJoined
  <2>3. stage'[p] = "running" /\ (c # p => stage'[c] = stage[c])
    BY <1>1 DEF TypeOK
  <2> QED
    BY <2>2, <2>3
<1>5. FJ!Close(cur[p])
  <2> DEFINE f == [c \in Thread |-> IF stage[c] = "unborn" THEN "new"
                                    ELSE IF stage[c] = "done" THEN "ended" ELSE "running"]
             g == [c \in Thread |-> IF stage'[c] = "unborn" THEN "new"
                                    ELSE IF stage'[c] = "done" THEN "ended" ELSE "running"]
  <2>1. f[p] = "running" /\ g = f
    BY <1>1 DEF TypeOK
  <2>2. \A c \in Thread : frame[c] = cur[p] => f[c] = "ended"
    BY <1>4
  <2> HIDE DEF f, g
  <2>3. /\ f[FJ!Owner(cur[p])] = "running"
        /\ \A c \in Thread : frame[c] = cur[p] => f[c] = "ended"
        /\ g = f
        /\ frame' = frame
        /\ (left \cap ScopeBlock)' = (left \cap ScopeBlock) \cup {cur[p]}
    BY <2>1, <2>2, <1>1, <1>2, <1>3 DEF FJ!Owner
  <2> QED
    BY <2>3 DEF f, g, FJ!Close, FJ!AllEnded
<1> QED
  BY <1>2, <1>5 DEF FJ!Next

\* The other steps are not seen.
LEMMA OtherSteps ==
  ASSUME HandleInv, NEW p \in Thread,
         \/ \E b \in Block : Consume(p, b)
         \/ \E h \in Thread : StartJoin(p, h)
         \/ \E c \in Thread : NextItem(p, c)
         \/ BeginScope(p) \/ EndScope(p) \/ FinishJoin(p)
  PROVE  UNCHANGED FJ!vars
<1> USE DEF HandleInv
<1>1. UNCHANGED <<frame, left>>
  BY DEF Consume, StartJoin, NextItem, BeginScope, EndScope, FinishJoin, boxVars, blockVars
<1>2. /\ stage[p] \in {"running", "joining", "ending"}
      /\ stage'[p] \in {"running", "joining", "ending"}
      /\ \A c \in Thread : c # p => stage'[c] = stage[c]
  BY DEF Consume, StartJoin, NextItem, BeginScope, EndScope, FinishJoin, ctlVars, TypeOK
<1>3. [c \in Thread |-> IF stage[c] = "unborn" THEN "new"
                        ELSE IF stage[c] = "done" THEN "ended" ELSE "running"]
        = [c \in Thread |-> IF stage'[c] = "unborn" THEN "new"
                            ELSE IF stage'[c] = "done" THEN "ended" ELSE "running"]
  BY <1>2
<1> QED
  BY <1>1, <1>3 DEF FJ!vars, ScopeBlock

\* The runtime implements structured fork and join: a thread is started in a
\* scope that is open, a scope is left and a thread ends only after the threads
\* that were started in it, whatever else the threads do in between.
THEOREM ImplementsForkJoin ==
  ASSUME BlockRules
  PROVE  Spec => ForkJoinSpec
<1>1. Init => FJ!Init /\ HandleInv /\ BlockInv
  BY InitForkJoin, InitHandle, InitBlock
<1>2. HandleInv /\ BlockInv /\ [Next]_vars => (HandleInv /\ BlockInv)'
  BY StepBlock
<1>3. ASSUME HandleInv /\ BlockInv, [Next]_vars, (HandleInv /\ BlockInv)'
      PROVE  [FJ!Next]_(FJ!vars)
  <2>1. CASE Next
    <3> PICK p \in Thread : Step(p)
      BY <2>1 DEF Next
    <3>1. ~Escape(p)
      BY NoEscape
    <3>2. ScopeJoined'
      BY <1>3 DEF BlockInv
    <3> QED
      BY <3>1, <3>2, <1>3, SpawnStarts, ReturnEnds, LeaveCloses, OtherSteps DEF Step
  <2>2. CASE UNCHANGED vars
    BY <2>2 DEF FJ!vars, vars, ctlVars, blockVars, boxVars, ScopeBlock
  <2> QED
    BY <1>3, <2>1, <2>2
<1> QED
  BY <1>1, <1>2, <1>3, PTL DEF Spec, ForkJoinSpec, FJ!Spec

=============================================================================

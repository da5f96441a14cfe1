------------------------- MODULE ThreadScope_proofs -------------------------
(***************************************************************************)
(* Proofs about ThreadScope, for any number of threads and scopes.         *)
(***************************************************************************)
EXTENDS ThreadScope, TLAPS

\* Blocks are pairs, so a block is determined by its thread and its number.
LEMMA BlockFacts ==
  /\ \A p \in Thread, k \in 0 .. MaxScopes :
       /\ <<p, k>> \in Block
       /\ <<p, k>>[1] = p
       /\ <<p, k>>[2] = k
  /\ \A b \in Block : b[1] \in Thread /\ b[2] \in 0 .. MaxScopes /\ b = <<b[1], b[2]>>
  /\ None \notin Block
  /\ None \notin Thread
  /\ 0 \in Thread
  /\ 0 \in 0 .. MaxScopes
  BY NoneAssumption, BoundsAssumption DEF Block, Thread

LEMMA InitType == Init => TypeOK
  BY BlockFacts, BoundsAssumption DEF Init, TypeOK, Thread, OptThread, OptBlock

LEMMA StepType ==
  ASSUME TypeOK, NEW p \in Thread, Step(p)
  PROVE  TypeOK'
<1> USE BlockFacts, BoundsAssumption DEF TypeOK, OptThread, OptBlock
<1>1. CASE \E b \in Block \cup {None}, h \in Thread \cup {None} : Spawn(p, b, h)
  <2>0. PICK b \in OptBlock, h \in OptThread : Spawn(p, b, h)
    BY <1>1
  <2>1. n \in Thread /\ n' \in 1 .. MaxThreads
    <3>1. n < MaxThreads /\ n' = n + 1
      BY ONLY <2>0 DEF Spawn
    <3>2. n \in 1 .. MaxThreads
      OBVIOUS
    <3> QED
      BY ONLY <3>1, <3>2, BoundsAssumption DEF Thread
  <2>2. holder' \in [Thread -> OptThread]
    <3>1. holder' = [t \in Thread |-> IF t = n THEN p ELSE IF t = h THEN n ELSE holder[t]]
      BY ONLY <2>0 DEF Spawn
    <3>2. ASSUME NEW t \in Thread
          PROVE  (IF t = n THEN p ELSE IF t = h THEN n ELSE holder[t]) \in OptThread
      BY <2>1
    <3> QED
      BY <3>1, <3>2
  <2>3. local' \in [Block -> {"none", "live", "moved", "gone"}]
    BY <2>0, <2>1 DEF Spawn
  <2>4. frame' \in [Thread -> OptBlock] /\ scoped' \in [Thread -> BOOLEAN]
    BY <2>0, <2>1 DEF Spawn, Register
  <2>5. \A c \in Thread : scoped'[c] => frame'[c] # None
    BY <2>0, <2>1, <2>4 DEF Spawn, Register
  <2>6. /\ stage' \in [Thread -> {"unborn", "running", "joining", "ending", "done"}]
        /\ box' \in [Thread -> {"none", "live", "freed"}]
        /\ joined' \in [Thread -> BOOLEAN]
        /\ lent' \in [Thread -> OptBlock]
    BY <2>0, <2>1 DEF Spawn
  <2>7. UNCHANGED <<waiting, closing, cur, parent, opened, left, top, outer>>
    BY <2>0 DEF Spawn, frameVars
  <2> QED
    BY <2>1, <2>2, <2>3, <2>4, <2>5, <2>6, <2>7
<1>2. CASE \E b \in Block : Consume(p, b)
  BY <1>2 DEF Consume, ctlVars, frameVars, boxVars
<1>3. CASE \E h \in Thread : StartJoin(p, h)
  BY <1>3 DEF StartJoin, blockVars, frameVars
<1>4. CASE \E c \in Thread : NextItem(p, c)
  BY <1>4 DEF NextItem, blockVars, frameVars
<1>5. CASE Return(p)
  BY <1>5 DEF Return, frameVars, boxVars
<1>6. CASE BeginScope(p)
  <2>1. <<p, opened[p] + 1>> \in Block /\ opened[p] + 1 \in 0 .. MaxScopes
    BY <1>6 DEF BeginScope
  <2> QED
    BY <1>6, <2>1 DEF BeginScope, ctlVars, boxVars
<1>7. CASE EndScope(p)
  <2>1. top' \in [Thread -> OptBlock]
    BY <1>7 DEF EndScope
  <2>2. stage' \in [Thread -> {"unborn", "running", "joining", "ending", "done"}]
    BY <1>7 DEF EndScope
  <2>3. closing' \in [Thread -> OptBlock]
    BY <1>7 DEF EndScope
  <2> QED
    BY <1>7, <2>1, <2>2, <2>3 DEF EndScope, blockVars, boxVars
<1>8. CASE FinishJoin(p)
  <2>1. stage' \in [Thread -> {"unborn", "running", "joining", "ending", "done"}]
    BY <1>8 DEF FinishJoin
  <2>2. box' \in [Thread -> {"none", "live", "freed"}]
    BY <1>8 DEF FinishJoin
  <2>3. waiting' \in [Thread -> OptThread] /\ joined' \in [Thread -> BOOLEAN]
    BY <1>8 DEF FinishJoin
  <2> QED
    BY <1>8, <2>1, <2>2, <2>3 DEF FinishJoin, blockVars, frameVars
<1>9. CASE LeaveScope(p)
  BY <1>9 DEF LeaveScope, frameVars, boxVars
<1>10. CASE Escape(p)
  BY <1>10 DEF Escape, ctlVars, frameVars, boxVars
<1> QED
  BY <1>1, <1>2, <1>3, <1>4, <1>5, <1>6, <1>7, <1>8, <1>9, <1>10 DEF Step

THEOREM TypeCorrect == Spec => []TypeOK
<1>1. TypeOK /\ [Next]_vars => TypeOK'
  <2>1. TypeOK /\ Next => TypeOK'
    BY StepType DEF Next
  <2>2. TypeOK /\ UNCHANGED vars => TypeOK'
    BY DEF TypeOK, vars, ctlVars, blockVars, frameVars, boxVars
  <2> QED
    BY <2>1, <2>2
<1> QED
  BY InitType, <1>1, PTL DEF Spec

-----------------------------------------------------------------------------
HandleRules == {"join_once", "join_inside"} \subseteq Rules

LEMMA UnbornStep ==
  ASSUME HandleInv, NEW p \in Thread, Step(p), TypeOK'
  PROVE  UnbornInv'
<1> USE BlockFacts DEF HandleInv, UnbornInv
<1>0. n \in Nat /\ n' \in Nat /\ Thread \subseteq Nat
  <2>1. n \in Nat /\ n' \in Nat
    BY BoundsAssumption DEF TypeOK
  <2>2. Thread \subseteq Nat
    BY BoundsAssumption DEF Thread
  <2> QED
    BY <2>1, <2>2
<1> USE <1>0
<1>1. CASE \E b \in Block \cup {None}, h \in Thread \cup {None} : Spawn(p, b, h)
  <2> PICK b \in Block \cup {None}, h \in Thread \cup {None} : Spawn(p, b, h)
    BY <1>1
  <2>1. n \in Thread /\ n' = n + 1 /\ p < n
    BY DEF Spawn, Thread, TypeOK
  <2>2. \A c \in Thread : /\ stage'[c] = (IF c = n THEN "running" ELSE stage[c])
                          /\ box'[c] = (IF c = n THEN "live" ELSE box[c])
                          /\ c # n => joined'[c] = joined[c]
                          /\ c # n => frame'[c] = frame[c]
                          /\ c # n => lent'[c] = lent[c]
    <3> USE <2>1 DEF Spawn, Register, TypeOK
    <3>1. \A c \in Thread : stage'[c] = (IF c = n THEN "running" ELSE stage[c])
      OBVIOUS
    <3>2. \A c \in Thread : box'[c] = (IF c = n THEN "live" ELSE box[c])
      OBVIOUS
    <3>3. \A c \in Thread : c # n => joined'[c] = joined[c]
      OBVIOUS
    <3>4. \A c \in Thread : c # n => frame'[c] = frame[c] /\ lent'[c] = lent[c]
      OBVIOUS
    <3> QED
      BY <3>1, <3>2, <3>3, <3>4
  <2>3. h # n
    BY <2>1 DEF Spawn, Giveable, TypeOK
  <2>4. \A c \in Thread : c # n => holder'[c] = None \/ box[c] # "none"
    BY <2>1, <2>3 DEF Spawn, Giveable, TypeOK
  <2> SUFFICES ASSUME NEW c \in Thread
               PROVE  /\ stage'[c] = "unborn" <=> c >= n'
                      /\ box'[c] = "none" <=> c = 0 \/ c >= n'
                      /\ box'[c] = "none" =>
                           frame'[c] = None /\ holder'[c] = None /\ ~joined'[c]
                      /\ box'[c] = "none" => lent'[c] = None
    OBVIOUS
  <2>0. c \in Nat
    BY <1>0
  <2>5. CASE c = n
    <3>1. ~(c >= n') /\ c # 0
      BY <2>1, <2>0, <2>5, <1>0
    <3>2. stage'[c] = "running" /\ box'[c] = "live"
      BY <2>2, <2>5
    <3> QED
      BY <3>1, <3>2
  <2>6. CASE c # n
    <3>1. c >= n' <=> c >= n
      BY <2>1, <2>0, <2>6
    <3>2. box'[c] = box[c] /\ stage'[c] = stage[c]
      BY <2>2, <2>6
    <3>3. joined'[c] = joined[c] /\ frame'[c] = frame[c] /\ lent'[c] = lent[c]
      BY <2>2, <2>6
    <3>4. box[c] = "none" => holder'[c] = None
      BY <2>4, <2>6
    <3> QED
      BY <3>1, <3>2, <3>3, <3>4
  <2> QED
    BY <2>5, <2>6
<1>2. CASE \E b \in Block : Consume(p, b)
  BY <1>2 DEF Consume, ctlVars, frameVars, boxVars
<1>3. CASE \E h \in Thread : StartJoin(p, h)
  BY <1>3 DEF StartJoin, blockVars, frameVars, TypeOK
<1>4. CASE \E c \in Thread : NextItem(p, c)
  BY <1>4 DEF NextItem
<1>5. CASE Return(p)
  BY <1>5 DEF Return, frameVars, boxVars, TypeOK
<1>6. CASE BeginScope(p)
  BY <1>6 DEF BeginScope, ctlVars, boxVars, TypeOK
<1>7. CASE EndScope(p)
  BY <1>7 DEF EndScope, blockVars, boxVars, TypeOK
<1>8. CASE FinishJoin(p)
  <2>1. box[waiting[p]] = "live" /\ waiting[p] \in Thread
    BY <1>8 DEF FinishJoin, TypeOK, OptThread, WaitInv
  <2> QED
    BY <1>8, <2>1 DEF FinishJoin, blockVars, frameVars, TypeOK
<1>9. CASE LeaveScope(p)
  BY <1>9 DEF LeaveScope, frameVars, boxVars, TypeOK
<1>10. CASE Escape(p)
  BY <1>10 DEF Escape, ctlVars, frameVars, boxVars
<1> QED
  BY <1>1, <1>2, <1>3, <1>4, <1>5, <1>6, <1>7, <1>8, <1>9, <1>10 DEF Step

LEMMA FrameStep ==
  ASSUME HandleInv, NEW p \in Thread, Step(p), TypeOK'
  PROVE  FrameInv'
<1> USE BlockFacts DEF HandleInv, FrameInv
<1>1. CASE \E b \in Block \cup {None}, h \in Thread \cup {None} : Spawn(p, b, h)
  BY <1>1 DEF Spawn, Register, frameVars, TypeOK
<1>2. CASE \E b \in Block : Consume(p, b)
  BY <1>2 DEF Consume, ctlVars, frameVars, boxVars
<1>3. CASE \E h \in Thread : StartJoin(p, h)
  BY <1>3 DEF StartJoin, blockVars, frameVars
<1>4. CASE \E c \in Thread : NextItem(p, c)
  BY <1>4 DEF NextItem, blockVars, frameVars
<1>5. CASE Return(p)
  BY <1>5 DEF Return, frameVars, boxVars
<1>6. CASE BeginScope(p)
  <2>1. <<p, opened[p] + 1>> \in Block /\ opened[p] + 1 > 0
    BY <1>6, BoundsAssumption DEF BeginScope, TypeOK
  <2> QED
    BY <1>6, <2>1 DEF BeginScope, ctlVars, boxVars, TypeOK
<1>7. CASE EndScope(p)
  BY <1>7 DEF EndScope, blockVars, boxVars, TypeOK, OptBlock
<1>8. CASE FinishJoin(p)
  BY <1>8 DEF FinishJoin, blockVars, frameVars
<1>9. CASE LeaveScope(p)
  BY <1>9 DEF LeaveScope, frameVars, boxVars, TypeOK
<1>10. CASE Escape(p)
  BY <1>10 DEF Escape, ctlVars, frameVars, boxVars, TypeOK
<1> QED
  BY <1>1, <1>2, <1>3, <1>4, <1>5, <1>6, <1>7, <1>8, <1>9, <1>10 DEF Step

\* The thread a pl_thread_join looks at is live, and only one looks at it.
LEMMA WaitStep ==
  ASSUME HandleInv, NEW p \in Thread, Step(p), TypeOK', HandleRules
  PROVE  WaitInv'
<1> USE BlockFacts DEF HandleInv, HandleRules
<1>1. CASE \E b \in Block \cup {None}, h \in Thread \cup {None} : Spawn(p, b, h)
  <2> PICK b \in Block \cup {None}, h \in Thread \cup {None} : Spawn(p, b, h)
    BY <1>1
  <2>1. n \in Thread /\ stage[n] = "unborn" /\ box[n] = "none" /\ waiting[n] = None
    <3>1. n \in Thread /\ n \in Nat
      BY BoundsAssumption DEF Spawn, Thread, TypeOK
    <3>2. stage[n] = "unborn" /\ box[n] = "none"
      BY <3>1 DEF UnbornInv
    <3>3. waiting[n] = None
      BY <3>1, <3>2 DEF WaitInv
    <3> QED
      BY <3>1, <3>2, <3>3
  <2>2. waiting' = waiting /\ closing' = closing
    BY DEF Spawn
  <2>3. \A q \in Thread : q # n => stage'[q] = stage[q]
    BY <2>1 DEF Spawn, TypeOK
  <2>4. stage'[n] = "running"
    BY <2>1 DEF Spawn, TypeOK
  <2>5. \A q \in Thread : waiting[q] # None =>
          /\ waiting[q] # n
          /\ waiting[q] \in Thread
          /\ box'[waiting[q]] = box[waiting[q]]
          /\ frame'[waiting[q]] = frame[waiting[q]]
    BY <2>1 DEF Spawn, Register, TypeOK, WaitInv, OptThread
  <2>6. \A q \in Thread : waiting[q] # None => scoped'[waiting[q]] = scoped[waiting[q]]
    BY <2>1, <2>5 DEF Spawn, Register, TypeOK
  <2>7. \A q \in Thread : waiting[q] # None /\ holder[waiting[q]] = None =>
          holder'[waiting[q]] = None
    BY <2>1, <2>5 DEF Spawn, Giveable, TypeOK
  <2> QED
    BY <2>1, <2>2, <2>3, <2>4, <2>5, <2>6, <2>7 DEF WaitInv
<1>2. CASE \E b \in Block : Consume(p, b)
  BY <1>2 DEF Consume, ctlVars, frameVars, boxVars, WaitInv
<1>3. CASE \E h \in Thread : StartJoin(p, h)
  <2> PICK h \in Thread : StartJoin(p, h)
    BY <1>3
  <2>1. /\ waiting[p] = None
        /\ stage[p] = "running"
        /\ waiting' = [waiting EXCEPT ![p] = h]
        /\ stage' = [stage EXCEPT ![p] = "joining"]
        /\ UNCHANGED <<closing, box, scoped, frame>>
    BY DEF StartJoin, WaitInv
  <2>2. /\ holder[h] = p
        /\ holder' = [holder EXCEPT ![h] = None]
        /\ frame[h] = None \/ (scoped[h] /\ frame[h][1] = p)
    BY DEF StartJoin, Joinable
  <2>3. box[h] = "live"
    BY <2>2 DEF BoxInv
  <2>4. \A q \in Thread : waiting[q] # h
    BY <2>2, <2>1 DEF WaitInv
  <2>5. /\ waiting'[p] = h /\ stage'[p] = "joining" /\ holder'[h] = None
        /\ \A q \in Thread \ {p} : waiting'[q] = waiting[q] /\ stage'[q] = stage[q]
        /\ \A c \in Thread \ {h} : holder'[c] = holder[c]
    BY <2>1, <2>2 DEF TypeOK
  <2>6. closing' = closing /\ box' = box /\ scoped' = scoped /\ frame' = frame
    BY <2>1
  <2>7. /\ \A q \in Thread : stage'[q] = "joining" => waiting'[q] # None
        /\ \A q \in Thread : stage'[q] # "ending" => closing'[q] = None
    BY <2>1, <2>5, <2>6 DEF WaitInv
  <2>8. \A q, r \in Thread : waiting'[q] # None /\ waiting'[q] = waiting'[r] => q = r
    BY <2>4, <2>5 DEF WaitInv
  <2>9. ASSUME NEW q \in Thread, waiting'[q] # None
        PROVE  /\ box'[waiting'[q]] = "live"
               /\ \/ /\ stage'[q] = "joining"
                     /\ holder'[waiting'[q]] = None
                     /\ \/ frame'[waiting'[q]] = None
                        \/ scoped'[waiting'[q]] /\ frame'[waiting'[q]][1] = q
                  \/ /\ stage'[q] = "ending"
                     /\ frame'[waiting'[q]] # None
                     /\ frame'[waiting'[q]] = closing'[q]
                     /\ ~scoped'[waiting'[q]]
    <3>1. CASE q = p
      BY <3>1, <2>2, <2>3, <2>5, <2>6
    <3>2. CASE q # p
      <4>1. waiting[q] \in Thread \ {h}
        BY <3>2, <2>4, <2>5, <2>9 DEF TypeOK, OptThread
      <4> QED
        BY <3>2, <4>1, <2>5, <2>6, <2>9 DEF WaitInv
    <3> QED
      BY <3>1, <3>2
  <2> QED
    BY <2>7, <2>8, <2>9 DEF WaitInv
<1>4. CASE \E c \in Thread : NextItem(p, c)
  <2> PICK c \in Thread : NextItem(p, c)
    BY <1>4
  <2>1. /\ stage[p] = "ending"
        /\ waiting[p] = None
        /\ frame[c] # None
        /\ frame[c] = closing[p]
        /\ frame[c][1] = p
        /\ scoped[c]
    BY DEF NextItem, Items, FrameInv
  <2>2. /\ scoped' = [scoped EXCEPT ![c] = FALSE]
        /\ waiting' = [waiting EXCEPT ![p] = c]
        /\ UNCHANGED <<stage, closing, box, frame, holder>>
    BY DEF NextItem
  <2>3. box[c] = "live"
    BY <2>1 DEF BoxInv
  <2>4. \A q \in Thread : waiting[q] # c
    BY <2>1 DEF WaitInv
  <2>5. /\ waiting'[p] = c /\ ~scoped'[c]
        /\ \A q \in Thread \ {p} : waiting'[q] = waiting[q]
        /\ \A t \in Thread \ {c} : scoped'[t] = scoped[t]
    BY <2>2 DEF TypeOK
  <2>6. ASSUME NEW q \in Thread, waiting'[q] # None
        PROVE  /\ box[waiting'[q]] = "live"
               /\ \/ /\ stage[q] = "joining"
                     /\ holder[waiting'[q]] = None
                     /\ \/ frame[waiting'[q]] = None
                        \/ scoped'[waiting'[q]] /\ frame[waiting'[q]][1] = q
                  \/ /\ stage[q] = "ending"
                     /\ frame[waiting'[q]] # None
                     /\ frame[waiting'[q]] = closing[q]
                     /\ ~scoped'[waiting'[q]]
    <3>1. CASE q = p
      BY <3>1, <2>1, <2>3, <2>5
    <3>2. CASE q # p
      <4>1. waiting[q] \in Thread \ {c}
        BY <3>2, <2>4, <2>5, <2>6 DEF TypeOK, OptThread
      <4> QED
        BY <3>2, <4>1, <2>5, <2>6 DEF WaitInv
    <3> QED
      BY <3>1, <3>2
  <2>7. /\ \A q \in Thread : stage[q] = "joining" => waiting'[q] # None
        /\ \A q, r \in Thread : waiting'[q] # None /\ waiting'[q] = waiting'[r] => q = r
    BY <2>1, <2>4, <2>5 DEF WaitInv
  <2>8. \A q \in Thread : stage[q] # "ending" => closing[q] = None
    BY DEF WaitInv
  <2> QED
    BY <2>2, <2>6, <2>7, <2>8 DEF WaitInv
<1>5. CASE Return(p)
  BY <1>5 DEF Return, frameVars, boxVars, WaitInv, TypeOK
<1>6. CASE BeginScope(p)
  BY <1>6 DEF BeginScope, ctlVars, boxVars, WaitInv
<1>7. CASE EndScope(p)
  BY <1>7 DEF EndScope, blockVars, boxVars, WaitInv, TypeOK
<1>8. CASE FinishJoin(p)
  <2>1. /\ waiting' = [waiting EXCEPT ![p] = None]
        /\ UNCHANGED <<closing, scoped, frame, holder>>
        /\ waiting[p] # None
    BY <1>8 DEF FinishJoin
  <2>2. \A q \in Thread : q # p => stage'[q] = stage[q]
    BY <1>8 DEF FinishJoin, TypeOK
  <2>3. stage'[p] # "joining" /\ (stage'[p] # "ending" => stage[p] # "ending")
    BY <1>8 DEF FinishJoin, TypeOK
  <2>4. \A q \in Thread : q # p /\ waiting[q] # None => box'[waiting[q]] = box[waiting[q]]
    BY <1>8 DEF FinishJoin, TypeOK, OptThread, WaitInv
  <2> QED
    BY <2>1, <2>2, <2>3, <2>4 DEF WaitInv, TypeOK
<1>9. CASE LeaveScope(p)
  BY <1>9 DEF LeaveScope, frameVars, boxVars, WaitInv, TypeOK
<1>10. CASE Escape(p)
  BY <1>10 DEF Escape, ctlVars, frameVars, boxVars, WaitInv
<1> QED
  BY <1>1, <1>2, <1>3, <1>4, <1>5, <1>6, <1>7, <1>8, <1>9, <1>10 DEF Step

\* A PlThread is freed only after it was joined, and a recorded one only by
\* the end of the scope that records it.
LEMMA BoxStep ==
  ASSUME HandleInv, NEW p \in Thread, Step(p), TypeOK', HandleRules
  PROVE  BoxInv'
<1> USE BlockFacts DEF HandleInv, HandleRules
<1>1. CASE \E b \in Block \cup {None}, h \in Thread \cup {None} : Spawn(p, b, h)
  <2> PICK b \in Block \cup {None}, h \in Thread \cup {None} : Spawn(p, b, h)
    BY <1>1
  <2>1. n \in Thread /\ stage[n] = "unborn" /\ box[n] = "none" /\ n # p
    BY BoundsAssumption DEF Spawn, Thread, TypeOK, UnbornInv
  <2> SUFFICES ASSUME NEW c \in Thread
               PROVE  /\ joined'[c] => stage'[c] = "done"
                      /\ box'[c] = "freed" => joined'[c]
                      /\ scoped'[c] => box'[c] = "live"
                      /\ holder'[c] # None /\ frame'[c] = None => box'[c] = "live"
                      /\ holder'[c] # None /\ frame'[c] # None => holder'[c] = frame'[c][1]
                      /\ frame'[c] # None /\ ~scoped'[c] /\ box'[c] # "freed" =>
                           /\ stage'[frame'[c][1]] = "ending"
                           /\ waiting'[frame'[c][1]] = c
    BY DEF BoxInv
  <2>2. CASE c = n
    <3>1. ~joined'[c] /\ box'[c] = "live" /\ holder'[c] = p
      BY <2>1, <2>2 DEF Spawn, TypeOK
    <3>2. frame'[c] = top[p]
      BY <2>1, <2>2 DEF Spawn, Register, TypeOK
    <3>3. scoped'[c] <=> top[p] # None
      <4>1. scoped' = [scoped EXCEPT ![c] = top[p] # None]
        BY <2>2 DEF Spawn, Register
      <4>2. scoped \in [Thread -> BOOLEAN]
        BY DEF TypeOK
      <4> QED
        BY <4>1, <4>2, Zenon
    <3>4. top[p] # None => top[p][1] = p
      BY DEF FrameInv
    <3> QED
      BY <3>1, <3>2, <3>3, <3>4
  <2>3. CASE c # n
    <3>1. box'[c] = box[c] /\ stage'[c] = stage[c] /\ frame'[c] = frame[c]
      BY <2>1, <2>3 DEF Spawn, Register, TypeOK
    <3>2. joined'[c] = joined[c] /\ scoped'[c] = scoped[c]
      BY <2>1, <2>3 DEF Spawn, Register, TypeOK
    <3>3. \/ holder'[c] = holder[c]
          \/ holder[c] = p /\ frame[c] = None
      BY <2>1, <2>3 DEF Spawn, Giveable, TypeOK
    <3>4. p # None
      OBVIOUS
    <3>5. frame[c] # None => frame[c][1] \in Thread
      BY DEF TypeOK, OptBlock
    <3>6. \A q \in Thread : stage[q] = "ending" => stage'[q] = "ending"
      BY <2>1 DEF Spawn, TypeOK
    <3>7. waiting' = waiting
      BY DEF Spawn
    <3> QED
      BY <3>1, <3>2, <3>3, <3>4, <3>5, <3>6, <3>7 DEF BoxInv
  <2> QED
    BY <2>2, <2>3
<1>2. CASE \E b \in Block : Consume(p, b)
  BY <1>2 DEF Consume, ctlVars, frameVars, boxVars, BoxInv
<1>3. CASE \E h \in Thread : StartJoin(p, h)
  BY <1>3 DEF StartJoin, blockVars, frameVars, BoxInv, TypeOK, OptBlock
<1>4. CASE \E c \in Thread : NextItem(p, c)
  <2> PICK c \in Thread : NextItem(p, c)
    BY <1>4
  <2>1. /\ stage[p] = "ending" /\ waiting[p] = None
        /\ frame[c] # None /\ frame[c] = closing[p] /\ frame[c][1] = p /\ scoped[c]
    BY DEF NextItem, Items, FrameInv
  <2>2. /\ \A t \in Thread \ {c} : scoped'[t] = scoped[t]
        /\ \A q \in Thread \ {p} : waiting'[q] = waiting[q]
        /\ waiting'[p] = c /\ ~scoped'[c]
        /\ UNCHANGED <<stage, box, joined, frame, holder>>
    BY DEF NextItem, TypeOK
  <2>3. ASSUME NEW t \in Thread
        PROVE  /\ joined[t] => stage[t] = "done"
               /\ box[t] = "freed" => joined[t]
               /\ scoped'[t] => box[t] = "live"
               /\ holder[t] # None /\ frame[t] = None => box[t] = "live"
               /\ holder[t] # None /\ frame[t] # None => holder[t] = frame[t][1]
    BY <2>2 DEF BoxInv
  <2>4. ASSUME NEW t \in Thread, frame[t] # None, ~scoped'[t], box[t] # "freed"
        PROVE  stage[frame[t][1]] = "ending" /\ waiting'[frame[t][1]] = t
    <3>1. CASE t = c
      BY <3>1, <2>1, <2>2
    <3>2. CASE t # c
      <4>1. stage[frame[t][1]] = "ending" /\ waiting[frame[t][1]] = t
        BY <3>2, <2>2, <2>4 DEF BoxInv
      <4>2. frame[t][1] \in Thread \ {p}
        BY <4>1, <2>1, <2>4 DEF TypeOK, OptBlock
      <4> QED
        BY <4>1, <4>2, <2>2
    <3> QED
      BY <3>1, <3>2
  <2> QED
    BY <2>2, <2>3, <2>4 DEF BoxInv
<1>5. CASE Return(p)
  BY <1>5 DEF Return, frameVars, boxVars, BoxInv, TypeOK, OptBlock
<1>6. CASE BeginScope(p)
  BY <1>6 DEF BeginScope, ctlVars, boxVars, BoxInv
<1>7. CASE EndScope(p)
  BY <1>7 DEF EndScope, blockVars, boxVars, BoxInv, TypeOK, OptBlock
<1>8. CASE FinishJoin(p)
  <2> DEFINE h == waiting[p]
  <2>1. h \in Thread /\ box[h] = "live" /\ stage[h] = "done"
    BY <1>8 DEF FinishJoin, TypeOK, OptThread, WaitInv, BoxInv
  <2>2. /\ joined'  = [joined EXCEPT ![h] = TRUE]
        /\ box'     = [box EXCEPT ![h] = IF scoped[h] THEN @ ELSE "freed"]
        /\ waiting' = [waiting EXCEPT ![p] = None]
        /\ UNCHANGED <<scoped, frame, holder>>
    BY <1>8 DEF FinishJoin
  <2>3. \/ holder[h] = None /\ (frame[h] = None \/ scoped[h])
        \/ frame[h] # None /\ ~scoped[h]
    BY <1>8 DEF FinishJoin, WaitInv
  <2>4. \A q \in Thread : stage[q] \in {"ending", "done"} => stage'[q] = stage[q]
    BY <1>8 DEF FinishJoin, TypeOK
  <2> HIDE DEF h
  <2> SUFFICES ASSUME NEW c \in Thread
               PROVE  /\ joined'[c] => stage'[c] = "done"
                      /\ box'[c] = "freed" => joined'[c]
                      /\ scoped'[c] => box'[c] = "live"
                      /\ holder'[c] # None /\ frame'[c] = None => box'[c] = "live"
                      /\ holder'[c] # None /\ frame'[c] # None => holder'[c] = frame'[c][1]
                      /\ frame'[c] # None /\ ~scoped'[c] /\ box'[c] # "freed" =>
                           /\ stage'[frame'[c][1]] = "ending"
                           /\ waiting'[frame'[c][1]] = c
    BY DEF BoxInv
  <2>5. CASE c = h
    BY <2>1, <2>2, <2>3, <2>4, <2>5 DEF BoxInv, TypeOK
  <2>6. CASE c # h
    <3>1. joined'[c] = joined[c] /\ box'[c] = box[c]
      BY <2>1, <2>2, <2>6 DEF TypeOK
    <3>2. frame[c] # None => frame[c][1] \in Thread
      BY DEF TypeOK, OptBlock
    <3>3. \A q \in Thread : waiting[q] = c => waiting'[q] = c
      BY <2>2, <2>6 DEF h, TypeOK
    <3>4. /\ scoped'[c] = scoped[c]
          /\ frame'[c] = frame[c]
          /\ holder'[c] = holder[c]
      BY <2>2
    <3>5. /\ joined[c] => stage[c] = "done"
          /\ box[c] = "freed" => joined[c]
          /\ scoped[c] => box[c] = "live"
          /\ holder[c] # None /\ frame[c] = None => box[c] = "live"
          /\ holder[c] # None /\ frame[c] # None => holder[c] = frame[c][1]
          /\ frame[c] # None /\ ~scoped[c] /\ box[c] # "freed" =>
               /\ stage[frame[c][1]] = "ending"
               /\ waiting[frame[c][1]] = c
      BY DEF BoxInv
    <3>6. joined'[c] => stage'[c] = "done"
      BY <3>1, <3>5, <2>4
    <3>7. frame'[c] # None /\ ~scoped'[c] /\ box'[c] # "freed" =>
            /\ stage'[frame'[c][1]] = "ending"
            /\ waiting'[frame'[c][1]] = c
      BY <2>4, <3>1, <3>2, <3>3, <3>4, <3>5
    <3> QED
      BY <3>1, <3>4, <3>5, <3>6, <3>7
  <2> QED
    BY <2>5, <2>6
<1>9. CASE LeaveScope(p)
  BY <1>9 DEF LeaveScope, frameVars, boxVars, BoxInv, TypeOK, OptBlock
<1>10. CASE Escape(p)
  BY <1>10 DEF Escape, ctlVars, frameVars, boxVars, BoxInv
<1> QED
  BY <1>1, <1>2, <1>3, <1>4, <1>5, <1>6, <1>7, <1>8, <1>9, <1>10 DEF Step

LEMMA InitHandle == Init => HandleInv
<1> SUFFICES ASSUME Init PROVE HandleInv
  OBVIOUS
<1> USE BlockFacts
<1>0. \A c \in Thread : c \in Nat
  BY BoundsAssumption DEF Thread
<1>1. UnbornInv
  BY <1>0 DEF Init, UnbornInv
<1>2. FrameInv
  BY DEF Init, FrameInv
<1>3. WaitInv
  BY DEF Init, WaitInv
<1>4. BoxInv
  BY DEF Init, BoxInv
<1> QED
  BY <1>1, <1>2, <1>3, <1>4, InitType DEF HandleInv

LEMMA StepHandle ==
  ASSUME HandleRules, HandleInv, [Next]_vars
  PROVE  HandleInv'
<1>1. CASE Next
  <2> PICK p \in Thread : Step(p)
    BY <1>1 DEF Next
  <2>1. TypeOK'
    BY StepType DEF HandleInv
  <2> QED
    BY <2>1, UnbornStep, FrameStep, WaitStep, BoxStep DEF HandleInv
<1>2. CASE UNCHANGED vars
  BY <1>2 DEF HandleInv, TypeOK, UnbornInv, FrameInv, WaitInv, BoxInv,
              vars, ctlVars, blockVars, frameVars, boxVars
<1> QED
  BY <1>1, <1>2

\* In a program that joins every handle at most once, and joins a handle that a
\* scope records on the thread that opened the scope, before its end, no
\* PlThread is used after it was freed: not by the trampoline of the thread,
\* not by pl_thread_join, not by pl_scope_end.
THEOREM NeverUsedAfterFree ==
  ASSUME HandleRules
  PROVE  Spec => []NoUseAfterFree
<1>1. HandleInv => NoUseAfterFree
  <2> SUFFICES ASSUME HandleInv, NEW c \in Thread,
                      \/ c # 0 /\ Alive(c)
                      \/ scoped[c]
                      \/ \E p \in Thread : waiting[p] = c
               PROVE  box[c] = "live"
    BY DEF NoUseAfterFree
  <2> USE DEF HandleInv
  <2>1. CASE c # 0 /\ Alive(c)
    <3>1. box[c] # "none"
      BY <2>1 DEF Alive, UnbornInv
    <3>2. box[c] # "freed"
      BY <2>1 DEF Alive, BoxInv
    <3> QED
      BY <3>1, <3>2 DEF TypeOK
  <2>2. CASE scoped[c]
    BY <2>2 DEF BoxInv
  <2>3. CASE \E p \in Thread : waiting[p] = c
    BY <2>3, BlockFacts DEF WaitInv
  <2> QED
    BY <2>1, <2>2, <2>3
<1> QED
  BY InitHandle, StepHandle, <1>1, PTL DEF Spec
=============================================================================

----------------------------- MODULE RcBox_proofs -----------------------------
(***************************************************************************)
(* The counts of rc[T] and weak[T] are right, no reference dangles and     *)
(* only cycles are left, for any number of boxes, locals and nested drop   *)
(* methods.                                                                *)
(***************************************************************************)
EXTENDS RcBox, FunctionTheorems, FiniteSetTheorems, TLAPS

\* Main may overwrite fields.
MainWrites == "deep" \notin style.main /\ style.drop \cap {"read", "write", "deep"} = {}

TaskSet ==
  [do : {"run", "drop", "weak", "finish", "store"}, of : Holder \cup {None}, val : Box \cup {None}]

PlRc == [strong : Nat, weak : Nat, freed : Nat, value : {"unborn", "alive", "dropped"}]

RcType ==
  /\ style \in Styles
  /\ box \in [Box -> PlRc]
  /\ ref \in [Holder -> Box \cup {None}]
  /\ up \in [Box -> Box \cup {None}]
  /\ todo \in Seq(TaskSet)

-----------------------------------------------------------------------------
\* The operators below are about a sequence of tasks td and the holders, weak
\* fields and boxes rf, u and bx, so that they also speak of the middle of a step.

\* The drop of a value that has begun and is not over.
Frame(t) == t.do \in {"run", "finish"} /\ t.of # None

\* How many drops task j is nested in.
Level(td, j) == Cardinality({i \in 1 .. j : Frame(td[i])})

\* A task that is going to change holder h.
Changes(t, h) == t.do \in {"drop", "store"} /\ t.of = h

StaleIn(td, h) == \E i \in DOMAIN td : td[i].do = "store" /\ td[i].of = h

\* What the counts of b are to be.
Kept(rf, td, b)  == {h \in Holder : rf[h] = b /\ ~StaleIn(td, h)}
Due(td, b)       == {i \in DOMAIN td : td[i].do = "store" /\ td[i].val = b}
Held(rf, td, b)  == Cardinality(Kept(rf, td, b)) + Cardinality(Due(td, b))
Weaks(u, b)      == {c \in Box : u[c] = b}
Frames(td, b)    == {i \in DOMAIN td : td[i].do \in {"run", "finish"} /\ td[i].of = b}
WeakHeld(u, td, b) == Cardinality(Weaks(u, b)) + Cardinality(Frames(td, b))

\* The counts, when one more reference to v is in somebody's hands.
Strong(bx, rf, td, v) ==
  \A b \in Box :
    LET n == Held(rf, td, b) + (IF b = v THEN 1 ELSE 0) IN
      bx[b].strong >= n /\ (Lossy \/ bx[b].strong = n)
Weak(bx, u, td) == \A b \in Box : bx[b].weak = WeakHeld(u, td, b)

\* What the counts say of the value and of the box.
Life(bx, rf, u) ==
  \A b \in Box :
    /\ bx[b].value = "unborn" =>
         bx[b].strong = 0 /\ bx[b].weak = 0 /\ bx[b].freed = 0 /\ rf[b] = None /\ u[b] = None
    /\ bx[b].value = "alive" => bx[b].strong >= 1 /\ bx[b].freed = 0
    /\ bx[b].value = "dropped" => bx[b].strong = 0 /\ bx[b].freed = IF bx[b].weak = 0 THEN 1 ELSE 0

\* The tasks: what they are of, and main is the first.
Sorts(td) ==
  \A i \in DOMAIN td :
    /\ td[i].of = None => td[i].do = "run" /\ i = 1
    /\ td[i].do \in {"run", "finish", "weak"} => td[i].of \in Box \cup {None}

\* A drop is of a value that is dropped, and there is one of each.
Drops(bx, td) ==
  \A i \in DOMAIN td : Frame(td[i]) =>
    /\ bx[td[i].of].value = "dropped"
    /\ \A k \in DOMAIN td : Frame(td[k]) /\ td[k].of = td[i].of => k = i

\* What waits to be stored waits for the drop above it.
Waits(td) == \A i \in DOMAIN td : td[i].do = "store" /\ i < Len(td) => Frame(td[i + 1])

\* A local is changed by tasks of its own level, and a holder by one task.
Levels(td) ==
  \A i \in DOMAIN td : td[i].do \in {"drop", "store"} /\ td[i].of \in Local => Level(td, i) = td[i].of[1]
Once(td) ==
  \A i, k \in DOMAIN td : \A h \in Holder : Changes(td[i], h) /\ Changes(td[k], h) => i = k

\* The fields of c are dropped in the drop of c, which comes after task i.
Ending(td, i, c) == \E k \in 1 .. i - 1 : td[k].do = "finish" /\ td[k].of = c
Fields(td) ==
  \A i \in DOMAIN td : td[i].do \in {"drop", "weak"} /\ td[i].of \in Box => Ending(td, i, td[i].of)

\* A field is stored to when it is dropped, or by main, which then has its
\* object in a local.
ByMain(rf, td, i) ==
  /\ MainWrites
  /\ i = 2 /\ td[1].do = "run" /\ td[1].of = None
  /\ \E x \in Name : rf[<<0, x>>] = td[i].of /\ ~StaleIn(td, <<0, x>>)
StoreFields(rf, td) ==
  \A i \in DOMAIN td : td[i].do = "store" /\ td[i].of \in Box =>
    (td[i].val = None /\ Ending(td, i, td[i].of)) \/ ByMain(rf, td, i)

\* A local is stored to when it is dropped, or by the code whose it is.
StoreLocals(td) ==
  \A i \in DOMAIN td : td[i].do = "store" /\ td[i].of \in Local =>
    td[i].val = None \/ (i > 1 /\ td[i - 1].do = "run")

\* A stale holder still refers to the value that is being dropped.
StaleRefs(bx, rf, td) ==
  \A i \in DOMAIN td : td[i].do = "store" =>
    rf[td[i].of] # None /\ bx[rf[td[i].of]].value = "dropped"

\* Locals of code that is over, and fields of values that are dropped, are
\* empty or will be; e is a holder about to be looked after.
Left(bx, rf, u, td, e) ==
  /\ \A l \in Local \ {e} : rf[l] # None =>
       \/ \E i \in DOMAIN td : td[i].do = "run" /\ Level(td, i) = l[1]
       \/ \E i \in DOMAIN td : Changes(td[i], l)
  /\ \A c \in Box \ {e} : bx[c].value = "dropped" /\ rf[c] # None =>
       \E i \in DOMAIN td : (td[i].do = "run" /\ td[i].of = c) \/ Changes(td[i], c)
  /\ \A c \in Box : bx[c].value = "dropped" /\ u[c] # None =>
       \E i \in DOMAIN td : td[i].do \in {"run", "weak"} /\ td[i].of = c

Tasks(bx, rf, td) ==
  /\ Sorts(td) /\ Drops(bx, td) /\ Waits(td) /\ Levels(td) /\ Once(td)
  /\ Fields(td) /\ StoreFields(rf, td) /\ StoreLocals(td) /\ StaleRefs(bx, rf, td)

Sound(bx, rf, u, td) ==
  /\ Strong(bx, rf, td, None)
  /\ Weak(bx, u, td)
  /\ Life(bx, rf, u)
  /\ Tasks(bx, rf, td)
  /\ Left(bx, rf, u, td, None)

RcInv == RcType /\ Sound(box, ref, up, todo)

-----------------------------------------------------------------------------
\* Sequences of tasks.
LEMMA SeqFacts ==
  ASSUME NEW td \in Seq(TaskSet)
  PROVE  /\ Len(td) \in Nat /\ DOMAIN td = 1 .. Len(td)
         /\ \A i \in 1 .. Len(td) :
              /\ td[i] \in TaskSet
              /\ td[i].do \in {"run", "drop", "weak", "finish", "store"}
              /\ td[i].of \in Holder \cup {None} /\ td[i].val \in Box \cup {None}
<1>1. Len(td) \in Nat /\ DOMAIN td = 1 .. Len(td) /\ \A i \in 1 .. Len(td) : td[i] \in TaskSet
  OBVIOUS
<1> QED
  BY <1>1 DEF TaskSet

\* What Task and StoreIn make.
LEMMA TaskFacts ==
  ASSUME NEW do \in {"run", "drop", "weak", "finish"}, NEW of \in Holder \cup {None},
         NEW h \in Holder, NEW v \in Box \cup {None}
  PROVE  /\ Task(do, of) \in TaskSet /\ Task(do, of).do = do /\ Task(do, of).of = of
         /\ StoreIn(h, v) \in TaskSet /\ StoreIn(h, v).do = "store"
         /\ StoreIn(h, v).of = h /\ StoreIn(h, v).val = v
  BY DEF Task, StoreIn, TaskSet

\* The last task taken off.
LEMMA PopFacts ==
  ASSUME NEW td \in Seq(TaskSet), td # <<>>
  PROVE  /\ Len(td) \in Nat \ {0} /\ Len(td) \in DOMAIN td /\ Last(td) = td[Len(td)]
         /\ Front(td) \in Seq(TaskSet) /\ Len(Front(td)) = Len(td) - 1
         /\ DOMAIN Front(td) = 1 .. Len(td) - 1
         /\ \A i \in 1 .. Len(td) - 1 : Front(td)[i] = td[i] /\ i \in DOMAIN td
         /\ \A i \in DOMAIN td : i = Len(td) \/ i \in 1 .. Len(td) - 1
<1>1. Len(td) \in Nat \ {0} /\ DOMAIN td = 1 .. Len(td)
  OBVIOUS
<1>2. Front(td) = [i \in 1 .. Len(td) - 1 |-> td[i]]
  BY DEF Front
<1> DEFINE n == Len(td)
<1> HIDE DEF n
<1>3. n \in Nat \ {0} /\ n = Len(td)
  BY <1>1 DEF n
<1>4. n - 1 \in Nat /\ \A i \in 1 .. n - 1 : i \in 1 .. n
  BY <1>3
<1>5. Front(td) = [i \in 1 .. n - 1 |-> td[i]] /\ \A i \in 1 .. n - 1 : td[i] \in TaskSet
  BY <1>1, <1>2, <1>3, <1>4
<1>6. Front(td) \in Seq(TaskSet) /\ Len(Front(td)) = n - 1 /\ DOMAIN Front(td) = 1 .. n - 1
      /\ \A i \in 1 .. n - 1 : Front(td)[i] = td[i]
  BY <1>4, <1>5
<1>7. n \in 1 .. n /\ \A i \in 1 .. n : i = n \/ i \in 1 .. n - 1
  BY <1>3
<1> QED
  BY <1>1, <1>3, <1>4, <1>6, <1>7 DEF Last

\* A store and the drop it waits for put on top.
LEMMA PushFacts ==
  ASSUME NEW td \in Seq(TaskSet), NEW a \in TaskSet, NEW b \in TaskSet
  PROVE  LET n == Len(td)
             te == td \o <<a, b>> IN
         /\ te \in Seq(TaskSet) /\ Len(te) = n + 2 /\ DOMAIN te = 1 .. n + 2
         /\ \A i \in 1 .. n : te[i] = td[i]
         /\ te[n + 1] = a /\ te[n + 2] = b
         /\ \A i \in 1 .. n + 2 : i \in 1 .. n \/ i = n + 1 \/ i = n + 2
  OBVIOUS

\* The level a task is at.
LEMMA LevelType ==
  ASSUME NEW td, NEW j \in Nat
  PROVE  Level(td, j) \in Nat /\ IsFiniteSet({i \in 1 .. j : Frame(td[i])})
<1>1. IsFiniteSet(1 .. j)
  BY FS_Interval
<1>2. IsFiniteSet({i \in 1 .. j : Frame(td[i])})
  BY <1>1, FS_Subset
<1> QED
  BY <1>2, FS_CardinalityType DEF Level

\* Sequences with the same drops up to j are nested alike there.
LEMMA LevelSame ==
  ASSUME NEW td, NEW te, NEW j \in Nat, \A i \in 1 .. j : Frame(td[i]) <=> Frame(te[i])
  PROVE  Level(td, j) = Level(te, j)
<1>1. {i \in 1 .. j : Frame(td[i])} = {i \in 1 .. j : Frame(te[i])}
  OBVIOUS
<1> QED
  BY <1>1 DEF Level

\* The next task is one level deeper if it is a drop, and on the same level if not.
LEMMA LevelNext ==
  ASSUME NEW td, NEW j \in Nat
  PROVE  Level(td, j + 1) = IF Frame(td[j + 1]) THEN Level(td, j) + 1 ELSE Level(td, j)
<1> DEFINE F(k) == {i \in 1 .. k : Frame(td[i])}
<1>1. IsFiniteSet(F(j)) /\ j + 1 \notin F(j)
  BY LevelType
<1>2. CASE Frame(td[j + 1])
  <2>1. F(j + 1) = F(j) \cup {j + 1}
    BY <1>2
  <2>2. Cardinality(F(j) \cup {j + 1}) = Cardinality(F(j)) + 1
    <3> HIDE DEF F
    <3> QED
      BY <1>1, FS_AddElement
  <2> QED
    BY <1>2, <2>1, <2>2 DEF Level
<1>3. CASE ~Frame(td[j + 1])
  <2>1. F(j + 1) = F(j)
    BY <1>3
  <2> QED
    BY <1>3, <2>1 DEF Level
<1> QED
  BY <1>2, <1>3

\* A drop between i and j makes the level of j the higher one.
LEMMA LevelUp ==
  ASSUME NEW td, NEW i \in Nat, NEW k \in Nat, NEW j \in Nat, i < k, k <= j, Frame(td[k])
  PROVE  Level(td, i) < Level(td, j)
<1> DEFINE F(x) == {y \in 1 .. x : Frame(td[y])}
<1>1. IsFiniteSet(F(i)) /\ IsFiniteSet(F(j))
  BY LevelType
<1>2. k \in F(j) /\ k \notin F(i) /\ F(i) \subseteq F(j)
  OBVIOUS
<1> HIDE DEF F
<1>3. F(i) \cup {k} \subseteq F(j)
  BY <1>2
<1>4. IsFiniteSet(F(i) \cup {k}) /\ Cardinality(F(i) \cup {k}) = Cardinality(F(i)) + 1
  BY <1>1, <1>2, FS_AddElement
<1>5. Cardinality(F(i) \cup {k}) <= Cardinality(F(j))
  BY <1>1, <1>3, FS_Subset
<1>6. Cardinality(F(i)) \in Nat /\ Cardinality(F(j)) \in Nat
  BY <1>1, FS_CardinalityType
<1>7. Level(td, i) = Cardinality(F(i)) /\ Level(td, j) = Cardinality(F(j))
  BY DEF Level, F
<1> QED
  BY <1>4, <1>5, <1>6, <1>7

-----------------------------------------------------------------------------
\* Counting.
LEMMA HolderFacts ==
  /\ IsFiniteSet(Holder) /\ IsFiniteSet(Local) /\ IsFiniteSet(Box)
  /\ Local \subseteq Holder /\ Box \subseteq Holder
  /\ None \notin Box /\ None \notin Local /\ None \notin Holder
  /\ \A l \in Local : l \notin Box /\ l[1] \in 0 .. MaxDepth /\ l[2] \in Name /\ l = <<l[1], l[2]>>
<1>1. IsFiniteSet(0 .. MaxDepth)
  BY BoundsAssumption, FS_Interval
<1>2. IsFiniteSet(Local)
  BY <1>1, NamesAssumption, FS_Product DEF Local
<1>3. IsFiniteSet(Holder)
  BY <1>2, NamesAssumption, FS_Union DEF Holder
<1> QED
  BY <1>2, <1>3, NamesAssumption DEF Holder, Local

\* The sets that are counted are finite.
LEMMA SetFinite ==
  ASSUME NEW td \in Seq(TaskSet), NEW rf, NEW u, NEW b
  PROVE  /\ IsFiniteSet(Kept(rf, td, b)) /\ IsFiniteSet(Due(td, b))
         /\ IsFiniteSet(Weaks(u, b)) /\ IsFiniteSet(Frames(td, b))
         /\ Cardinality(Kept(rf, td, b)) \in Nat /\ Cardinality(Due(td, b)) \in Nat
         /\ Cardinality(Weaks(u, b)) \in Nat /\ Cardinality(Frames(td, b)) \in Nat
<1>1. IsFiniteSet(DOMAIN td)
  BY SeqFacts, FS_Interval
<1>2. Kept(rf, td, b) \subseteq Holder /\ Due(td, b) \subseteq DOMAIN td
      /\ Weaks(u, b) \subseteq Box /\ Frames(td, b) \subseteq DOMAIN td
  BY DEF Kept, Due, Weaks, Frames
<1>3. /\ IsFiniteSet(Kept(rf, td, b)) /\ IsFiniteSet(Due(td, b))
      /\ IsFiniteSet(Weaks(u, b)) /\ IsFiniteSet(Frames(td, b))
  BY <1>1, <1>2, HolderFacts, FS_Subset
<1> QED
  BY <1>3, FS_CardinalityType

\* Two sets that differ in one element at most.
LEMMA OneApart ==
  ASSUME NEW K, NEW M, NEW x, IsFiniteSet(K), IsFiniteSet(M), K \ {x} = M \ {x}
  PROVE  /\ Cardinality(K) \in Nat /\ Cardinality(M) \in Nat
         /\ Cardinality(M) + (IF x \in K THEN 1 ELSE 0)
              = Cardinality(K) + (IF x \in M THEN 1 ELSE 0)
<1>1. Cardinality(K) \in Nat /\ Cardinality(M) \in Nat
  BY FS_CardinalityType
<1>2. Cardinality(K \ {x}) = IF x \in K THEN Cardinality(K) - 1 ELSE Cardinality(K)
  BY FS_RemoveElement
<1>3. Cardinality(K \ {x}) = IF x \in M THEN Cardinality(M) - 1 ELSE Cardinality(M)
  BY FS_RemoveElement
<1> QED
  BY <1>1, <1>2, <1>3

\* A holder that is not stale takes another reference.
LEMMA KeptMove ==
  ASSUME NEW td \in Seq(TaskSet), NEW rf \in [Holder -> Box \cup {None}],
         NEW h \in Holder, NEW v \in Box \cup {None}, ~StaleIn(td, h), NEW b \in Box,
         NEW rg, rg[h] = v, \A x \in Holder : x # h => rg[x] = rf[x]
  PROVE  Cardinality(Kept(rg, td, b)) + (IF b = rf[h] THEN 1 ELSE 0)
           = Cardinality(Kept(rf, td, b)) + (IF b = v THEN 1 ELSE 0)
<1> DEFINE K == Kept(rf, td, b)
           M == Kept(rg, td, b)
<1>1. IsFiniteSet(K) /\ IsFiniteSet(M)
  BY SetFinite
<1>3. (h \in K <=> b = rf[h]) /\ (h \in M <=> b = v)
  BY DEF Kept
<1>4. K \ {h} = M \ {h}
  BY DEF Kept
<1>5. Cardinality(M) + (IF h \in K THEN 1 ELSE 0) = Cardinality(K) + (IF h \in M THEN 1 ELSE 0)
  <2> HIDE DEF K, M
  <2> QED
    BY <1>1, <1>4, OneApart
<1> HIDE DEF K, M
<1>6. Cardinality(M) + (IF b = rf[h] THEN 1 ELSE 0) = Cardinality(K) + (IF b = v THEN 1 ELSE 0)
  BY <1>3, <1>5
<1> QED
  BY <1>6 DEF K, M

\* What a holder that is not stale refers to is held, and so is what is to be
\* stored.
LEMMA HeldFacts ==
  ASSUME NEW td \in Seq(TaskSet), NEW rf
  PROVE  /\ \A b : Held(rf, td, b) \in Nat
         /\ \A h \in Holder : ~StaleIn(td, h) => Held(rf, td, rf[h]) >= 1
         /\ \A i \in DOMAIN td : td[i].do = "store" => Held(rf, td, td[i].val) >= 1
<1>1. ASSUME NEW b
      PROVE  /\ Cardinality(Kept(rf, td, b)) \in Nat /\ Cardinality(Due(td, b)) \in Nat
             /\ Kept(rf, td, b) # {} => Cardinality(Kept(rf, td, b)) >= 1
             /\ Due(td, b) # {} => Cardinality(Due(td, b)) >= 1
  <2>1. /\ IsFiniteSet(Kept(rf, td, b)) /\ IsFiniteSet(Due(td, b))
        /\ Cardinality(Kept(rf, td, b)) \in Nat /\ Cardinality(Due(td, b)) \in Nat
    BY SetFinite
  <2>2. /\ Cardinality(Kept(rf, td, b)) = 0 <=> Kept(rf, td, b) = {}
        /\ Cardinality(Due(td, b)) = 0 <=> Due(td, b) = {}
    BY <2>1, FS_EmptySet
  <2> QED
    BY <2>1, <2>2
<1>2. \A h \in Holder : ~StaleIn(td, h) => h \in Kept(rf, td, rf[h])
  BY DEF Kept
<1>3. \A i \in DOMAIN td : td[i].do = "store" => i \in Due(td, td[i].val)
  BY DEF Due
<1> QED
  BY <1>1, <1>2, <1>3 DEF Held
-----------------------------------------------------------------------------
\* Of the boxes the tasks ask only what became of the values.
LEMMA SameValues ==
  ASSUME NEW bx, NEW by, NEW rf \in [Holder -> Box \cup {None}], NEW u, NEW td \in Seq(TaskSet), NEW e,
         \A b \in Box : by[b].value = bx[b].value \/ (bx[b].value # "dropped" /\ by[b].value # "dropped"),
         Tasks(bx, rf, td)
  PROVE  Tasks(by, rf, td) /\ (Left(bx, rf, u, td, e) => Left(by, rf, u, td, e))
<1>1. /\ \A i \in DOMAIN td : td[i].do = "store" => td[i].of \in Holder
      /\ \A i \in DOMAIN td : Frame(td[i]) => td[i].of \in Box
  BY SeqFacts DEF Tasks, Sorts, Frame
<1>2. Drops(by, td)
  BY <1>1 DEF Tasks, Drops
<1>3. StaleRefs(by, rf, td)
  <2> SUFFICES ASSUME NEW i \in DOMAIN td, td[i].do = "store"
               PROVE  rf[td[i].of] # None /\ by[rf[td[i].of]].value = "dropped"
    BY DEF StaleRefs
  <2>1. rf[td[i].of] # None /\ bx[rf[td[i].of]].value = "dropped"
    BY DEF Tasks, StaleRefs
  <2>2. rf[td[i].of] \in Box
    BY <1>1, <2>1
  <2> QED
    BY <2>1, <2>2
<1>4. Tasks(by, rf, td)
  BY <1>2, <1>3 DEF Tasks
<1>5. Left(bx, rf, u, td, e) => Left(by, rf, u, td, e)
  BY DEF Left
<1> QED
  BY <1>4, <1>5

\* The last task taken off: what is said of the tasks is said of the others.
LEMMA TasksPop ==
  ASSUME NEW bx, NEW rf \in [Holder -> Box \cup {None}], NEW td \in Seq(TaskSet), td # <<>>,
         Tasks(bx, rf, td)
  PROVE  /\ Tasks(bx, rf, Front(td))
         /\ \A j \in 0 .. Len(td) - 1 : Level(Front(td), j) = Level(td, j)
         /\ \A x : StaleIn(Front(td), x) => StaleIn(td, x)
<1> DEFINE fr == Front(td)
           n == Len(td)
<1> HIDE DEF fr, n
<1>1. /\ n \in Nat \ {0} /\ DOMAIN td = 1 .. n
      /\ fr \in Seq(TaskSet) /\ Len(fr) = n - 1 /\ DOMAIN fr = 1 .. n - 1
      /\ \A i \in 1 .. n - 1 : fr[i] = td[i] /\ i \in DOMAIN td
  BY PopFacts, SeqFacts DEF fr, n
<1>2. \A j \in 0 .. n - 1 : Level(fr, j) = Level(td, j)
  <2> TAKE j \in 0 .. n - 1
  <2>1. \A i \in 1 .. j : fr[i] = td[i]
    BY <1>1
  <2> QED
    BY <2>1, LevelSame
<1>3. \A x : StaleIn(fr, x) => StaleIn(td, x)
  BY <1>1 DEF StaleIn
<1>4. Sorts(fr) /\ Drops(bx, fr) /\ StaleRefs(bx, rf, fr)
  BY <1>1 DEF Tasks, Sorts, Drops, StaleRefs
<1>5. Waits(fr)
  <2> SUFFICES ASSUME NEW i \in DOMAIN fr, fr[i].do = "store", i < Len(fr)
               PROVE  Frame(fr[i + 1])
    BY DEF Waits
  <2>1. i + 1 \in 1 .. n - 1 /\ i < n /\ i \in DOMAIN td
    BY <1>1
  <2>2. Frame(td[i + 1])
    BY <1>1, <2>1 DEF Tasks, Waits, n
  <2> QED
    BY <1>1, <2>1, <2>2
<1>6. Levels(fr)
  BY <1>1, <1>2 DEF Tasks, Levels
<1>7. Once(fr)
  BY <1>1 DEF Tasks, Once
<1>8. \A i \in DOMAIN fr, c \in Box : Ending(td, i, c) <=> Ending(fr, i, c)
  BY <1>1 DEF Ending
<1>9. Fields(fr)
  BY <1>1, <1>8 DEF Tasks, Fields
<1>10. StoreFields(rf, fr)
  <2> SUFFICES ASSUME NEW i \in DOMAIN fr, fr[i].do = "store", fr[i].of \in Box
               PROVE  (fr[i].val = None /\ Ending(fr, i, fr[i].of)) \/ ByMain(rf, fr, i)
    BY DEF StoreFields
  <2>1. (td[i].val = None /\ Ending(td, i, td[i].of)) \/ ByMain(rf, td, i)
    BY <1>1 DEF Tasks, StoreFields
  <2>2. i = 2 => fr[1] = td[1] /\ fr[2] = td[2]
    BY <1>1
  <2>3. ByMain(rf, td, i) => ByMain(rf, fr, i)
    BY <1>3, <2>2 DEF ByMain
  <2> QED
    BY <1>1, <1>8, <2>1, <2>3
<1>11. StoreLocals(fr)
  <2>1. \A i \in DOMAIN fr : i > 1 => fr[i - 1] = td[i - 1]
    BY <1>1
  <2> QED
    BY <1>1, <2>1 DEF Tasks, StoreLocals
<1>12. Tasks(bx, rf, fr)
  BY <1>4, <1>5, <1>6, <1>7, <1>9, <1>10, <1>11 DEF Tasks
<1> QED
  BY <1>12, <1>2, <1>3 DEF fr, n

\* A task that is no store and no drop taken off changes none of the counts.
LEMMA HeldPop ==
  ASSUME NEW rf, NEW u, NEW td \in Seq(TaskSet), td # <<>>, NEW b
  PROVE  /\ Last(td).do # "store" => Held(rf, Front(td), b) = Held(rf, td, b)
         /\ ~Frame(Last(td)) /\ b # None => WeakHeld(u, Front(td), b) = WeakHeld(u, td, b)
<1> DEFINE fr == Front(td)
           n == Len(td)
<1> HIDE DEF fr, n
<1>1. /\ DOMAIN fr = 1 .. n - 1 /\ Last(td) = td[n] /\ n \in DOMAIN td
      /\ \A i \in 1 .. n - 1 : fr[i] = td[i] /\ i \in DOMAIN td
      /\ \A i \in DOMAIN td : i = n \/ i \in 1 .. n - 1
  BY PopFacts DEF fr, n
<1>2. Last(td).do # "store" => Kept(rf, fr, b) = Kept(rf, td, b) /\ Due(fr, b) = Due(td, b)
  <2> SUFFICES ASSUME td[n].do # "store"
               PROVE  Kept(rf, fr, b) = Kept(rf, td, b) /\ Due(fr, b) = Due(td, b)
    BY <1>1
  <2>1. Due(fr, b) = Due(td, b)
    BY <1>1 DEF Due
  <2>2. \A x : StaleIn(fr, x) <=> StaleIn(td, x)
    BY <1>1 DEF StaleIn
  <2> QED
    BY <2>1, <2>2 DEF Kept
<1>3. ~Frame(Last(td)) /\ b # None => Frames(fr, b) = Frames(td, b)
  BY <1>1 DEF Frames, Frame
<1> QED
  BY <1>2, <1>3 DEF fr, Held, WeakHeld

-----------------------------------------------------------------------------
\* The operations on the counts.
LEMMA RetainFacts ==
  ASSUME NEW bx \in [Box -> PlRc], NEW v \in Box \cup {None}
  PROVE  /\ pl_rc_retain(bx, v) \in [Box -> PlRc]
         /\ \A b \in Box :
              /\ pl_rc_retain(bx, v)[b].strong = bx[b].strong + (IF b = v THEN 1 ELSE 0)
              /\ pl_rc_retain(bx, v)[b].weak = bx[b].weak
              /\ pl_rc_retain(bx, v)[b].freed = bx[b].freed
              /\ pl_rc_retain(bx, v)[b].value = bx[b].value
<1>1. CASE v = None
  <2>1. \A b \in Box : b # v /\ bx[b].strong \in Nat
    BY <1>1, HolderFacts DEF PlRc
  <2> QED
    BY <1>1, <2>1 DEF pl_rc_retain
<1>2. CASE v # None
  <2>1. pl_rc_retain(bx, v) = [bx EXCEPT ![v] = [bx[v] EXCEPT !.strong = bx[v].strong + 1]]
    BY <1>2 DEF pl_rc_retain
  <2>2. v \in Box /\ [bx[v] EXCEPT !.strong = bx[v].strong + 1] \in PlRc
    BY <1>2 DEF PlRc
  <2>3. \A b \in Box : bx[b].strong \in Nat
    BY DEF PlRc
  <2> QED
    BY <2>1, <2>2, <2>3 DEF PlRc
<1> QED
  BY <1>1, <1>2

\* pl_rc_retain adds one to the strong count of v and leaves the rest alone.
LEMMA Retain ==
  ASSUME NEW bx \in [Box -> PlRc], NEW v \in Box \cup {None}, NEW rf \in [Holder -> Box \cup {None}],
         NEW u, NEW td \in Seq(TaskSet), NEW e,
         Strong(bx, rf, td, None), Weak(bx, u, td), Life(bx, rf, u), Tasks(bx, rf, td),
         Left(bx, rf, u, td, e),
         v # None => bx[v].value = "alive"
  PROVE  LET by == pl_rc_retain(bx, v) IN
         /\ by \in [Box -> PlRc]
         /\ Strong(by, rf, td, v) /\ Weak(by, u, td) /\ Life(by, rf, u) /\ Tasks(by, rf, td)
         /\ Left(by, rf, u, td, e)
<1> DEFINE by == pl_rc_retain(bx, v)
<1> HIDE DEF by
<1>1. /\ by \in [Box -> PlRc]
      /\ \A b \in Box :
           /\ by[b].strong = bx[b].strong + (IF b = v THEN 1 ELSE 0)
           /\ by[b].weak = bx[b].weak
           /\ by[b].freed = bx[b].freed
           /\ by[b].value = bx[b].value
  BY RetainFacts DEF by
<1>2. \A b \in Box : bx[b].strong \in Nat /\ Held(rf, td, b) \in Nat /\ b # None
  BY HeldFacts, HolderFacts DEF PlRc
<1>3. Strong(by, rf, td, v)
  BY <1>1, <1>2 DEF Strong
<1>4. Weak(by, u, td)
  BY <1>1 DEF Weak
<1>5. Life(by, rf, u)
  <2> SUFFICES ASSUME NEW b \in Box
               PROVE  /\ by[b].value = "unborn" =>
                           by[b].strong = 0 /\ by[b].weak = 0 /\ by[b].freed = 0 /\ rf[b] = None /\ u[b] = None
                      /\ by[b].value = "alive" => by[b].strong >= 1 /\ by[b].freed = 0
                      /\ by[b].value = "dropped" =>
                           by[b].strong = 0 /\ by[b].freed = IF by[b].weak = 0 THEN 1 ELSE 0
    BY DEF Life
  <2>1. CASE b = v
    BY <1>1, <1>2, <2>1 DEF Life
  <2>2. CASE b # v
    <3>1. by[b].strong = bx[b].strong
      BY <1>1, <1>2, <2>2
    <3> QED
      BY <1>1, <3>1 DEF Life
  <2> QED
    BY <2>1, <2>2
<1>6. Tasks(by, rf, td) /\ Left(by, rf, u, td, e)
  BY <1>1, SameValues
<1> QED
  BY <1>1, <1>3, <1>4, <1>5, <1>6 DEF by

\* What is held is alive.
LEMMA HeldAlive ==
  ASSUME NEW bx \in [Box -> PlRc], NEW rf \in [Holder -> Box \cup {None}], NEW u,
         NEW td \in Seq(TaskSet), NEW v \in Box \cup {None},
         Strong(bx, rf, td, v), Life(bx, rf, u)
  PROVE  /\ \A b \in Box : Held(rf, td, b) >= 1 => bx[b].value = "alive"
         /\ \A h \in Holder : rf[h] # None /\ ~StaleIn(td, h) => bx[rf[h]].value = "alive"
         /\ v # None => bx[v].value = "alive"
         /\ \A b \in Box : bx[b].strong > 0 => bx[b].value = "alive"
<1>1. \A b \in Box : bx[b].strong \in Nat /\ Held(rf, td, b) \in Nat
                     /\ bx[b].value \in {"unborn", "alive", "dropped"}
  BY HeldFacts DEF PlRc
<1>2. \A b \in Box : bx[b].strong > 0 => bx[b].value = "alive"
  BY <1>1 DEF Life
<1>3. \A b \in Box : Held(rf, td, b) >= 1 \/ b = v => bx[b].strong > 0
  BY <1>1 DEF Strong
<1>4. \A h \in Holder : rf[h] # None /\ ~StaleIn(td, h) => rf[h] \in Box /\ Held(rf, td, rf[h]) >= 1
  BY HeldFacts
<1> QED
  BY <1>2, <1>3, <1>4

-----------------------------------------------------------------------------
\* Holder h is ready to give up its reference and to hold v, the tasks being td.
Ready(bx, rf, u, td, h, v) ==
  /\ Strong(bx, rf, td, v) /\ Weak(bx, u, td) /\ Life(bx, rf, u)
  /\ Tasks(bx, rf, td) /\ Left(bx, rf, u, td, h)
  /\ \A i \in DOMAIN td : ~Changes(td[i], h) /\ (i = Len(td) => td[i].do # "store")
  /\ h \in Local =>
       Level(td, Len(td)) = h[1] /\ (v = None \/ (Len(td) >= 1 /\ td[Len(td)].do = "run"))
  /\ h \in Box =>
       /\ \/ rf[h] = None
          \/ v = None /\ Ending(td, Len(td) + 1, h)
          \/ /\ MainWrites /\ Len(td) = 1 /\ td[1].do = "run" /\ td[1].of = None
             /\ \E x \in Name : rf[<<0, x>>] = h
       /\ v # None => bx[h].value = "alive" \/ \E i \in DOMAIN td : td[i].do = "run" /\ td[i].of = h

\* The locals of main are not what is released while a field that main writes
\* to is stale.
LEMMA MainStays ==
  ASSUME NEW rf, NEW td \in Seq(TaskSet), NEW i \in DOMAIN td, NEW h \in Holder,
         Waits(td), td[i].do = "store", i = 2, i < Len(td),
         h \in Local => Level(td, Len(td)) = h[1]
  PROVE  \A x \in Name : h # <<0, x>>
<1>1. Len(td) \in Nat /\ 3 \in DOMAIN td /\ Frame(td[3])
  BY SeqFacts DEF Waits
<1>2. Level(td, 0) < Level(td, Len(td)) /\ Level(td, 0) \in Nat
  <2>1. 0 < 3 /\ 3 <= Len(td) /\ 0 \in Nat /\ 3 \in Nat
    BY <1>1, SeqFacts
  <2>2. Level(td, 0) < Level(td, Len(td))
    BY <1>1, <2>1, LevelUp
  <2> QED
    BY <2>1, <2>2, LevelType
<1>3. Level(td, Len(td)) # 0
  BY <1>1, <1>2, LevelType
<1>4. \A x \in Name : h = <<0, x>> => h \in Local /\ h[1] = 0
  BY BoundsAssumption DEF Local
<1> QED
  BY <1>3, <1>4

\* h takes v: nothing is dropped.
LEMMA ReleaseStore ==
  ASSUME NEW bx \in [Box -> PlRc], NEW by \in [Box -> PlRc], NEW rf \in [Holder -> Box \cup {None}],
         NEW u, NEW td \in Seq(TaskSet), NEW h \in Holder, NEW v \in Box \cup {None},
         Ready(bx, rf, u, td, h, v),
         \A b \in Box : /\ by[b].strong = bx[b].strong - (IF b = rf[h] THEN 1 ELSE 0)
                        /\ by[b].weak = bx[b].weak
                        /\ by[b].freed = bx[b].freed
                        /\ by[b].value = bx[b].value,
         rf[h] # None => by[rf[h]].strong > 0
  PROVE  LET rg == [rf EXCEPT ![h] = v] IN
         /\ Strong(by, rg, td, None) /\ Weak(by, u, td) /\ Life(by, rg, u)
         /\ Tasks(by, rg, td) /\ Left(by, rg, u, td, None)
<1> DEFINE rg == [rf EXCEPT ![h] = v]
<1>1. rg[h] = v /\ rg \in [Holder -> Box \cup {None}] /\ \A x \in Holder : x # h => rg[x] = rf[x]
  OBVIOUS
<1>2. ~StaleIn(td, h) /\ \A i \in DOMAIN td : td[i].do \in {"drop", "store"} => td[i].of # h
  BY DEF Ready, Changes, StaleIn
<1> HIDE DEF rg
<1>3. /\ \A b \in Box : Cardinality(Kept(rg, td, b)) + (IF b = rf[h] THEN 1 ELSE 0)
                          = Cardinality(Kept(rf, td, b)) + (IF b = v THEN 1 ELSE 0)
      /\ \A b \in Box : Cardinality(Kept(rg, td, b)) \in Nat /\ Cardinality(Kept(rf, td, b)) \in Nat
                        /\ Cardinality(Due(td, b)) \in Nat
  <2>1. ASSUME NEW b \in Box
        PROVE  Cardinality(Kept(rg, td, b)) + (IF b = rf[h] THEN 1 ELSE 0)
                 = Cardinality(Kept(rf, td, b)) + (IF b = v THEN 1 ELSE 0)
    BY <1>1, <1>2, KeptMove, SMTT(30)
  <2>2. \A b \in Box : Cardinality(Kept(rg, td, b)) \in Nat /\ Cardinality(Kept(rf, td, b)) \in Nat
                       /\ Cardinality(Due(td, b)) \in Nat
    BY SetFinite
  <2> QED
    BY <2>1, <2>2
<1>4. \A b \in Box : bx[b].strong \in Nat /\ by[b].strong \in Nat /\ b # None
                     /\ bx[b].value \in {"unborn", "alive", "dropped"}
  BY HolderFacts DEF PlRc
<1>5. Strong(by, rg, td, None)
  <2> SUFFICES ASSUME NEW b \in Box
               PROVE  /\ by[b].strong >= Held(rg, td, b)
                      /\ Lossy \/ by[b].strong = Held(rg, td, b)
    BY <1>3, <1>4 DEF Strong, Held
  <2>1. LET n == Held(rf, td, b) + (IF b = v THEN 1 ELSE 0) IN
          bx[b].strong >= n /\ (Lossy \/ bx[b].strong = n)
    BY DEF Ready, Strong
  <2>2. by[b].strong = bx[b].strong - (IF b = rf[h] THEN 1 ELSE 0)
    OBVIOUS
  <2>3. Held(rg, td, b) + (IF b = rf[h] THEN 1 ELSE 0) = Held(rf, td, b) + (IF b = v THEN 1 ELSE 0)
        /\ Held(rg, td, b) \in Nat /\ Held(rf, td, b) \in Nat
    BY <1>3 DEF Held
  <2> QED
    BY <1>4, <2>1, <2>2, <2>3
<1>6. Weak(by, u, td)
  BY DEF Ready, Weak
<1>7. Life(bx, rf, u) /\ Tasks(bx, rf, td) /\ Left(bx, rf, u, td, h)
  BY DEF Ready
<1>8. h \in Box /\ v # None => bx[h].value # "unborn"
  BY <1>7, HolderFacts DEF Ready, Tasks, Drops, Frame
<1>9. Life(by, rg, u)
  <2> SUFFICES ASSUME NEW b \in Box
               PROVE  /\ by[b].value = "unborn" =>
                           by[b].strong = 0 /\ by[b].weak = 0 /\ by[b].freed = 0 /\ rg[b] = None /\ u[b] = None
                      /\ by[b].value = "alive" => by[b].strong >= 1 /\ by[b].freed = 0
                      /\ by[b].value = "dropped" =>
                           by[b].strong = 0 /\ by[b].freed = IF by[b].weak = 0 THEN 1 ELSE 0
    BY DEF Life
  <2>1. rg[b] # None => rf[b] # None \/ (b = h /\ v # None)
    BY <1>1, HolderFacts
  <2>2. by[b].value = "unborn" => rg[b] = None
    BY <1>7, <1>8, <2>1 DEF Life
  <2>3. CASE b = rf[h]
    BY <1>4, <1>7, <2>2, <2>3 DEF Life
  <2>4. CASE b # rf[h]
    <3>1. by[b].strong = bx[b].strong
      BY <1>4, <2>4
    <3> QED
      BY <1>7, <2>2, <3>1 DEF Life
  <2> QED
    BY <2>3, <2>4
<1>10. Tasks(by, rf, td) /\ Left(by, rf, u, td, h)
  BY <1>7, SameValues
<1>11. \A i \in DOMAIN td : td[i].do = "store" => td[i].of \in Holder /\ td[i].of # h
  BY <1>2, <1>10, SeqFacts DEF Tasks, Sorts
<1>12. StoreFields(rg, td)
  <2> SUFFICES ASSUME NEW i \in DOMAIN td, td[i].do = "store", td[i].of \in Box, ByMain(rf, td, i)
               PROVE  ByMain(rg, td, i)
    BY <1>10 DEF Tasks, StoreFields
  <2>1. PICK x \in Name : rf[<<0, x>>] = td[i].of /\ ~StaleIn(td, <<0, x>>)
    BY DEF ByMain
  <2>2. i = 2 /\ i < Len(td)
    BY SeqFacts DEF ByMain, Ready
  <2>3. h # <<0, x>>
    BY <1>10, <2>2, MainStays DEF Ready, Tasks
  <2>4. <<0, x>> \in Holder
    BY BoundsAssumption DEF Holder, Local
  <2>5. rg[<<0, x>>] = td[i].of
    BY <1>1, <2>1, <2>3, <2>4
  <2> QED
    BY <2>1, <2>5 DEF ByMain
<1>13. StaleRefs(by, rg, td)
  <2> SUFFICES ASSUME NEW i \in DOMAIN td, td[i].do = "store"
               PROVE  rg[td[i].of] # None /\ by[rg[td[i].of]].value = "dropped"
    BY DEF StaleRefs
  <2>1. rg[td[i].of] = rf[td[i].of]
    BY <1>1, <1>11
  <2> QED
    BY <1>10, <2>1 DEF Tasks, StaleRefs
<1>14. Tasks(by, rg, td)
  BY <1>10, <1>12, <1>13 DEF Tasks
<1>15. Left(by, rg, u, td, None)
  <2>1. ASSUME NEW l \in Local, rg[l] # None
        PROVE  \/ \E i \in DOMAIN td : td[i].do = "run" /\ Level(td, i) = l[1]
               \/ \E i \in DOMAIN td : Changes(td[i], l)
    <3>1. CASE l # h
      <4>1. rf[l] # None
        BY <1>1, <2>1, <3>1, HolderFacts
      <4> QED
        BY <1>10, <3>1, <4>1 DEF Left
    <3>2. CASE l = h
      <4>1. Level(td, Len(td)) = l[1] /\ Len(td) >= 1 /\ td[Len(td)].do = "run"
        BY <1>1, <2>1, <3>2 DEF Ready
      <4> QED
        BY <4>1, SeqFacts
    <3> QED
      BY <3>1, <3>2
  <2>2. ASSUME NEW c \in Box, by[c].value = "dropped", rg[c] # None
        PROVE  \E i \in DOMAIN td : (td[i].do = "run" /\ td[i].of = c) \/ Changes(td[i], c)
    <3>1. CASE c # h
      <4>1. rf[c] # None
        BY <1>1, <2>2, <3>1, HolderFacts
      <4> QED
        BY <1>10, <2>2, <3>1, <4>1 DEF Left
    <3>2. CASE c = h
      BY <1>1, <2>2, <3>2 DEF Ready
    <3> QED
      BY <3>1, <3>2
  <2> QED
    BY <1>10, <2>1, <2>2 DEF Left
<1> QED
  BY <1>5, <1>6, <1>9, <1>14, <1>15 DEF rg

\* The last reference goes: the drop of the value begins.
LEMMA ReleaseDrop ==
  ASSUME NEW bx \in [Box -> PlRc], NEW by \in [Box -> PlRc], NEW rf \in [Holder -> Box \cup {None}],
         NEW u, NEW td \in Seq(TaskSet), NEW h \in Holder, NEW v \in Box \cup {None},
         Ready(bx, rf, u, td, h, v),
         NEW old \in Box, old = rf[h], bx[old].value = "alive", bx[old].strong = 1,
         \A b \in Box : /\ by[b].strong = bx[b].strong - (IF b = old THEN 1 ELSE 0)
                        /\ by[b].weak = bx[b].weak + (IF b = old THEN 1 ELSE 0)
                        /\ by[b].freed = bx[b].freed
                        /\ by[b].value = IF b = old THEN "dropped" ELSE bx[b].value
  PROVE  LET te == td \o <<StoreIn(h, v), Task("run", old)>> IN
         /\ Strong(by, rf, te, None) /\ Weak(by, u, te) /\ Life(by, rf, u)
         /\ Tasks(by, rf, te) /\ Left(by, rf, u, te, None)
<1> DEFINE n == Len(td)
           s == StoreIn(h, v)
           r == Task("run", old)
           te == td \o <<s, r>>
<1>1. /\ s \in TaskSet /\ s.do = "store" /\ s.of = h /\ s.val = v
      /\ r \in TaskSet /\ r.do = "run" /\ r.of = old
  BY TaskFacts, HolderFacts
<1>2. /\ te \in Seq(TaskSet) /\ Len(te) = n + 2 /\ DOMAIN te = 1 .. n + 2
      /\ \A i \in 1 .. n : te[i] = td[i]
      /\ te[n + 1] = s /\ te[n + 2] = r
      /\ \A i \in 1 .. n + 2 : i \in 1 .. n \/ i = n + 1 \/ i = n + 2
  <2> HIDE DEF s, r
  <2> QED
    BY <1>1, PushFacts
<1>3. n \in Nat /\ DOMAIN td = 1 .. n
  BY SeqFacts
<1> HIDE DEF n, s, r, te
<1>4. /\ \A i \in 1 .. n : i \in 1 .. n + 2 /\ i # n + 1 /\ i # n + 2
      /\ n + 1 \in 1 .. n + 2 /\ n + 2 \in 1 .. n + 2 /\ n + 1 \notin 1 .. n /\ n + 2 \notin 1 .. n
      /\ n + 1 # n + 2
  BY <1>3
<1>5. old # None /\ h # None
  BY HolderFacts
<1>6. ~StaleIn(td, h) /\ \A i \in 1 .. n : td[i].do \in {"drop", "store"} => td[i].of # h
  BY <1>3 DEF Ready, Changes, StaleIn
<1>7. \A x : StaleIn(te, x) <=> StaleIn(td, x) \/ x = h
  BY <1>1, <1>2, <1>3, <1>4, SMTT(30) DEF StaleIn
<1>8. \A b \in Box : bx[b].strong \in Nat /\ bx[b].weak \in Nat /\ bx[b].freed \in Nat /\ b # None
                     /\ bx[b].value \in {"unborn", "alive", "dropped"}
  BY HolderFacts DEF PlRc
\* The counts.
<1>9. ASSUME NEW b \in Box
      PROVE  /\ Held(rf, te, b) + (IF b = old THEN 1 ELSE 0) = Held(rf, td, b) + (IF b = v THEN 1 ELSE 0)
             /\ Held(rf, te, b) \in Nat /\ Held(rf, td, b) \in Nat
  <2> DEFINE K == Kept(rf, td, b)
             M == Kept(rf, te, b)
             D == Due(td, b)
             E == Due(te, b)
  <2>1. IsFiniteSet(K) /\ IsFiniteSet(M) /\ IsFiniteSet(D) /\ IsFiniteSet(E)
    BY <1>2, SetFinite
  <2>2. K \ {h} = M \ {h} /\ (h \in K <=> b = old) /\ h \notin M
    BY <1>6, <1>7 DEF Kept
  <2>3. D \ {n + 1} = E \ {n + 1} /\ n + 1 \notin D /\ (n + 1 \in E <=> b = v)
    BY <1>1, <1>2, <1>3, <1>4 DEF Due
  <2> HIDE DEF K, M, D, E
  <2>4. /\ Cardinality(K) \in Nat /\ Cardinality(M) \in Nat
        /\ Cardinality(M) + (IF b = old THEN 1 ELSE 0) = Cardinality(K)
    BY <2>1, <2>2, OneApart
  <2>5. /\ Cardinality(D) \in Nat /\ Cardinality(E) \in Nat
        /\ Cardinality(E) = Cardinality(D) + (IF b = v THEN 1 ELSE 0)
    BY <2>1, <2>3, OneApart
  <2>6. Held(rf, te, b) = Cardinality(M) + Cardinality(E) /\ Held(rf, td, b) = Cardinality(K) + Cardinality(D)
    BY DEF Held, K, M, D, E
  <2> QED
    BY <2>4, <2>5, <2>6
<1>10. Strong(by, rf, te, None)
  <2> SUFFICES ASSUME NEW b \in Box
               PROVE  /\ by[b].strong >= Held(rf, te, b)
                      /\ Lossy \/ by[b].strong = Held(rf, te, b)
    BY <1>8, <1>9 DEF Strong
  <2>1. LET m == Held(rf, td, b) + (IF b = v THEN 1 ELSE 0) IN
          bx[b].strong >= m /\ (Lossy \/ bx[b].strong = m)
    BY DEF Ready, Strong
  <2>2. by[b].strong = bx[b].strong - (IF b = old THEN 1 ELSE 0)
    OBVIOUS
  <2> QED
    BY <1>8, <1>9, <2>1, <2>2
<1>11. Weak(by, u, te)
  <2> SUFFICES ASSUME NEW b \in Box
               PROVE  by[b].weak = WeakHeld(u, te, b)
    BY DEF Weak
  <2> DEFINE F == Frames(td, b)
             G == Frames(te, b)
  <2>1. IsFiniteSet(F) /\ IsFiniteSet(G) /\ Cardinality(Weaks(u, b)) \in Nat
    BY <1>2, SetFinite
  <2>2. F \ {n + 2} = G \ {n + 2} /\ n + 2 \notin F /\ (n + 2 \in G <=> b = old)
    BY <1>1, <1>2, <1>3, <1>4 DEF Frames
  <2> HIDE DEF F, G
  <2>7. /\ Cardinality(F) \in Nat /\ Cardinality(G) \in Nat
        /\ Cardinality(G) + (IF n + 2 \in F THEN 1 ELSE 0)
             = Cardinality(F) + (IF n + 2 \in G THEN 1 ELSE 0)
    BY <2>1, <2>2, OneApart
  <2>3. Cardinality(G) = Cardinality(F) + (IF b = old THEN 1 ELSE 0)
    BY <2>2, <2>7
  <2>4. bx[b].weak = Cardinality(Weaks(u, b)) + Cardinality(F)
    BY DEF Ready, Weak, WeakHeld, F
  <2>5. WeakHeld(u, te, b) = Cardinality(Weaks(u, b)) + Cardinality(G)
    BY DEF WeakHeld, G
  <2>6. by[b].weak = bx[b].weak + (IF b = old THEN 1 ELSE 0)
    OBVIOUS
  <2> QED
    BY <2>1, <2>7, <2>3, <2>4, <2>5, <2>6
<1>12. Life(by, rf, u)
  <2>1. Life(bx, rf, u)
    BY DEF Ready
  <2> SUFFICES ASSUME NEW b \in Box
               PROVE  /\ by[b].value = "unborn" =>
                           by[b].strong = 0 /\ by[b].weak = 0 /\ by[b].freed = 0 /\ rf[b] = None /\ u[b] = None
                      /\ by[b].value = "alive" => by[b].strong >= 1 /\ by[b].freed = 0
                      /\ by[b].value = "dropped" =>
                           by[b].strong = 0 /\ by[b].freed = IF by[b].weak = 0 THEN 1 ELSE 0
    BY DEF Life
  <2>2. CASE b = old
    <3>1. by[b].strong = 0 /\ by[b].weak = bx[b].weak + 1 /\ by[b].freed = bx[b].freed /\ by[b].value = "dropped"
      BY <1>8, <2>2
    <3>2. bx[b].freed = 0
      BY <2>1, <2>2 DEF Life
    <3> QED
      BY <1>8, <3>1, <3>2
  <2>3. CASE b # old
    <3>1. by[b].strong = bx[b].strong /\ by[b].weak = bx[b].weak
          /\ by[b].freed = bx[b].freed /\ by[b].value = bx[b].value
      BY <1>8, <2>3
    <3> QED
      BY <2>1, <3>1 DEF Life
  <2> QED
    BY <2>2, <2>3
\* The tasks.
<1>13. Tasks(bx, rf, td) /\ Left(bx, rf, u, td, h)
  BY DEF Ready
<1>14. \A b \in Box : (bx[b].value = "dropped" => by[b].value = "dropped")
                      /\ (by[b].value = "dropped" => b = old \/ bx[b].value = "dropped")
  OBVIOUS
<1>15. \A j \in 0 .. n + 1 : Level(te, j) = IF j = n + 1 THEN Level(td, n) ELSE Level(td, j)
  <2>1. ASSUME NEW j \in 0 .. n PROVE Level(te, j) = Level(td, j)
    <3>1. \A i \in 1 .. j : te[i] = td[i]
      BY <1>2, <1>3
    <3> QED
      BY <1>3, <3>1, LevelSame
  <2>2. Level(te, n + 1) = Level(te, n)
    BY <1>1, <1>2, <1>3, LevelNext DEF Frame
  <2> QED
    BY <1>3, <2>1, <2>2
<1>16. Sorts(te)
  BY <1>1, <1>2, <1>3, <1>5, <1>13 DEF Tasks, Sorts
<1>17. \A i \in 1 .. n : Frame(td[i]) => td[i].of \in Box /\ td[i].of # old /\ by[td[i].of].value = "dropped"
  <2> SUFFICES ASSUME NEW i \in 1 .. n, Frame(td[i])
               PROVE  td[i].of \in Box /\ td[i].of # old /\ by[td[i].of].value = "dropped"
    OBVIOUS
  <2>1. td[i].of \in Box
    BY <1>3, <1>13 DEF Tasks, Sorts, Frame
  <2>2. bx[td[i].of].value = "dropped"
    BY <1>3, <1>13 DEF Tasks, Drops
  <2> QED
    BY <2>1, <2>2
<1>18. Drops(by, te)
  <2> SUFFICES ASSUME NEW i \in 1 .. n + 2, Frame(te[i])
               PROVE  /\ by[te[i].of].value = "dropped"
                      /\ \A k \in 1 .. n + 2 : Frame(te[k]) /\ te[k].of = te[i].of => k = i
    BY <1>2 DEF Drops
  <2>1. \A k \in 1 .. n + 2 : Frame(te[k]) => k \in 1 .. n \/ k = n + 2
    BY <1>1, <1>2 DEF Frame
  <2>2. CASE i \in 1 .. n
    <3>1. te[i] = td[i] /\ Frame(td[i]) /\ td[i].of # old /\ by[td[i].of].value = "dropped"
      BY <1>2, <1>17, <2>2
    <3>2. \A k \in 1 .. n : Frame(te[k]) /\ te[k].of = te[i].of => k = i
      BY <1>2, <1>3, <1>13, <3>1, <2>2 DEF Tasks, Drops
    <3> QED
      BY <1>1, <1>2, <2>1, <3>1, <3>2
  <2>3. CASE i = n + 2
    <3>1. te[i].of = old /\ by[old].value = "dropped"
      BY <1>1, <1>2, <2>3
    <3>2. \A k \in 1 .. n : Frame(te[k]) => te[k].of # old
      BY <1>2, <1>17
    <3> QED
      BY <2>1, <2>3, <3>1, <3>2
  <2> QED
    BY <2>1, <2>2, <2>3
<1>19. Waits(te)
  <2> SUFFICES ASSUME NEW i \in 1 .. n + 2, te[i].do = "store", i < n + 2
               PROVE  Frame(te[i + 1])
    BY <1>2 DEF Waits
  <2>1. CASE i \in 1 .. n
    <3>1. td[i].do = "store"
      BY <1>2, <2>1
    <3>2. i # n
      BY <1>3, <3>1 DEF Ready, n
    <3>3. i < n /\ i + 1 \in 1 .. n
      BY <1>3, <2>1, <3>2
    <3>4. Frame(td[i + 1])
      BY <1>3, <1>13, <2>1, <3>1, <3>3 DEF Tasks, Waits, n
    <3> QED
      BY <1>2, <3>3, <3>4
  <2>2. CASE i = n + 1
    <3>1. i + 1 = n + 2
      BY <1>3, <2>2
    <3> QED
      BY <1>1, <1>2, <1>5, <3>1 DEF Frame
  <2> QED
    BY <1>2, <1>3, <2>1, <2>2
<1>20. Levels(te)
  <2> SUFFICES ASSUME NEW i \in 1 .. n + 2, te[i].do \in {"drop", "store"}, te[i].of \in Local
               PROVE  Level(te, i) = te[i].of[1]
    BY <1>2 DEF Levels
  <2>1. CASE i \in 1 .. n
    <3>1. Level(te, i) = Level(td, i)
      BY <1>3, <1>15, <2>1
    <3> QED
      BY <1>2, <1>3, <1>13, <2>1, <3>1 DEF Tasks, Levels
  <2>2. CASE i = n + 1
    <3>1. Level(te, i) = Level(td, n)
      BY <1>3, <1>15, <2>2
    <3> QED
      BY <1>1, <1>2, <2>2, <3>1 DEF Ready, n
  <2> QED
    BY <1>1, <1>2, <2>1, <2>2
<1>21. Once(te)
  <2>1. \A i \in 1 .. n + 2, x \in Holder : Changes(te[i], x) =>
          (i \in 1 .. n /\ x # h /\ Changes(td[i], x)) \/ (i = n + 1 /\ x = h)
    BY <1>1, <1>2, <1>6 DEF Changes
  <2> QED
    BY <1>2, <1>3, <1>13, <2>1 DEF Tasks, Once
<1>22. \A i \in 1 .. n + 1, c \in Box : Ending(td, i, c) => Ending(te, i, c)
  <2> SUFFICES ASSUME NEW i \in 1 .. n + 1, NEW c \in Box, Ending(td, i, c)
               PROVE  Ending(te, i, c)
    OBVIOUS
  <2>1. PICK k \in 1 .. i - 1 : td[k].do = "finish" /\ td[k].of = c
    BY DEF Ending
  <2>2. k \in 1 .. n
    BY <1>3, <2>1
  <2> QED
    BY <1>2, <2>1, <2>2 DEF Ending
<1>23. Fields(te)
  <2> SUFFICES ASSUME NEW i \in 1 .. n + 2, te[i].do \in {"drop", "weak"}, te[i].of \in Box
               PROVE  Ending(te, i, te[i].of)
    BY <1>2 DEF Fields
  <2>1. i \in 1 .. n
    BY <1>1, <1>2
  <2>2. i \in 1 .. n + 1
    BY <1>3, <2>1
  <2> QED
    BY <1>2, <1>3, <1>13, <1>22, <2>1, <2>2 DEF Tasks, Fields
<1>24. StoreFields(rf, te)
  <2> SUFFICES ASSUME NEW i \in 1 .. n + 2, te[i].do = "store", te[i].of \in Box
               PROVE  (te[i].val = None /\ Ending(te, i, te[i].of)) \/ ByMain(rf, te, i)
    BY <1>2 DEF StoreFields
  <2>1. CASE i \in 1 .. n
    <3>1. i \in 1 .. n + 1 /\ te[i] = td[i]
      BY <1>2, <1>3, <2>1
    <3>2. (td[i].val = None /\ Ending(td, i, td[i].of)) \/ ByMain(rf, td, i)
      BY <1>3, <1>13, <2>1, <3>1 DEF Tasks, StoreFields
    <3>3. ASSUME ByMain(rf, td, i) PROVE ByMain(rf, te, i)
      <4>1. PICK x \in Name : rf[<<0, x>>] = td[i].of /\ ~StaleIn(td, <<0, x>>)
        BY <3>3 DEF ByMain
      <4>2. i = 2 /\ i < Len(td) /\ 1 \in 1 .. n
        BY <1>3, <2>1, <3>1, <3>3 DEF ByMain, Ready, n
      <4>3. h # <<0, x>>
        BY <1>3, <1>13, <2>1, <3>1, <4>2, MainStays DEF Ready, Tasks
      <4> QED
        BY <1>2, <1>7, <3>1, <3>3, <4>1, <4>2, <4>3 DEF ByMain
    <3> QED
      BY <1>22, <3>1, <3>2, <3>3
  <2>2. CASE i = n + 1
    <3>1. te[i] = s /\ h \in Box /\ rf[h] # None
      BY <1>1, <1>2, <1>5, <2>2
    <3>2. CASE v = None /\ Ending(td, Len(td) + 1, h)
      <4>1. n + 1 \in 1 .. n + 1
        BY <1>3
      <4> QED
        BY <1>1, <1>22, <2>2, <3>1, <3>2, <4>1 DEF n
    <3>3. CASE /\ MainWrites /\ Len(td) = 1 /\ td[1].do = "run" /\ td[1].of = None
               /\ \E x \in Name : rf[<<0, x>>] = h
      <4>1. n = 1 /\ i = 2 /\ te[1] = td[1]
        BY <1>2, <1>3, <2>2, <3>3 DEF n
      <4>2. PICK x \in Name : rf[<<0, x>>] = h
        BY <3>3
      <4>3. ~StaleIn(td, <<0, x>>)
        BY <1>3, <3>3, <4>1 DEF StaleIn
      <4>4. <<0, x>> # h
        BY <3>1, BoundsAssumption, HolderFacts DEF Local
      <4> QED
        BY <1>1, <1>7, <3>1, <3>3, <4>1, <4>2, <4>3, <4>4 DEF ByMain
    <3> QED
      BY <3>1, <3>2, <3>3 DEF Ready
  <2> QED
    BY <1>1, <1>2, <2>1, <2>2
<1>25. StoreLocals(te)
  <2> SUFFICES ASSUME NEW i \in 1 .. n + 2, te[i].do = "store", te[i].of \in Local, te[i].val # None
               PROVE  i > 1 /\ te[i - 1].do = "run"
    BY <1>2 DEF StoreLocals
  <2>1. CASE i \in 1 .. n
    <3>1. te[i] = td[i]
      BY <1>2, <2>1
    <3>2. i > 1 /\ td[i - 1].do = "run"
      BY <1>3, <1>13, <2>1, <3>1 DEF Tasks, StoreLocals
    <3>3. i - 1 \in 1 .. n
      BY <1>3, <2>1, <3>2
    <3> QED
      BY <1>2, <3>2, <3>3
  <2>2. CASE i = n + 1
    <3>1. n >= 1 /\ td[n].do = "run"
      BY <1>1, <1>2, <2>2 DEF Ready, n
    <3>2. i > 1 /\ i - 1 = n /\ n \in 1 .. n
      BY <1>3, <2>2, <3>1
    <3> QED
      BY <1>2, <3>1, <3>2
  <2> QED
    BY <1>1, <1>2, <2>1, <2>2
<1>26. StaleRefs(by, rf, te)
  <2> SUFFICES ASSUME NEW i \in 1 .. n + 2, te[i].do = "store"
               PROVE  rf[te[i].of] # None /\ by[rf[te[i].of]].value = "dropped"
    BY <1>2 DEF StaleRefs
  <2>1. CASE i \in 1 .. n
    <3>1. te[i] = td[i]
      BY <1>2, <2>1
    <3>2. rf[td[i].of] # None /\ bx[rf[td[i].of]].value = "dropped"
      BY <1>3, <1>13, <2>1, <3>1 DEF Tasks, StaleRefs
    <3>3. td[i].of \in Holder
      BY <1>3, <1>13, <2>1, <3>1, SeqFacts DEF Tasks, Sorts
    <3> QED
      BY <1>14, <3>1, <3>2, <3>3
  <2>2. CASE i = n + 1
    BY <1>1, <1>2, <1>5, <2>2
  <2> QED
    BY <1>1, <1>2, <2>1, <2>2
<1>27. Tasks(by, rf, te)
  BY <1>16, <1>18, <1>19, <1>20, <1>21, <1>23, <1>24, <1>25, <1>26 DEF Tasks
<1>28. Left(by, rf, u, te, None)
  <2>1. ASSUME NEW l \in Local, rf[l] # None
        PROVE  \/ \E i \in 1 .. n + 2 : te[i].do = "run" /\ Level(te, i) = l[1]
               \/ \E i \in 1 .. n + 2 : Changes(te[i], l)
    <3>1. CASE l # h
      <4>1. \/ \E i \in 1 .. n : td[i].do = "run" /\ Level(td, i) = l[1]
            \/ \E i \in 1 .. n : Changes(td[i], l)
        BY <1>3, <1>13, <2>1, <3>1 DEF Left
      <4>2. \A i \in 1 .. n : i \in 0 .. n + 1 /\ i # n + 1
        BY <1>3
      <4>3. \A i \in 1 .. n : Level(te, i) = Level(td, i)
        BY <1>15, <4>2
      <4> QED
        BY <1>2, <1>4, <4>1, <4>3
    <3>2. CASE l = h
      BY <1>1, <1>2, <1>4, <3>2 DEF Changes
    <3> QED
      BY <3>1, <3>2
  <2>2. ASSUME NEW c \in Box, by[c].value = "dropped", rf[c] # None
        PROVE  \E i \in 1 .. n + 2 : (te[i].do = "run" /\ te[i].of = c) \/ Changes(te[i], c)
    <3>1. CASE c = old
      BY <1>1, <1>2, <1>4, <3>1
    <3>2. CASE c = h
      BY <1>1, <1>2, <1>4, <3>2 DEF Changes
    <3>3. CASE c # old /\ c # h
      <4>1. \E i \in 1 .. n : (td[i].do = "run" /\ td[i].of = c) \/ Changes(td[i], c)
        BY <1>3, <1>13, <1>14, <2>2, <3>3 DEF Left
      <4> QED
        BY <1>2, <1>4, <4>1
    <3> QED
      BY <3>1, <3>2, <3>3
  <2>3. ASSUME NEW c \in Box, by[c].value = "dropped", u[c] # None
        PROVE  \E i \in 1 .. n + 2 : te[i].do \in {"run", "weak"} /\ te[i].of = c
    <3>1. CASE c = old
      BY <1>1, <1>2, <1>4, <3>1
    <3>2. CASE c # old
      <4>1. \E i \in 1 .. n : td[i].do \in {"run", "weak"} /\ td[i].of = c
        BY <1>3, <1>13, <1>14, <2>3, <3>2 DEF Left
      <4> QED
        BY <1>2, <1>4, <4>1
    <3> QED
      BY <3>1, <3>2
  <2> QED
    BY <1>2, <2>1, <2>2, <2>3 DEF Left
<1> QED
  BY <1>10, <1>11, <1>12, <1>27, <1>28 DEF te, s, r

-----------------------------------------------------------------------------
\* A box whose weak count is set.
LEMMA SetWeak ==
  ASSUME NEW p \in PlRc, NEW k \in Nat, NEW q, q = [p EXCEPT !.weak = k]
  PROVE  q \in PlRc /\ q.strong = p.strong /\ q.weak = k /\ q.freed = p.freed /\ q.value = p.value
  BY DEF PlRc

\* A box whose value is set.
LEMMA SetValue ==
  ASSUME NEW p \in PlRc, NEW k \in {"unborn", "alive", "dropped"}, NEW q, q = [p EXCEPT !.value = k]
  PROVE  q \in PlRc /\ q.strong = p.strong /\ q.weak = p.weak /\ q.freed = p.freed /\ q.value = k
  BY DEF PlRc

-----------------------------------------------------------------------------
\* pl_rc_release leaves a sound state when its caller made everything ready.
LEMMA Release ==
  ASSUME NEW bx \in [Box -> PlRc], ref \in [Holder -> Box \cup {None}],
         NEW td \in Seq(TaskSet), NEW h \in Holder, NEW v \in Box \cup {None},
         Ready(bx, ref, up, td, h, v),
         pl_rc_release(bx, h, v, td)
  PROVE  /\ box' \in [Box -> PlRc] /\ ref' \in [Holder -> Box \cup {None}] /\ todo' \in Seq(TaskSet)
         /\ Sound(box', ref', up, todo')
<1> DEFINE old == ref[h]
           r == [bx EXCEPT ![old].strong = @ - 1]
<1>1. \A b \in Box : /\ bx[b].strong \in Nat /\ bx[b].weak \in Nat /\ bx[b].freed \in Nat
                     /\ bx[b].value \in {"unborn", "alive", "dropped"} /\ b # None
  BY HolderFacts DEF PlRc
<1>2. CASE old = None
  <2>1. box' = bx /\ ref' = [ref EXCEPT ![h] = v] /\ todo' = td
    BY <1>2 DEF pl_rc_release
  <2>2. \A b \in Box : /\ bx[b].strong = bx[b].strong - (IF b = ref[h] THEN 1 ELSE 0)
                       /\ bx[b].weak = bx[b].weak
                       /\ bx[b].freed = bx[b].freed
                       /\ bx[b].value = bx[b].value
    BY <1>1, <1>2
  <2>3. LET rg == [ref EXCEPT ![h] = v] IN
          /\ Strong(bx, rg, td, None) /\ Weak(bx, up, td) /\ Life(bx, rg, up)
          /\ Tasks(bx, rg, td) /\ Left(bx, rg, up, td, None)
    BY <1>2, <2>2, ReleaseStore
  <2> QED
    BY <2>1, <2>3 DEF Sound
<1>3. CASE old # None
  <2>1. old \in Box
    BY <1>3
  <2>2. /\ DOMAIN r = Box /\ r[old].strong = bx[old].strong - 1
        /\ r = [bx EXCEPT ![old] = [bx[old] EXCEPT !.strong = bx[old].strong - 1]]
    BY <2>1 DEF PlRc
  <2>3. /\ ~StaleIn(td, h)
        /\ Strong(bx, ref, td, v) /\ Life(bx, ref, up)
    BY DEF Ready, Changes, StaleIn
  <2>4. bx[old].value = "alive" /\ bx[old].strong >= 1
    BY <1>3, <2>1, <2>3, HeldAlive DEF Life
  <2>5. CASE r[old].strong > 0
    <3>1. box' = r /\ ref' = [ref EXCEPT ![h] = v] /\ todo' = td
      <4>1. ~(r[old].strong <= 0)
        BY <1>1, <2>1, <2>2, <2>5
      <4> QED
        BY <1>3, <4>1 DEF pl_rc_release
    <3>2. [bx[old] EXCEPT !.strong = bx[old].strong - 1] \in PlRc
      BY <1>1, <2>1, <2>4, SMTT(30) DEF PlRc
    <3>3. /\ r \in [Box -> PlRc]
          /\ \A b \in Box : /\ r[b].strong = bx[b].strong - (IF b = old THEN 1 ELSE 0)
                            /\ r[b].weak = bx[b].weak
                            /\ r[b].freed = bx[b].freed
                            /\ r[b].value = bx[b].value
      BY <1>1, <2>1, <2>2, <3>2 DEF PlRc
    <3> HIDE DEF r
    <3>4. LET rg == [ref EXCEPT ![h] = v] IN
            /\ Strong(r, rg, td, None) /\ Weak(r, up, td) /\ Life(r, rg, up)
            /\ Tasks(r, rg, td) /\ Left(r, rg, up, td, None)
      BY <2>5, <3>3, ReleaseStore
    <3> QED
      BY <3>1, <3>3, <3>4 DEF Sound
  <2>6. CASE ~(r[old].strong > 0)
    <3>1. bx[old].strong = 1
      BY <1>1, <2>1, <2>2, <2>4, <2>6
    <3> DEFINE q == [r EXCEPT ![old].weak = @ + Hold, ![old].value = "dropped"]
               te == td \o <<StoreIn(h, v), Task("run", old)>>
    <3>2. box' = q /\ ref' = ref /\ todo' = te
      <4>1. r[old].strong <= 0
        BY <2>2, <3>1
      <4> QED
        BY <1>3, <2>4, <2>6, <4>1 DEF pl_rc_release
    <3> DEFINE ro == r[old]
               rec == [[ro EXCEPT !.weak = ro.weak + 1] EXCEPT !.value = "dropped"]
    <3>3. q = [r EXCEPT ![old] = rec]
      BY <2>1, <2>2 DEF Hold
    <3>6. bx[old] \in PlRc /\ 0 \in Nat /\ bx[old].weak + 1 \in Nat
      BY <1>1, <2>1
    <3>7. /\ ro \in PlRc /\ ro.strong = 0 /\ ro.weak = bx[old].weak /\ ro.freed = bx[old].freed
          /\ \A b \in Box : b # old => r[b] = bx[b]
      <4>1. ro = [bx[old] EXCEPT !.strong = 0]
        BY <2>1, <3>1
      <4>2. \A b \in Box : b # old => r[b] = bx[b]
        BY <2>1
      <4> HIDE DEF ro, r, old
      <4>3. ro \in PlRc /\ ro.strong = 0 /\ ro.weak = bx[old].weak /\ ro.freed = bx[old].freed
        BY <3>6, <4>1 DEF PlRc
      <4> QED
        BY <4>2, <4>3
    <3>8. /\ rec \in PlRc /\ rec.strong = 0 /\ rec.weak = bx[old].weak + 1
          /\ rec.freed = bx[old].freed /\ rec.value = "dropped"
      <4> DEFINE rw == [ro EXCEPT !.weak = ro.weak + 1]
      <4> HIDE DEF ro
      <4>1. ro.weak + 1 \in Nat
        BY <3>6, <3>7
      <4>2. rw \in PlRc /\ rw.strong = 0 /\ rw.weak = bx[old].weak + 1 /\ rw.freed = bx[old].freed
        BY <3>7, <4>1, SetWeak
      <4>4. "dropped" \in {"unborn", "alive", "dropped"}
        OBVIOUS
      <4>3. rec = [rw EXCEPT !.value = "dropped"]
        OBVIOUS
      <4> HIDE DEF rw, rec
      <4> QED
        BY <4>2, <4>3, <4>4, SetValue
    <3> HIDE DEF rec, r
    <3>9. q \in [Box -> PlRc] /\ q[old] = rec /\ \A b \in Box : b # old => q[b] = bx[b]
      BY <2>1, <2>2, <3>3, <3>7, <3>8
    <3> HIDE DEF q, te
    <3>4. /\ q \in [Box -> PlRc]
          /\ \A b \in Box : /\ q[b].strong = bx[b].strong - (IF b = old THEN 1 ELSE 0)
                            /\ q[b].weak = bx[b].weak + (IF b = old THEN 1 ELSE 0)
                            /\ q[b].freed = bx[b].freed
                            /\ q[b].value = IF b = old THEN "dropped" ELSE bx[b].value
      BY <1>1, <2>1, <3>1, <3>8, <3>9
    <3>5. /\ Strong(q, ref, te, None) /\ Weak(q, up, te) /\ Life(q, ref, up)
          /\ Tasks(q, ref, te) /\ Left(q, ref, up, te, None)
      BY <2>1, <2>4, <3>1, <3>4, ReleaseDrop DEF te
    <3>10. te \in Seq(TaskSet)
      BY <1>3, <2>1, TaskFacts, PushFacts, HolderFacts DEF te
    <3> QED
      BY <3>2, <3>4, <3>5, <3>10 DEF Sound
  <2> QED
    BY <2>5, <2>6
<1> QED
  BY <1>2, <1>3

-----------------------------------------------------------------------------
\* The code that is running: no task changes a local of it.
LEMMA Code ==
  ASSUME RcInv, Running
  PROVE  /\ Len(todo) \in Nat \ {0} /\ Last(todo) = todo[Len(todo)] /\ todo[Len(todo)].do = "run"
         /\ DOMAIN todo = 1 .. Len(todo) /\ Self = todo[Len(todo)].of
         /\ Self \in Box \cup {None} /\ (Self = None => Len(todo) = 1)
         /\ Depth = Level(todo, Len(todo))
         /\ \A x \in Mine :
              /\ x \in Local /\ x \in Holder /\ x[1] = Level(todo, Len(todo))
              /\ ~StaleIn(todo, x) /\ \A i \in DOMAIN todo : ~Changes(todo[i], x)
         /\ \A v \in {None} \cup {ref[x] : x \in Mine} :
              v \in Box \cup {None} /\ (v # None => box[v].value = "alive")
<1> DEFINE n == Len(todo)
<1>1. todo \in Seq(TaskSet) /\ todo # <<>> /\ Last(todo).do = "run"
  BY DEF RcInv, RcType, Running
<1>2. n \in Nat \ {0} /\ Last(todo) = todo[n] /\ DOMAIN todo = 1 .. n /\ n \in DOMAIN todo
  BY <1>1, PopFacts, SeqFacts
<1>3. Tasks(box, ref, todo) /\ Strong(box, ref, todo, None) /\ Life(box, ref, up)
      /\ ref \in [Holder -> Box \cup {None}] /\ box \in [Box -> PlRc]
  BY DEF RcInv, RcType, Sound
<1>4. Self = todo[n].of /\ Self \in Box \cup {None} /\ (Self = None => n = 1)
  BY <1>1, <1>2, <1>3 DEF Self, Tasks, Sorts
<1>5. Depth = Level(todo, n)
  BY <1>2 DEF Depth, Level, Frame
<1>6. ASSUME NEW x \in Mine
      PROVE  /\ x \in Local /\ x \in Holder /\ x[1] = Level(todo, n)
             /\ ~StaleIn(todo, x) /\ \A i \in DOMAIN todo : ~Changes(todo[i], x)
  <2>5. Level(todo, n) \in Nat
    BY <1>2, LevelType
  <2>1. Depth \in 0 .. MaxDepth /\ x \in {Depth} \X Name
    BY <1>5, <2>5, BoundsAssumption DEF Mine
  <2>2. x \in Local /\ x \in Holder /\ x[1] = Level(todo, n)
    BY <1>5, <2>1, HolderFacts DEF Local
  <2>3. ASSUME NEW i \in DOMAIN todo, Changes(todo[i], x)
        PROVE  FALSE
    <3>1. Level(todo, i) = x[1] /\ i # n
      BY <1>1, <1>2, <1>3, <2>2, <2>3 DEF Changes, Tasks, Levels
    <3>2. i < n /\ i \in Nat /\ n \in Nat
      BY <1>2, <3>1
    <3>3. Frame(todo[n])
      BY <1>1, <1>2, <1>4, <3>2 DEF Frame
    <3>4. Level(todo, i) < Level(todo, n)
      BY <3>2, <3>3, LevelUp
    <3> QED
      BY <2>2, <2>5, <3>1, <3>4
  <2>4. ~StaleIn(todo, x)
    BY <2>3 DEF StaleIn, Changes
  <2> QED
    BY <2>2, <2>3, <2>4
<1>7. ASSUME NEW v \in {None} \cup {ref[x] : x \in Mine}
      PROVE  v \in Box \cup {None} /\ (v # None => box[v].value = "alive")
  BY <1>1, <1>3, <1>6, HeldAlive
<1> QED
  BY <1>1, <1>2, <1>4, <1>5, <1>6, <1>7

\* An object the running code can name: its fields are not being dropped.
LEMMA Named ==
  ASSUME RcInv, Running, NEW c \in Object
  PROVE  /\ c \in Box /\ c \in Holder
         /\ box[c].value = "alive" \/ \E i \in DOMAIN todo : todo[i].do = "run" /\ todo[i].of = c
         /\ box[c].value # "unborn"
         /\ box[c].value = "alive" \/ c = Self
         /\ \A i \in DOMAIN todo : todo[i].do \in {"drop", "weak"} => todo[i].of # c
         /\ \A i \in DOMAIN todo : ~Ending(todo, i, c)
<1> DEFINE n == Len(todo)
<1>1. /\ n \in Nat \ {0} /\ todo[n].do = "run" /\ DOMAIN todo = 1 .. n
      /\ Self = todo[n].of /\ Self \in Box \cup {None}
  BY Code
<1>2. c \in Box /\ (box[c].value = "alive" \/ c = Self)
  BY <1>1 DEF Object
<1>3. c # None /\ c \in Holder
  BY <1>2, HolderFacts
<1>4. n \in DOMAIN todo /\ Tasks(box, ref, todo)
  BY <1>1 DEF RcInv, Sound
<1>5. c = Self => Frame(todo[n]) /\ box[c].value = "dropped"
  BY <1>1, <1>3, <1>4 DEF Frame, Tasks, Drops
<1>6. ASSUME NEW i \in DOMAIN todo, Ending(todo, i, c) PROVE FALSE
  <2>1. PICK k \in 1 .. i - 1 : todo[k].do = "finish" /\ todo[k].of = c
    BY <1>6 DEF Ending
  <2>5. i \in 1 .. n
    BY <1>1
  <2>6. k \in 1 .. n /\ k # n
    <3>1. n \in Nat
      BY <1>1
    <3> HIDE DEF n
    <3> QED
      BY <2>1, <2>5, <3>1
  <2>2. k \in DOMAIN todo /\ k # n /\ Frame(todo[k])
    BY <1>1, <1>3, <2>1, <2>6 DEF Frame
  <2>3. box[c].value = "dropped"
    BY <1>4, <2>1, <2>2 DEF Tasks, Drops
  <2>4. c = Self
    BY <1>2, <2>3
  <2> QED
    BY <1>1, <1>4, <1>5, <2>1, <2>2, <2>4 DEF Tasks, Drops
<1>7. \A i \in DOMAIN todo : todo[i].do \in {"drop", "weak"} => todo[i].of # c
  BY <1>2, <1>4, <1>6 DEF Tasks, Fields
<1> QED
  BY <1>1, <1>2, <1>3, <1>4, <1>5, <1>6, <1>7

\* A field of an object the running code can name is not stale, unless main
\* is overwriting it; an empty one never is.
LEMMA FieldFree ==
  ASSUME RcInv, Running, NEW c \in Object,
         ref[c] = None \/ \A i \in DOMAIN todo : ~ByMain(ref, todo, i)
  PROVE  ~StaleIn(todo, c) /\ \A i \in DOMAIN todo : ~Changes(todo[i], c)
<1>1. Tasks(box, ref, todo)
  BY DEF RcInv, Sound
<1>2. /\ c \in Box
      /\ \A i \in DOMAIN todo : todo[i].do \in {"drop", "weak"} => todo[i].of # c
      /\ \A i \in DOMAIN todo : ~Ending(todo, i, c)
  BY Named
<1>3. ASSUME NEW i \in DOMAIN todo, todo[i].do = "store", todo[i].of = c PROVE FALSE
  <2>1. ref[c] # None
    BY <1>1, <1>3 DEF Tasks, StaleRefs
  <2>2. ByMain(ref, todo, i)
    BY <1>1, <1>2, <1>3 DEF Tasks, StoreFields
  <2> QED
    BY <2>1, <2>2
<1> QED
  BY <1>2, <1>3 DEF StaleIn, Changes

\* Reading and writing fields, in gentle programs.
LEMMA FieldOp ==
  ASSUME RcInv, Gentle(style), NEW op \in {"read", "write", "deep"}, May(op)
  PROVE  \A i \in DOMAIN todo : ~ByMain(ref, todo, i)
<1> SUFFICES ASSUME NEW i \in DOMAIN todo, ByMain(ref, todo, i) PROVE FALSE
  OBVIOUS
<1>1. Running
  BY DEF May
<1>2. i = 2 /\ MainWrites
  BY DEF ByMain
<1>3. Self = None
  BY <1>2 DEF May, MainWrites
<1>4. Len(todo) = 1 /\ DOMAIN todo = 1 .. Len(todo)
  BY <1>1, <1>3, Code
<1>5. i \in 1 .. 1
  BY <1>4
<1> QED
  BY <1>2, <1>5

\* pl_rc_weak_new adds one to the weak count of v.
LEMMA WeakNewFacts ==
  ASSUME NEW bx \in [Box -> PlRc], NEW v \in Box \cup {None}
  PROVE  /\ pl_rc_weak_new(bx, v) \in [Box -> PlRc]
         /\ \A b \in Box :
              /\ pl_rc_weak_new(bx, v)[b].strong = bx[b].strong
              /\ pl_rc_weak_new(bx, v)[b].weak = bx[b].weak + (IF b = v THEN 1 ELSE 0)
              /\ pl_rc_weak_new(bx, v)[b].freed = bx[b].freed
              /\ pl_rc_weak_new(bx, v)[b].value = bx[b].value
<1>1. CASE v = None
  <2>1. \A b \in Box : b # v /\ bx[b].weak \in Nat
    BY <1>1, HolderFacts DEF PlRc
  <2> QED
    BY <1>1, <2>1 DEF pl_rc_weak_new
<1>2. CASE v # None
  <2>1. pl_rc_weak_new(bx, v) = [bx EXCEPT ![v] = [bx[v] EXCEPT !.weak = bx[v].weak + 1]]
    BY <1>2 DEF pl_rc_weak_new
  <2>2. v \in Box /\ [bx[v] EXCEPT !.weak = bx[v].weak + 1] \in PlRc
    BY <1>2 DEF PlRc
  <2>3. \A b \in Box : bx[b].weak \in Nat
    BY DEF PlRc
  <2> QED
    BY <2>1, <2>2, <2>3 DEF PlRc
<1> QED
  BY <1>1, <1>2

\* pl_rc_weak_release takes one away, and frees the box when it was the last of both.
LEMMA WeakReleaseFacts ==
  ASSUME NEW bx \in [Box -> PlRc], NEW w \in Box \cup {None}, w # None => bx[w].weak >= 1
  PROVE  /\ pl_rc_weak_release(bx, w) \in [Box -> PlRc]
         /\ \A b \in Box :
              /\ pl_rc_weak_release(bx, w)[b].strong = bx[b].strong
              /\ pl_rc_weak_release(bx, w)[b].weak = bx[b].weak - (IF b = w THEN 1 ELSE 0)
              /\ pl_rc_weak_release(bx, w)[b].freed =
                   bx[b].freed + (IF b = w /\ bx[b].weak = 1 /\ bx[b].strong = 0 THEN 1 ELSE 0)
              /\ pl_rc_weak_release(bx, w)[b].value = bx[b].value
<1>1. CASE w = None
  <2>1. \A b \in Box : b # w /\ bx[b].weak \in Nat /\ bx[b].freed \in Nat
    BY <1>1, HolderFacts DEF PlRc
  <2> QED
    BY <1>1, <2>1 DEF pl_rc_weak_release
<1>2. CASE w # None
  <2> DEFINE p == bx[w]
             f == IF p.weak = 1 /\ p.strong = 0 THEN p.freed + 1 ELSE p.freed
             a == [p EXCEPT !.weak = p.weak - 1]
             q == [a EXCEPT !.freed = f]
  <2>1. w \in Box /\ p \in PlRc
    BY <1>2
  <2>2. p.weak - 1 \in Nat /\ f \in Nat
    BY <1>2, <2>1 DEF PlRc
  <2>3. a \in PlRc /\ a.strong = p.strong /\ a.weak = p.weak - 1 /\ a.freed = p.freed /\ a.value = p.value
    <3> HIDE DEF p
    <3> QED
      BY <2>1, <2>2 DEF PlRc
  <2>4. q \in PlRc /\ q.strong = p.strong /\ q.weak = p.weak - 1 /\ q.freed = f /\ q.value = p.value
    <3> HIDE DEF a, p, f
    <3> QED
      BY <2>2, <2>3 DEF PlRc
  <2>5. pl_rc_weak_release(bx, w) = [bx EXCEPT ![w] = q]
    <3>1. pl_rc_weak_release(bx, w) =
            [bx EXCEPT ![w].weak = @ - 1,
                       ![w].freed = IF bx[w].weak = 1 /\ bx[w].strong = 0 THEN @ + 1 ELSE @]
      BY <1>2 DEF pl_rc_weak_release
    <3>2. a.freed = p.freed
      BY <2>3
    <3> QED
      BY <2>1, <3>1, <3>2
  <2>6. f = p.freed + (IF p.weak = 1 /\ p.strong = 0 THEN 1 ELSE 0)
    BY <2>1 DEF PlRc
  <2>7. \A b \in Box : bx[b].weak \in Nat /\ bx[b].freed \in Nat
    BY DEF PlRc
  <2> HIDE DEF q, f
  <2> QED
    BY <2>1, <2>4, <2>5, <2>6, <2>7
<1> QED
  BY <1>1, <1>2

\* The weak field of c takes another reference.
LEMMA WeakMove ==
  ASSUME NEW bx \in [Box -> PlRc], NEW rf, NEW u \in [Box -> Box \cup {None}], NEW td \in Seq(TaskSet),
         NEW c \in Box, NEW v \in Box \cup {None}, NEW ug,
         Weak(bx, u, td), Life(bx, rf, u),
         v # None => bx[v].value = "alive" /\ bx[c].value # "unborn",
         ug[c] = v, \A x \in Box : x # c => ug[x] = u[x]
  PROVE  LET by == pl_rc_weak_release(pl_rc_weak_new(bx, v), u[c]) IN
         /\ by \in [Box -> PlRc]
         /\ \A b \in Box : by[b].value = bx[b].value /\ by[b].strong = bx[b].strong
         /\ Weak(by, ug, td) /\ Life(by, rf, ug)
<1> DEFINE w == u[c]
           bn == pl_rc_weak_new(bx, v)
           by == pl_rc_weak_release(bn, w)
<1>1. w \in Box \cup {None}
  OBVIOUS
<1> HIDE DEF w, bn, by
<1>2. \A b \in Box : /\ bx[b].strong \in Nat /\ bx[b].weak \in Nat /\ bx[b].freed \in Nat
                     /\ bx[b].value \in {"unborn", "alive", "dropped"} /\ b # None
  BY HolderFacts DEF PlRc
<1>3. /\ bn \in [Box -> PlRc]
      /\ \A b \in Box : /\ bn[b].strong = bx[b].strong /\ bn[b].value = bx[b].value
                        /\ bn[b].weak = bx[b].weak + (IF b = v THEN 1 ELSE 0)
                        /\ bn[b].freed = bx[b].freed
  BY WeakNewFacts DEF bn
<1>4. ASSUME NEW b \in Box
      PROVE  /\ WeakHeld(u, td, b) \in Nat /\ WeakHeld(ug, td, b) \in Nat
             /\ WeakHeld(ug, td, b) + (IF b = w THEN 1 ELSE 0) = WeakHeld(u, td, b) + (IF b = v THEN 1 ELSE 0)
             /\ b = w => WeakHeld(u, td, b) >= 1
  <2> DEFINE K == Weaks(u, b)
             M == Weaks(ug, b)
  <2>1. IsFiniteSet(K) /\ IsFiniteSet(M) /\ Cardinality(Frames(td, b)) \in Nat
    BY SetFinite
  <2>2. K \ {c} = M \ {c} /\ (c \in K <=> b = w) /\ (c \in M <=> b = v)
    BY DEF Weaks, w
  <2>3. K # {} => Cardinality(K) # 0
    BY <2>1, FS_EmptySet
  <2> HIDE DEF K, M
  <2>4. /\ Cardinality(K) \in Nat /\ Cardinality(M) \in Nat
        /\ Cardinality(M) + (IF c \in K THEN 1 ELSE 0) = Cardinality(K) + (IF c \in M THEN 1 ELSE 0)
    BY <2>1, <2>2, OneApart
  <2>5. Cardinality(M) + (IF b = w THEN 1 ELSE 0) = Cardinality(K) + (IF b = v THEN 1 ELSE 0)
    BY <2>2, <2>4
  <2>6. b = w => Cardinality(K) >= 1
    BY <2>2, <2>3, <2>4
  <2>7. WeakHeld(u, td, b) = Cardinality(K) + Cardinality(Frames(td, b))
        /\ WeakHeld(ug, td, b) = Cardinality(M) + Cardinality(Frames(td, b))
    BY DEF WeakHeld, K, M
  <2> QED
    BY <2>1, <2>4, <2>5, <2>6, <2>7
<1>5. \A b \in Box : bx[b].weak = WeakHeld(u, td, b)
  BY DEF Weak
<1>6. w # None => w \in Box /\ bx[w].weak >= 1 /\ bn[w].weak >= 1
  BY <1>1, <1>2, <1>3, <1>4, <1>5
<1>7. /\ by \in [Box -> PlRc]
      /\ \A b \in Box :
           /\ by[b].strong = bn[b].strong /\ by[b].value = bn[b].value
           /\ by[b].weak = bn[b].weak - (IF b = w THEN 1 ELSE 0)
           /\ by[b].freed = bn[b].freed + (IF b = w /\ bn[b].weak = 1 /\ bn[b].strong = 0 THEN 1 ELSE 0)
  BY <1>1, <1>3, <1>6, WeakReleaseFacts DEF by
<1>8. ASSUME NEW b \in Box
      PROVE  by[b].weak = WeakHeld(ug, td, b)
  <2>1. by[b].weak = bx[b].weak + (IF b = v THEN 1 ELSE 0) - (IF b = w THEN 1 ELSE 0)
    BY <1>2, <1>3, <1>7
  <2> QED
    BY <1>4, <1>5, <2>1
<1>9. Weak(by, ug, td)
  BY <1>8 DEF Weak
<1>10. Life(by, rf, ug)
  <2> SUFFICES ASSUME NEW b \in Box
               PROVE  /\ by[b].value = "unborn" =>
                           by[b].strong = 0 /\ by[b].weak = 0 /\ by[b].freed = 0 /\ rf[b] = None /\ ug[b] = None
                      /\ by[b].value = "alive" => by[b].strong >= 1 /\ by[b].freed = 0
                      /\ by[b].value = "dropped" =>
                           by[b].strong = 0 /\ by[b].freed = IF by[b].weak = 0 THEN 1 ELSE 0
    BY DEF Life
  <2>1. by[b].value = bx[b].value /\ by[b].strong = bx[b].strong
    BY <1>3, <1>7
  <2>2. /\ bx[b].value = "unborn" =>
             bx[b].strong = 0 /\ bx[b].weak = 0 /\ bx[b].freed = 0 /\ rf[b] = None /\ u[b] = None
        /\ bx[b].value = "alive" => bx[b].strong >= 1 /\ bx[b].freed = 0
        /\ bx[b].value = "dropped" =>
             bx[b].strong = 0 /\ bx[b].freed = IF bx[b].weak = 0 THEN 1 ELSE 0
    BY DEF Life
  <2>3. /\ by[b].weak = bx[b].weak + (IF b = v THEN 1 ELSE 0) - (IF b = w THEN 1 ELSE 0)
        /\ by[b].freed = bx[b].freed
             + (IF b = w /\ bx[b].weak + (IF b = v THEN 1 ELSE 0) = 1 /\ bx[b].strong = 0 THEN 1 ELSE 0)
    BY <1>2, <1>3, <1>7
  <2>4. (b = v => bx[b].value = "alive") /\ (b = w => bx[b].weak >= 1)
    BY <1>2, <1>6
  <2>5. CASE bx[b].value = "unborn"
    <3>1. b # v /\ b # w
      BY <2>2, <2>4, <2>5
    <3>2. ug[b] = None
      <4>1. b = c => v = None
        BY <2>5
      <4> QED
        BY <2>2, <2>5, <4>1
    <3>3. by[b].weak = 0 /\ by[b].freed = 0
      <4>1. by[b].weak = bx[b].weak /\ by[b].freed = bx[b].freed
        BY <1>2, <2>3, <3>1
      <4> QED
        BY <2>2, <2>5, <4>1
    <3> QED
      BY <2>1, <2>2, <2>5, <3>2, <3>3
  <2>6. CASE bx[b].value = "alive"
    <3>1. by[b].freed = bx[b].freed
      BY <1>2, <2>2, <2>3, <2>6
    <3> QED
      BY <2>1, <2>2, <2>6, <3>1
  <2>7. CASE bx[b].value = "dropped"
    <3>1. b # v
      BY <2>4, <2>7
    <3>2. CASE b = w
      BY <1>2, <2>1, <2>2, <2>3, <2>4, <2>7, <3>1, <3>2
    <3>3. CASE b # w
      BY <1>2, <2>1, <2>2, <2>3, <2>7, <3>1, <3>3
    <3> QED
      BY <3>2, <3>3
  <2> QED
    BY <1>2, <2>5, <2>6, <2>7
<1> QED
  BY <1>3, <1>7, <1>9, <1>10 DEF by, bn, w

-----------------------------------------------------------------------------
\* A step leaves a sound state (style does not change).
After ==
  /\ box' \in [Box -> PlRc] /\ ref' \in [Holder -> Box \cup {None}]
  /\ up' \in [Box -> Box \cup {None}] /\ todo' \in Seq(TaskSet)
  /\ Sound(box', ref', up', todo')

\* What the invariant says of a state, by its parts.
LEMMA NowFacts ==
  ASSUME RcInv
  PROVE  /\ box \in [Box -> PlRc] /\ ref \in [Holder -> Box \cup {None}]
         /\ up \in [Box -> Box \cup {None}] /\ todo \in Seq(TaskSet) /\ style \in Styles
         /\ Strong(box, ref, todo, None) /\ Weak(box, up, todo) /\ Life(box, ref, up)
         /\ Tasks(box, ref, todo) /\ Left(box, ref, up, todo, None)
  BY DEF RcInv, RcType, Sound

\* Main, while it writes to a field, has the object in a local.
LEMMA MainHas ==
  ASSUME RcInv, Running, Self = None, NEW c \in Object
  PROVE  Len(todo) = 1 /\ todo[1].do = "run" /\ todo[1].of = None /\ \E x \in Name : ref[<<0, x>>] = c
<1>1. Len(todo) = 1 /\ todo[1].do = "run" /\ todo[1].of = None
  BY Code
<1>2. PICK x \in Mine : ref[x] = c
  BY DEF Object
<1>3. x \in Local /\ x[1] = Level(todo, 1)
  BY <1>1, Code
<1>4. Level(todo, 1) = 0
  <2>1. {i \in 1 .. 1 : Frame(todo[i])} = {}
    BY <1>1 DEF Frame
  <2> QED
    BY <2>1, FS_EmptySet DEF Level
<1>5. x[2] \in Name /\ x = <<0, x[2]>>
  BY <1>3, <1>4, HolderFacts
<1> QED
  BY <1>1, <1>2, <1>5

\* An assignment of the running code, the reference to be stored being counted.
LEMMA AssignStep ==
  ASSUME RcInv, Running, NEW bx \in [Box -> PlRc], NEW h \in Holder, NEW v \in Box \cup {None},
         Strong(bx, ref, todo, v), Weak(bx, up, todo), Life(bx, ref, up),
         Tasks(bx, ref, todo), Left(bx, ref, up, todo, None),
         \/ h \in Mine
         \/ /\ h \in Object /\ \A i \in DOMAIN todo : ~Changes(todo[i], h)
            /\ ref[h] = None \/ (MainWrites /\ Self = None)
            /\ v # None => bx[h].value = "alive" \/ \E i \in DOMAIN todo : todo[i].do = "run" /\ todo[i].of = h,
         Assign(h, v, bx)
  PROVE  After
<1> DEFINE n == Len(todo)
<1>1. /\ n \in Nat \ {0} /\ todo[n].do = "run" /\ DOMAIN todo = 1 .. n
      /\ (h \in Mine => h \in Local /\ h[1] = Level(todo, n) /\ \A i \in DOMAIN todo : ~Changes(todo[i], h))
  BY Code
<1>2. Left(bx, ref, up, todo, h)
  BY HolderFacts DEF Left
<1>3. h \in Local => h \in Mine
  <2>1. h \in Object => h \in Box
    BY Named
  <2> QED
    BY <2>1, HolderFacts
<1>4. h \in Mine => h \notin Box
  BY <1>1, HolderFacts
<1>5. h \in Box => /\ \/ ref[h] = None
                      \/ /\ MainWrites /\ n = 1 /\ todo[1].do = "run" /\ todo[1].of = None
                         /\ \E x \in Name : ref[<<0, x>>] = h
                   /\ v # None => bx[h].value = "alive" \/ \E i \in DOMAIN todo : todo[i].do = "run" /\ todo[i].of = h
  <2> SUFFICES ASSUME h \in Box, h \in Object
               PROVE  /\ \/ ref[h] = None
                         \/ /\ MainWrites /\ n = 1 /\ todo[1].do = "run" /\ todo[1].of = None
                            /\ \E x \in Name : ref[<<0, x>>] = h
                      /\ v # None => bx[h].value = "alive" \/ \E i \in DOMAIN todo : todo[i].do = "run" /\ todo[i].of = h
    BY <1>4
  <2>1. MainWrites /\ Self = None =>
          n = 1 /\ todo[1].do = "run" /\ todo[1].of = None /\ \E x \in Name : ref[<<0, x>>] = h
    BY MainHas
  <2> QED
    BY <1>4, <2>1
<1>6. Ready(bx, ref, up, todo, h, v)
  BY <1>1, <1>2, <1>3, <1>5 DEF Ready
<1>7. pl_rc_release(bx, h, v, todo) /\ up' = up
  BY DEF Assign
<1>8. todo \in Seq(TaskSet) /\ ref \in [Holder -> Box \cup {None}] /\ up \in [Box -> Box \cup {None}]
  BY NowFacts
<1> QED
  BY <1>6, <1>7, <1>8, Release DEF After

\* An assignment of a reference that is retained first.
LEMMA RetainStep ==
  ASSUME RcInv, Running, NEW h \in Holder, NEW v \in Box \cup {None},
         v # None => box[v].value = "alive",
         \/ h \in Mine
         \/ /\ h \in Object /\ \A i \in DOMAIN todo : ~Changes(todo[i], h)
            /\ ref[h] = None \/ (MainWrites /\ Self = None),
         Assign(h, v, pl_rc_retain(box, v))
  PROVE  After
<1> DEFINE bx == pl_rc_retain(box, v)
<1>1. /\ bx \in [Box -> PlRc]
      /\ Strong(bx, ref, todo, v) /\ Weak(bx, up, todo) /\ Life(bx, ref, up) /\ Tasks(bx, ref, todo)
      /\ Left(bx, ref, up, todo, None)
  BY NowFacts, Retain
<1>2. \A b \in Box : bx[b].value = box[b].value
  BY NowFacts, RetainFacts
<1>3. h \in Object => bx[h].value = "alive" \/ \E i \in DOMAIN todo : todo[i].do = "run" /\ todo[i].of = h
  BY <1>2, Named
<1> HIDE DEF bx
<1>4. Assign(h, v, bx)
  BY DEF bx
<1> QED
  BY <1>1, <1>3, <1>4, AssignStep

\* x = rc(T())
LEMMA NewStep ==
  ASSUME RcInv, Running, NEW x \in Mine, New(x)
  PROVE  After
<1>1. PICK b \in Box : box[b].value = "unborn"
                       /\ Assign(x, b, [box EXCEPT ![b].strong = 1, ![b].value = "alive"])
  BY DEF New
<1> DEFINE bx == [box EXCEPT ![b].strong = 1, ![b].value = "alive"]
           p == box[b]
           a == [p EXCEPT !.strong = 1]
           q == [a EXCEPT !.value = "alive"]
<1>2. /\ box \in [Box -> PlRc] /\ ref \in [Holder -> Box \cup {None}] /\ todo \in Seq(TaskSet)
      /\ Strong(box, ref, todo, None) /\ Weak(box, up, todo) /\ Life(box, ref, up)
      /\ Tasks(box, ref, todo) /\ Left(box, ref, up, todo, None)
  BY NowFacts
<1>3. p \in PlRc /\ p.value = "unborn" /\ p.strong = 0 /\ p.weak = 0 /\ p.freed = 0
  BY <1>1, <1>2 DEF Life
<1>4. a \in PlRc /\ a.strong = 1 /\ a.weak = 0 /\ a.freed = 0
  <2> HIDE DEF p
  <2> QED
    BY <1>3 DEF PlRc
<1>5. q \in PlRc /\ q.strong = 1 /\ q.weak = 0 /\ q.freed = 0 /\ q.value = "alive"
  <2> HIDE DEF a
  <2> QED
    BY <1>4 DEF PlRc
<1>6. bx = [box EXCEPT ![b] = q]
  BY <1>2
<1> HIDE DEF q, bx
<1>7. /\ bx \in [Box -> PlRc] /\ bx[b] = q
      /\ \A c \in Box : c # b => bx[c] = box[c]
  BY <1>2, <1>5, <1>6
<1>8. b # None /\ x \in Holder
  BY Code, HolderFacts
<1>9. Strong(bx, ref, todo, b)
  <2>1. \A c \in Box : Held(ref, todo, c) \in Nat /\ box[c].strong \in Nat /\ c # None
    BY <1>2, HeldFacts, HolderFacts DEF PlRc
  <2>2. Held(ref, todo, b) = 0
    BY <1>2, <1>3, <2>1 DEF Strong
  <2> SUFFICES ASSUME NEW c \in Box
               PROVE  LET m == Held(ref, todo, c) + (IF c = b THEN 1 ELSE 0) IN
                        bx[c].strong >= m /\ (Lossy \/ bx[c].strong = m)
    BY DEF Strong
  <2>3. CASE c = b
    BY <1>5, <1>7, <2>2, <2>3
  <2>4. CASE c # b
    <3>1. box[c].strong >= Held(ref, todo, c) /\ (Lossy \/ box[c].strong = Held(ref, todo, c))
      BY <1>2, <2>1 DEF Strong
    <3> QED
      BY <1>7, <2>1, <2>4, <3>1
  <2> QED
    BY <2>3, <2>4
<1>10. Weak(bx, up, todo)
  BY <1>2, <1>3, <1>5, <1>7 DEF Weak
<1>11. Life(bx, ref, up)
  <2> SUFFICES ASSUME NEW c \in Box
               PROVE  /\ bx[c].value = "unborn" =>
                           bx[c].strong = 0 /\ bx[c].weak = 0 /\ bx[c].freed = 0 /\ ref[c] = None /\ up[c] = None
                      /\ bx[c].value = "alive" => bx[c].strong >= 1 /\ bx[c].freed = 0
                      /\ bx[c].value = "dropped" =>
                           bx[c].strong = 0 /\ bx[c].freed = IF bx[c].weak = 0 THEN 1 ELSE 0
    BY DEF Life
  <2>1. CASE c = b
    BY <1>5, <1>7, <2>1
  <2>2. CASE c # b
    BY <1>2, <1>7, <2>2 DEF Life
  <2> QED
    BY <2>1, <2>2
<1>12. Tasks(bx, ref, todo) /\ Left(bx, ref, up, todo, None)
  <2>1. \A c \in Box : bx[c].value = box[c].value \/ (box[c].value # "dropped" /\ bx[c].value # "dropped")
    BY <1>1, <1>5, <1>7
  <2> QED
    BY <1>2, <2>1, SameValues
<1>13. Assign(x, b, bx)
  BY <1>1 DEF bx
<1> QED
  BY <1>7, <1>8, <1>9, <1>10, <1>11, <1>12, <1>13, AssignStep

\* x = y
LEMMA CopyStep ==
  ASSUME RcInv, Running, NEW x \in Mine, NEW y \in Mine, Copy(x, y)
  PROVE  After
<1>1. Assign(x, ref[y], pl_rc_retain(box, ref[y])) /\ x \in Holder
      /\ ref[y] \in Box \cup {None} /\ (ref[y] # None => box[ref[y]].value = "alive")
  BY Code DEF Copy
<1> QED
  BY <1>1, RetainStep

\* x = y.f
LEMMA ReadFieldStep ==
  ASSUME RcInv, Running, Gentle(style), NEW x \in Mine, NEW c \in Object, ReadField(x, c)
  PROVE  After
<1>1. Assign(x, ref[c], pl_rc_retain(box, ref[c])) /\ x \in Holder /\ c \in Holder
  BY Code, Named DEF ReadField
<1>2. ~StaleIn(todo, c)
  BY FieldFree, FieldOp DEF ReadField
<1>3. ref[c] \in Box \cup {None} /\ (ref[c] # None => box[ref[c]].value = "alive")
  BY <1>1, <1>2, NowFacts, HeldAlive
<1> QED
  BY <1>1, <1>3, RetainStep

\* x = None
LEMMA ClearStep ==
  ASSUME RcInv, Running, NEW x \in Mine, Clear(x)
  PROVE  After
<1>1. Assign(x, None, box) /\ x \in Holder
  BY Code DEF Clear
<1>2. pl_rc_retain(box, None) = box
  BY DEF pl_rc_retain
<1>3. Assign(x, None, pl_rc_retain(box, None))
  BY <1>1, <1>2
<1> QED
  BY <1>1, <1>3, RetainStep

\* x.f = y
LEMMA WriteFieldStep ==
  ASSUME RcInv, Running, Gentle(style), NEW c \in Object,
         NEW v \in {None} \cup {ref[x] : x \in Mine}, WriteField(c, v)
  PROVE  After
<1>1. Assign(c, v, pl_rc_retain(box, v)) /\ c \in Holder
      /\ v \in Box \cup {None} /\ (v # None => box[v].value = "alive")
  BY Code, Named DEF WriteField
<1>2. CASE ref[c] = None
  <2>1. \A i \in DOMAIN todo : ~Changes(todo[i], c)
    BY <1>2, FieldFree
  <2> QED
    BY <1>1, <1>2, <2>1, RetainStep
<1>3. CASE ref[c] # None
  <2>1. May("write")
    BY <1>3 DEF WriteField
  <2>2. \A i \in DOMAIN todo : ~Changes(todo[i], c)
    BY <2>1, FieldFree, FieldOp
  <2>3. MainWrites /\ Self = None
    <3>1. style \in [main : SUBSET Op, drop : SUBSET Op]
      BY NowFacts, StylesAssumption
    <3>2. "write" \in style.main \cup style.drop
      BY <2>1 DEF May
    <3>3. MainWrites
      BY <3>2 DEF Gentle, MainWrites
    <3> QED
      BY <2>1, <3>3 DEF May, MainWrites
  <2> QED
    BY <1>1, <2>2, <2>3, RetainStep
<1> QED
  BY <1>2, <1>3

\* x = y.w.upgrade()
LEMMA UpgradeStep ==
  ASSUME RcInv, Running, NEW x \in Mine, NEW c \in Object, Upgrade(x, c)
  PROVE  After
<1> DEFINE w == up[c]
<1>1. w # None /\ c \in Box /\ x \in Holder
      /\ Assign(x, pl_rc_upgrade(box, w).val, pl_rc_upgrade(box, w).box)
  BY Code, Named DEF Upgrade
<1>2. w \in Box
  BY <1>1, NowFacts
<1> HIDE DEF w
<1>3. CASE box[w].strong = 0
  <2>1. Assign(x, None, box)
    BY <1>1, <1>3 DEF pl_rc_upgrade
  <2>2. pl_rc_retain(box, None) = box
    BY DEF pl_rc_retain
  <2>3. Assign(x, None, pl_rc_retain(box, None))
    BY <2>1, <2>2
  <2> QED
    BY <1>1, <2>3, RetainStep
<1>4. CASE box[w].strong # 0
  <2>1. Assign(x, w, pl_rc_retain(box, w))
    BY <1>1, <1>4 DEF pl_rc_upgrade
  <2>2. box[w].value = "alive"
    <3>1. box[w].strong > 0
      BY <1>2, <1>4, NowFacts DEF PlRc
    <3> QED
      BY <1>2, <3>1, NowFacts, HeldAlive
  <2> QED
    BY <1>1, <1>2, <2>1, <2>2, RetainStep
<1> QED
  BY <1>3, <1>4

\* The reference x.f.f held is lost: the counts stay too high.
LEMMA WriteDeepStep ==
  ASSUME RcInv, Running, Gentle(style), NEW c \in Object,
         NEW v \in {None} \cup {ref[x] : x \in Mine}, WriteDeep(c, v)
  PROVE  After
<1> DEFINE d == ref[c]
           bx == pl_rc_retain(box, v)
           rg == [ref EXCEPT ![d] = v]
<1>1. May("deep") /\ d # None /\ box[d].value = "alive"
      /\ box' = bx /\ ref' = rg /\ up' = up /\ todo' = todo
  BY DEF WriteDeep
<1>2. /\ box \in [Box -> PlRc] /\ ref \in [Holder -> Box \cup {None}]
      /\ up \in [Box -> Box \cup {None}] /\ todo \in Seq(TaskSet)
      /\ Strong(box, ref, todo, None) /\ Weak(box, up, todo) /\ Life(box, ref, up)
      /\ Tasks(box, ref, todo) /\ Left(box, ref, up, todo, None)
  BY NowFacts
<1>3. v \in Box \cup {None} /\ (v # None => box[v].value = "alive") /\ c \in Holder
  BY Code, Named
<1>4. d \in Box /\ d \in Holder
  BY <1>1, <1>2, <1>3, HolderFacts
<1>5. Lossy
  BY <1>1 DEF May, Lossy
<1>6. /\ bx \in [Box -> PlRc]
      /\ Strong(bx, ref, todo, v) /\ Weak(bx, up, todo) /\ Life(bx, ref, up) /\ Tasks(bx, ref, todo)
      /\ Left(bx, ref, up, todo, None)
      /\ bx[d].value = "alive"
  BY <1>1, <1>2, <1>3, <1>4, Retain, RetainFacts
<1>7. /\ rg \in [Holder -> Box \cup {None}] /\ rg[d] = v
      /\ \A x \in Holder : x # d => rg[x] = ref[x]
  BY <1>2, <1>3, <1>4
<1> HIDE DEF d, bx, rg
<1>8. \A i \in DOMAIN todo : todo[i].do = "store" => todo[i].of # d
  <2> SUFFICES ASSUME NEW i \in DOMAIN todo, todo[i].do = "store", todo[i].of = d
               PROVE  FALSE
    OBVIOUS
  <2>1. ~ByMain(ref, todo, i)
    BY <1>1, FieldOp
  <2>2. Ending(todo, i, d)
    BY <1>2, <1>4, <2>1 DEF Tasks, StoreFields
  <2>3. PICK k \in 1 .. i - 1 : todo[k].do = "finish" /\ todo[k].of = d
    BY <2>2 DEF Ending
  <2>4. k \in DOMAIN todo /\ Frame(todo[k])
    <3>1. Len(todo) \in Nat /\ DOMAIN todo = 1 .. Len(todo)
      BY <1>2, SeqFacts
    <3>2. k \in DOMAIN todo
      BY <2>3, <3>1
    <3> QED
      BY <1>4, <2>3, <3>2, HolderFacts DEF Frame
  <2>5. box[d].value = "dropped"
    BY <1>2, <2>3, <2>4 DEF Tasks, Drops
  <2> QED
    BY <1>1, <2>5
<1>9. Strong(bx, rg, todo, None)
  <2> SUFFICES ASSUME NEW b \in Box
               PROVE  bx[b].strong >= Held(rg, todo, b) + (IF b = None THEN 1 ELSE 0)
    BY <1>5 DEF Strong
  <2>1. Held(rg, todo, b) + (IF b = ref[d] THEN 1 ELSE 0) = Held(ref, todo, b) + (IF b = v THEN 1 ELSE 0)
        /\ Held(rg, todo, b) \in Nat /\ Held(ref, todo, b) \in Nat
    <3>1. ~StaleIn(todo, d)
      BY <1>8 DEF StaleIn
    <3>2. Cardinality(Kept(rg, todo, b)) + (IF b = ref[d] THEN 1 ELSE 0)
            = Cardinality(Kept(ref, todo, b)) + (IF b = v THEN 1 ELSE 0)
      BY <1>2, <1>3, <1>4, <1>7, <3>1, KeptMove
    <3>3. Cardinality(Kept(rg, todo, b)) \in Nat /\ Cardinality(Kept(ref, todo, b)) \in Nat
          /\ Cardinality(Due(todo, b)) \in Nat
      BY <1>2, SetFinite
    <3> QED
      BY <3>2, <3>3 DEF Held
  <2>2. bx[b].strong >= Held(ref, todo, b) + (IF b = v THEN 1 ELSE 0)
    BY <1>6 DEF Strong
  <2>3. b # None /\ bx[b].strong \in Nat
    BY <1>6, HolderFacts DEF PlRc
  <2> QED
    BY <2>1, <2>2, <2>3
<1>10. Life(bx, rg, up)
  BY <1>4, <1>6, <1>7, HolderFacts DEF Life
<1>11. StoreFields(rg, todo)
  <2>1. \A x \in Name : <<0, x>> \in Holder /\ <<0, x>> # d
    BY <1>4, BoundsAssumption, HolderFacts DEF Holder, Local
  <2>2. \A i \in DOMAIN todo : ByMain(ref, todo, i) => ByMain(rg, todo, i)
    BY <1>7, <2>1 DEF ByMain
  <2> QED
    BY <1>6, <2>2 DEF Tasks, StoreFields
<1>12. StaleRefs(bx, rg, todo)
  <2>1. \A i \in DOMAIN todo : todo[i].do = "store" => rg[todo[i].of] = ref[todo[i].of]
    BY <1>2, <1>6, <1>7, <1>8, SeqFacts DEF Tasks, Sorts
  <2> QED
    BY <1>6, <2>1 DEF Tasks, StaleRefs
<1>13. Tasks(bx, rg, todo)
  BY <1>6, <1>11, <1>12 DEF Tasks
<1>14. Left(bx, rg, up, todo, None)
  <2>1. \A l \in Local : rg[l] = ref[l]
    BY <1>4, <1>7, HolderFacts
  <2>2. \A x \in Box : bx[x].value = "dropped" => rg[x] = ref[x]
    BY <1>6, <1>7, HolderFacts
  <2> QED
    BY <1>6, <2>1, <2>2 DEF Left
<1> QED
  BY <1>1, <1>2, <1>6, <1>7, <1>9, <1>10, <1>13, <1>14 DEF After, Sound

\* x.w = weak(y)
LEMMA WriteWeakStep ==
  ASSUME RcInv, Running, NEW c \in Object,
         NEW v \in {None} \cup {ref[x] : x \in Mine}, WriteWeak(c, v)
  PROVE  After
<1> DEFINE bx == pl_rc_weak_release(pl_rc_weak_new(box, v), up[c])
           ug == [up EXCEPT ![c] = v]
<1>1. box' = bx /\ up' = ug /\ ref' = ref /\ todo' = todo
  BY DEF WriteWeak
<1>2. /\ box \in [Box -> PlRc] /\ ref \in [Holder -> Box \cup {None}]
      /\ up \in [Box -> Box \cup {None}] /\ todo \in Seq(TaskSet)
      /\ Strong(box, ref, todo, None) /\ Weak(box, up, todo) /\ Life(box, ref, up)
      /\ Tasks(box, ref, todo) /\ Left(box, ref, up, todo, None)
  BY NowFacts
<1>3. /\ v \in Box \cup {None} /\ (v # None => box[v].value = "alive")
      /\ c \in Box /\ box[c].value # "unborn"
      /\ box[c].value = "alive" \/ \E i \in DOMAIN todo : todo[i].do = "run" /\ todo[i].of = c
  BY Code, Named
<1>4. ug \in [Box -> Box \cup {None}] /\ ug[c] = v /\ \A x \in Box : x # c => ug[x] = up[x]
  BY <1>2, <1>3
<1> HIDE DEF ug
<1>5. /\ bx \in [Box -> PlRc]
      /\ \A b \in Box : bx[b].value = box[b].value /\ bx[b].strong = box[b].strong
      /\ Weak(bx, ug, todo) /\ Life(bx, ref, ug)
  BY <1>2, <1>3, <1>4, WeakMove
<1> HIDE DEF bx
<1>6. Strong(bx, ref, todo, None)
  BY <1>2, <1>5 DEF Strong
<1>7. Tasks(bx, ref, todo) /\ Left(bx, ref, up, todo, None)
  BY <1>2, <1>5, SameValues
<1>8. Left(bx, ref, ug, todo, None)
  <2>1. \A x \in Box : bx[x].value = "dropped" /\ ug[x] # None =>
          \E i \in DOMAIN todo : todo[i].do \in {"run", "weak"} /\ todo[i].of = x
    <3> SUFFICES ASSUME NEW x \in Box, bx[x].value = "dropped", ug[x] # None
                 PROVE  \E i \in DOMAIN todo : todo[i].do \in {"run", "weak"} /\ todo[i].of = x
      OBVIOUS
    <3>1. CASE x = c
      BY <1>3, <1>5, <3>1
    <3>2. CASE x # c
      BY <1>4, <1>7, <3>2 DEF Left
    <3> QED
      BY <3>1, <3>2
  <2> QED
    BY <1>7, <2>1 DEF Left
<1> QED
  BY <1>1, <1>2, <1>4, <1>5, <1>6, <1>7, <1>8 DEF After, Sound

-----------------------------------------------------------------------------
\* The end of main or of a drop method.
LEMMA SetSeq ==
  ASSUME NEW S, IsFiniteSet(S)
  PROVE  LET s == SetToSeq(S)
             m == Cardinality(S) IN
         /\ m \in Nat /\ s \in [1 .. m -> S]
         /\ \A i, k \in 1 .. m : s[i] = s[k] => i = k
         /\ \A x \in S : \E i \in 1 .. m : s[i] = x
<1> DEFINE m == Cardinality(S)
           s == SetToSeq(S)
<1>1. m \in Nat
  BY FS_CardinalityType
<1>2. \E f : f \in [1 .. m -> S] /\ IsInjective(f)
  <2>1. PICK f : f \in Bijection(1 .. m, S)
    BY FS_CardinalityType DEF ExistsBijection
  <2> QED
    BY <2>1 DEF Bijection, Injection, IsInjective
<1>3. s \in [1 .. m -> S] /\ IsInjective(s)
  BY <1>2 DEF SetToSeq
<1> HIDE DEF s
<1>4. IsFiniteSet(1 .. m) /\ Cardinality(1 .. m) = m
  BY <1>1, FS_Interval
<1>5. s \in Injection(1 .. m, S)
  BY <1>3 DEF Injection
<1>6. s \in Surjection(1 .. m, S)
  BY <1>4, <1>5, FS_Injection
<1> QED
  BY <1>1, <1>3, <1>6 DEF IsInjective, Surjection, s

\* What two sequences of tasks in a row hold.
LEMMA ConcatTwo ==
  ASSUME NEW f \in Seq(TaskSet), NEW a \in Seq(TaskSet)
  PROVE  /\ f \o a \in Seq(TaskSet) /\ Len(f \o a) = Len(f) + Len(a)
         /\ \A i \in 1 .. Len(f) : (f \o a)[i] = f[i]
         /\ \A i \in 1 .. Len(a) : (f \o a)[Len(f) + i] = a[i]
  OBVIOUS

\* What three sequences of tasks in a row hold.
LEMMA Concat ==
  ASSUME NEW f \in Seq(TaskSet), NEW a \in Seq(TaskSet), NEW b \in Seq(TaskSet)
  PROVE  LET te == f \o a \o b IN
         /\ te \in Seq(TaskSet) /\ Len(te) = Len(f) + Len(a) + Len(b)
         /\ \A i \in 1 .. Len(f) : te[i] = f[i]
         /\ \A i \in 1 .. Len(a) : te[Len(f) + i] = a[i]
         /\ \A i \in 1 .. Len(b) : te[Len(f) + Len(a) + i] = b[i]
<1> DEFINE fa == f \o a
           te == fa \o b
<1>1. /\ fa \in Seq(TaskSet) /\ Len(fa) = Len(f) + Len(a)
      /\ \A i \in 1 .. Len(f) : fa[i] = f[i]
      /\ \A i \in 1 .. Len(a) : fa[Len(f) + i] = a[i]
  BY ConcatTwo
<1>2. Len(f) \in Nat /\ Len(a) \in Nat /\ Len(b) \in Nat
  OBVIOUS
<1> HIDE DEF fa
<1>3. /\ te \in Seq(TaskSet) /\ Len(te) = Len(fa) + Len(b)
      /\ \A i \in 1 .. Len(fa) : te[i] = fa[i]
      /\ \A i \in 1 .. Len(b) : te[Len(fa) + i] = b[i]
  <2>1. fa \in Seq(TaskSet)
    BY <1>1
  <2> QED
    BY <2>1, ConcatTwo
<1> HIDE DEF te
<1>4. \A i \in 1 .. Len(f) : i \in 1 .. Len(fa)
  BY <1>1, <1>2
<1>5. \A i \in 1 .. Len(a) : Len(f) + i \in 1 .. Len(fa)
  BY <1>1, <1>2
<1>6. te \in Seq(TaskSet) /\ Len(te) = Len(f) + Len(a) + Len(b)
  BY <1>1, <1>3
<1>7. \A i \in 1 .. Len(f) : te[i] = f[i]
  BY <1>1, <1>3, <1>4
<1>8. \A i \in 1 .. Len(a) : te[Len(f) + i] = a[i]
  BY <1>1, <1>3, <1>5
<1>9. \A i \in 1 .. Len(b) : te[Len(f) + Len(a) + i] = b[i]
  BY <1>1, <1>3
<1> QED
  BY <1>6, <1>7, <1>8, <1>9 DEF te, fa

\* What Return leaves to be done: the tasks before it; the rest of the release
\* of the object and the drops of its fields; the drops of the locals.
ReturnTo(te, n) ==
  /\ te \in Seq(TaskSet)
  /\ \A i \in 1 .. n - 1 : i \in DOMAIN te /\ te[i] = todo[i]
  /\ Self # None =>
       /\ n \in DOMAIN te /\ te[n].do = "finish" /\ te[n].of = Self
       /\ \E i \in DOMAIN te : te[i].do = "drop" /\ te[i].of = Self
       /\ \E i \in DOMAIN te : te[i].do = "weak" /\ te[i].of = Self
  /\ \A i \in DOMAIN te : i >= n =>
       \/ Self # None /\ i = n
       \/ Self # None /\ i > n /\ te[i].do \in {"drop", "weak"} /\ te[i].of = Self
       \/ te[i].do = "drop" /\ te[i].of \in Mine /\ (Self # None => i > n)
  /\ \A i, k \in DOMAIN te :
       i >= n /\ k >= n /\ te[i].do = "drop" /\ te[k].do = "drop" /\ te[i].of = te[k].of => i = k
  /\ \A x \in Mine : \E i \in DOMAIN te : te[i].do = "drop" /\ te[i].of = x

\* The tasks after the end of main or of a drop method.
LEMMA ReturnShape ==
  ASSUME RcInv, Return
  PROVE  ReturnTo(todo', Len(todo))
<1> DEFINE n == Len(todo)
           m == Cardinality(Mine)
           s == SetToSeq(Mine)
           b == [i \in 1 .. m |-> Task("drop", s[i])]
<1>1. Running
  BY DEF Return
<1>2. /\ n \in Nat \ {0} /\ Self \in Box \cup {None} /\ (Self = None => n = 1)
      /\ \A x \in Mine : x \in Local /\ x \in Holder
  BY <1>1, Code
<1>3. IsFiniteSet(Mine)
  BY <1>2, HolderFacts, FS_Subset
<1>4. /\ m \in Nat /\ s \in [1 .. m -> Mine]
      /\ \A i, k \in 1 .. m : s[i] = s[k] => i = k
      /\ \A x \in Mine : \E i \in 1 .. m : s[i] = x
  BY <1>3, SetSeq
<1> DEFINE fr == Front(todo)
<1>5. /\ fr \in Seq(TaskSet) /\ Len(fr) = n - 1
      /\ \A i \in 1 .. n - 1 : fr[i] = todo[i]
  BY <1>1, NowFacts, PopFacts DEF Running
<1> HIDE DEF n, m, s, fr
<1>6. \A i \in 1 .. m : s[i] \in Mine /\ s[i] \in Holder
  BY <1>2, <1>4
<1>7. \A i \in 1 .. m : Task("drop", s[i]) \in TaskSet
  BY <1>6 DEF Task, TaskSet
<1>8. /\ b \in Seq(TaskSet) /\ Len(b) = m
      /\ \A i \in 1 .. m : b[i].do = "drop" /\ b[i].of = s[i]
  <2>1. b \in [1 .. m -> TaskSet]
    BY <1>7
  <2>2. \A i \in 1 .. m : b[i] = Task("drop", s[i])
    OBVIOUS
  <2> HIDE DEF b
  <2>3. b \in Seq(TaskSet) /\ Len(b) = m
    BY <1>4, <2>1
  <2> QED
    BY <2>2, <2>3 DEF Task
<1> HIDE DEF b
<1>9. PICK fields \in {<<Task("drop", Self), Task("weak", Self)>>, <<Task("weak", Self), Task("drop", Self)>>} :
        todo' = fr \o (IF Self = None THEN <<>> ELSE <<Task("finish", Self)>> \o fields) \o b
  BY DEF Return, fr, b, m, s
<1>10. CASE Self = None
  <2> DEFINE te == fr \o <<>> \o b
  <2>1. todo' = te /\ n = 1
    BY <1>2, <1>9, <1>10
  <2>2. te \in Seq(TaskSet) /\ Len(te) = m /\ \A i \in 1 .. m : te[i] = b[i]
    <3>1. <<>> \in Seq(TaskSet) /\ Len(<<>>) = 0
      OBVIOUS
    <3>2. /\ te \in Seq(TaskSet) /\ Len(te) = Len(fr) + 0 + Len(b)
          /\ \A i \in 1 .. Len(b) : te[Len(fr) + 0 + i] = b[i]
      <4> DEFINE e == <<>>
      <4>1. e \in Seq(TaskSet) /\ Len(e) = 0
        OBVIOUS
      <4> HIDE DEF e
      <4>2. LET t == fr \o e \o b IN
              /\ t \in Seq(TaskSet) /\ Len(t) = Len(fr) + Len(e) + Len(b)
              /\ \A i \in 1 .. Len(b) : t[Len(fr) + Len(e) + i] = b[i]
        BY <1>5, <1>8, <4>1, Concat
      <4> QED
        BY <4>1, <4>2 DEF e
    <3> HIDE DEF te
    <3> QED
      BY <1>4, <1>5, <1>8, <2>1, <3>2
  <2> HIDE DEF te
  <2>3. DOMAIN te = 1 .. m
    BY <1>4, <2>2
  <2>4. /\ \A i \in 1 .. n - 1 : i \in DOMAIN te /\ te[i] = todo[i]
        /\ \A i \in DOMAIN te : te[i].do = "drop" /\ te[i].of \in Mine
    BY <1>6, <1>8, <2>1, <2>2, <2>3
  <2>5. \A i, k \in DOMAIN te : te[i].of = te[k].of => i = k
    BY <1>4, <1>8, <2>2, <2>3
  <2>6. \A x \in Mine : \E i \in DOMAIN te : te[i].do = "drop" /\ te[i].of = x
    BY <1>4, <1>8, <2>2, <2>3
  <2> QED
    BY <1>10, <2>1, <2>2, <2>4, <2>5, <2>6 DEF ReturnTo, n
<1>11. CASE Self # None
  <2> DEFINE a == <<Task("finish", Self)>> \o fields
             te == fr \o a \o b
  <2>1. todo' = te
    BY <1>9, <1>11
  <2>2. Self \in Box /\ Self \in Holder
    BY <1>2, <1>11, HolderFacts
  <2>3. /\ Task("finish", Self) \in TaskSet /\ Task("drop", Self) \in TaskSet /\ Task("weak", Self) \in TaskSet
        /\ Task("finish", Self).do = "finish" /\ Task("finish", Self).of = Self
        /\ Task("drop", Self).do = "drop" /\ Task("drop", Self).of = Self
        /\ Task("weak", Self).do = "weak" /\ Task("weak", Self).of = Self
    BY <2>2 DEF Task, TaskSet
  <2>4. /\ a \in Seq(TaskSet) /\ Len(a) = 3 /\ a[1] = Task("finish", Self)
        /\ \/ a[2] = Task("drop", Self) /\ a[3] = Task("weak", Self)
           \/ a[2] = Task("weak", Self) /\ a[3] = Task("drop", Self)
    <3> DEFINE tf == Task("finish", Self)
               tg == Task("drop", Self)
               tw == Task("weak", Self)
    <3>1. tf \in TaskSet /\ tg \in TaskSet /\ tw \in TaskSet
      BY <2>3
    <3>2. fields = <<tg, tw>> \/ fields = <<tw, tg>>
      BY <1>9
    <3>3. a = <<tf>> \o fields
      OBVIOUS
    <3> HIDE DEF tf, tg, tw
    <3>4. CASE fields = <<tg, tw>>
      BY <3>1, <3>3, <3>4 DEF tf, tg, tw
    <3>5. CASE fields = <<tw, tg>>
      BY <3>1, <3>3, <3>5 DEF tf, tg, tw
    <3> QED
      BY <3>2, <3>4, <3>5
  <2> HIDE DEF a
  <2>5. /\ te \in Seq(TaskSet) /\ Len(te) = Len(fr) + Len(a) + Len(b)
        /\ \A i \in 1 .. Len(fr) : te[i] = fr[i]
        /\ \A i \in 1 .. Len(a) : te[Len(fr) + i] = a[i]
        /\ \A i \in 1 .. Len(b) : te[Len(fr) + Len(a) + i] = b[i]
    BY <1>5, <1>8, <2>4, Concat
  <2> HIDE DEF te
  <2>6. /\ Len(te) = n + 2 + m /\ DOMAIN te = 1 .. n + 2 + m
        /\ \A i \in 1 .. n - 1 : te[i] = todo[i]
        /\ te[n] = a[1] /\ te[n + 1] = a[2] /\ te[n + 2] = a[3]
        /\ \A i \in 1 .. m : te[n + 2 + i] = b[i]
    <3>1. Len(te) = n + 2 + m
      BY <1>2, <1>4, <1>5, <1>8, <2>4, <2>5
    <3>2. \A i \in 1 .. n - 1 : te[i] = todo[i]
      BY <1>5, <2>5
    <3>3. 1 \in 1 .. Len(a) /\ 2 \in 1 .. Len(a) /\ 3 \in 1 .. Len(a)
      BY <2>4
    <3>4. te[n - 1 + 1] = a[1] /\ te[n - 1 + 2] = a[2] /\ te[n - 1 + 3] = a[3]
      BY <1>5, <2>5, <3>3
    <3>5. n - 1 + 1 = n /\ n - 1 + 2 = n + 1 /\ n - 1 + 3 = n + 2
      BY <1>2
    <3>6. \A i \in 1 .. m : te[n + 2 + i] = b[i]
      <4>1. \A i \in 1 .. m : n - 1 + 3 + i = n + 2 + i
        BY <1>2
      <4> QED
        BY <1>5, <1>8, <2>4, <2>5, <4>1
    <3>7. DOMAIN te = 1 .. n + 2 + m
      BY <2>5, <3>1
    <3>8. te[n] = a[1] /\ te[n + 1] = a[2] /\ te[n + 2] = a[3]
      BY <3>4, <3>5
    <3> QED
      BY <3>1, <3>2, <3>6, <3>7, <3>8
  <2>7. ASSUME NEW i \in DOMAIN te, i >= n
        PROVE  \/ i = n \/ i = n + 1 \/ i = n + 2
               \/ \E k \in 1 .. m : i = n + 2 + k /\ te[i].do = "drop" /\ te[i].of = s[k]
    <3>1. i - (n + 2) \in 1 .. m \/ i = n \/ i = n + 1 \/ i = n + 2
      <4>1. n \in Nat /\ m \in Nat /\ i \in 1 .. n + 2 + m
        BY <1>2, <1>4, <2>6
      <4> QED
        BY <2>7, <4>1
    <3>2. CASE i - (n + 2) \in 1 .. m
      <4>1. i = n + 2 + (i - (n + 2))
        BY <1>2, <2>6
      <4> QED
        BY <1>8, <2>6, <3>2, <4>1
    <3> QED
      BY <3>1, <3>2
  <2>8. \A i \in 1 .. n - 1 : i \in DOMAIN te /\ te[i] = todo[i]
    BY <1>2, <1>4, <2>6
  <2>9. n \in DOMAIN te /\ n + 1 \in DOMAIN te /\ n + 2 \in DOMAIN te
    BY <1>2, <1>4, <2>6
  <2>10. \A i \in DOMAIN te : i >= n =>
           \/ i = n
           \/ i > n /\ te[i].do \in {"drop", "weak"} /\ te[i].of = Self
           \/ te[i].do = "drop" /\ te[i].of \in Mine /\ i > n
    <3> TAKE i \in DOMAIN te
    <3> HAVE i >= n
    <3>1. n + 1 > n /\ n + 2 > n /\ \A k \in 1 .. m : n + 2 + k > n
      BY <1>2
    <3> QED
      BY <1>6, <2>3, <2>4, <2>6, <2>7, <3>1
  <2>11. \A i, k \in DOMAIN te :
           i >= n /\ k >= n /\ te[i].do = "drop" /\ te[k].do = "drop" /\ te[i].of = te[k].of => i = k
    <3> TAKE i, k \in DOMAIN te
    <3> HAVE i >= n /\ k >= n /\ te[i].do = "drop" /\ te[k].do = "drop" /\ te[i].of = te[k].of
    <3>1. Self \notin Mine
      BY <1>2, <2>2, HolderFacts
    <3>2. te[n].do # "drop" /\ (te[n + 1].do # "drop" \/ te[n + 2].do # "drop")
          /\ te[n + 1].of = Self /\ te[n + 2].of = Self
      BY <2>3, <2>4, <2>6
    <3>3. (i = n + 1 \/ i = n + 2) /\ (k = n + 1 \/ k = n + 2) => i = k
      BY <3>2
    <3>4. /\ (i = n + 1 \/ i = n + 2 => te[i].of = Self) /\ (k = n + 1 \/ k = n + 2 => te[k].of = Self)
          /\ i # n /\ k # n
      BY <3>2
    <3> QED
      BY <1>4, <1>6, <2>7, <3>1, <3>3, <3>4
  <2>12. \A x \in Mine : \E i \in DOMAIN te : te[i].do = "drop" /\ te[i].of = x
    <3> TAKE x \in Mine
    <3>1. PICK k \in 1 .. m : s[k] = x
      BY <1>4
    <3>2. n + 2 + k \in DOMAIN te
      BY <1>2, <1>4, <2>6
    <3> QED
      BY <1>8, <2>6, <3>1, <3>2
  <2>13. /\ te[n].do = "finish" /\ te[n].of = Self
         /\ \E i \in DOMAIN te : te[i].do = "drop" /\ te[i].of = Self
         /\ \E i \in DOMAIN te : te[i].do = "weak" /\ te[i].of = Self
    BY <2>3, <2>4, <2>6, <2>9
  <2> QED
    BY <1>11, <2>1, <2>5, <2>8, <2>9, <2>10, <2>11, <2>12, <2>13 DEF ReturnTo, n
<1> QED
  BY <1>10, <1>11

\* The end of main or of a drop method.
LEMMA ReturnStep ==
  ASSUME RcInv, Return
  PROVE  After
<1> DEFINE n == Len(todo)
           te == todo'
<1>1. Running /\ box' = box /\ ref' = ref /\ up' = up
  BY DEF Return
<1>2. /\ box \in [Box -> PlRc] /\ ref \in [Holder -> Box \cup {None}]
      /\ up \in [Box -> Box \cup {None}] /\ todo \in Seq(TaskSet)
      /\ Strong(box, ref, todo, None) /\ Weak(box, up, todo) /\ Life(box, ref, up)
      /\ Tasks(box, ref, todo) /\ Left(box, ref, up, todo, None)
  BY NowFacts
<1>3. /\ n \in Nat \ {0} /\ todo[n].do = "run" /\ DOMAIN todo = 1 .. n /\ Self = todo[n].of
      /\ Self \in Box \cup {None} /\ (Self = None => n = 1) /\ Depth = Level(todo, n)
      /\ \A x \in Mine : /\ x \in Local /\ x \in Holder /\ x[1] = Level(todo, n)
                         /\ \A i \in DOMAIN todo : ~Changes(todo[i], x)
  BY <1>1, Code
<1>4. ReturnTo(te, n)
  BY ReturnShape
<1> HIDE DEF n, te
<1>5. /\ te \in Seq(TaskSet)
      /\ \A i \in 1 .. n - 1 : i \in DOMAIN te /\ te[i] = todo[i]
      /\ Self # None =>
           /\ n \in DOMAIN te /\ te[n].do = "finish" /\ te[n].of = Self
           /\ \E i \in DOMAIN te : te[i].do = "drop" /\ te[i].of = Self
           /\ \E i \in DOMAIN te : te[i].do = "weak" /\ te[i].of = Self
      /\ \A i \in DOMAIN te : i >= n =>
           \/ Self # None /\ i = n
           \/ Self # None /\ i > n /\ te[i].do \in {"drop", "weak"} /\ te[i].of = Self
           \/ te[i].do = "drop" /\ te[i].of \in Mine /\ (Self # None => i > n)
      /\ \A i, k \in DOMAIN te :
           i >= n /\ k >= n /\ te[i].do = "drop" /\ te[k].do = "drop" /\ te[i].of = te[k].of => i = k
      /\ \A x \in Mine : \E i \in DOMAIN te : te[i].do = "drop" /\ te[i].of = x
  BY <1>4 DEF ReturnTo
<1>6. DOMAIN te = 1 .. Len(te) /\ Len(te) \in Nat
  BY <1>5, SeqFacts
<1>7. /\ \A i \in DOMAIN te : i \in Nat /\ (i \in 1 .. n - 1 \/ i >= n)
      /\ \A i \in 1 .. n - 1 : i \in DOMAIN todo /\ i < n /\ i # n
      /\ \A i \in DOMAIN todo : i \in 1 .. n - 1 \/ i = n
  BY <1>3, <1>6
<1>8. Self # None => Self \in Box /\ Self \in Holder /\ Self \in Object /\ Self \notin Local
                     /\ (\A i \in DOMAIN todo : todo[i].do \in {"drop", "weak"} => todo[i].of # Self)
                     /\ box[Self].value = "dropped"
  <2>1. Self # None => Self \in Object /\ Self \in Box /\ Frame(todo[n])
    BY <1>3 DEF Object, Frame
  <2>2. n \in DOMAIN todo
    BY <1>3
  <2>3. Self # None => box[Self].value = "dropped"
    BY <1>2, <1>3, <2>1, <2>2 DEF Tasks, Drops
  <2> QED
    BY <1>1, <2>1, <2>3, Named, HolderFacts
\* The kinds of the tasks.
<1>9. \A i \in DOMAIN te : i >= n => te[i].do # "store" /\ te[i].do # "run" /\ te[i].of # None
  BY <1>3, <1>5, <1>8, HolderFacts
<1>10. \A i \in DOMAIN te : Frame(te[i]) =>
         \/ i \in 1 .. n - 1 /\ Frame(todo[i])
         \/ Self # None /\ i = n /\ te[i].of = Self
  BY <1>5, <1>7 DEF Frame
<1>11. \A x : StaleIn(te, x) <=> StaleIn(todo, x)
  BY <1>3, <1>5, <1>7, <1>9 DEF StaleIn
\* The counts.
<1>12. \A b \in Box : Kept(ref, te, b) = Kept(ref, todo, b) /\ Due(te, b) = Due(todo, b)
                      /\ Frames(te, b) = Frames(todo, b)
  <2> TAKE b \in Box
  <2>1. Kept(ref, te, b) = Kept(ref, todo, b)
    BY <1>11 DEF Kept
  <2>2. Due(te, b) = Due(todo, b)
    BY <1>3, <1>5, <1>7, <1>9 DEF Due
  <2>3. b # None
    BY HolderFacts
  <2>4. ASSUME NEW i PROVE i \in Frames(te, b) <=> i \in Frames(todo, b)
    <3>1. CASE i \in 1 .. n - 1
      BY <1>5, <1>7, <3>1 DEF Frames
    <3>2. CASE i = n
      <4>1. n \in DOMAIN todo /\ todo[n].do \in {"run", "finish"} /\ todo[n].of = Self
        BY <1>3
      <4>2. n \in Frames(todo, b) <=> Self = b
        BY <4>1 DEF Frames
      <4>3. Self = b => n \in Frames(te, b)
        BY <1>5, <2>3 DEF Frames
      <4>4. n \in Frames(te, b) => Self = b
        <5> SUFFICES ASSUME n \in Frames(te, b) PROVE Self = b
          OBVIOUS
        <5>1. n \in DOMAIN te /\ te[n].of = b /\ Frame(te[n])
          BY <2>3 DEF Frames, Frame
        <5>2. n \notin 1 .. n - 1
          BY <1>3
        <5> QED
          BY <1>10, <5>1, <5>2
      <4> QED
        BY <3>2, <4>2, <4>3, <4>4
    <3>3. CASE i \notin 1 .. n - 1 /\ i # n
      <4>1. i \notin DOMAIN todo
        BY <1>7, <3>3
      <4>2. i \in Frames(te, b) => i \in DOMAIN te /\ Frame(te[i])
        BY <2>3 DEF Frames, Frame
      <4> QED
        BY <1>10, <3>3, <4>1, <4>2 DEF Frames
    <3> QED
      BY <3>1, <3>2, <3>3
  <2> QED
    BY <2>1, <2>2, <2>4
<1>13. Strong(box, ref, te, None)
  BY <1>2, <1>12 DEF Strong, Held
<1>14. Weak(box, up, te)
  BY <1>2, <1>12 DEF Weak, WeakHeld
\* The tasks.
<1>15. \A j \in 0 .. n - 1 : Level(te, j) = Level(todo, j)
  <2> TAKE j \in 0 .. n - 1
  <2>1. j \in Nat /\ \A i \in 1 .. j : i \in 1 .. n - 1
    BY <1>3
  <2>2. \A i \in 1 .. j : te[i] = todo[i]
    BY <1>5, <2>1
  <2> QED
    BY <2>1, <2>2, LevelSame
<1>16. \A i \in DOMAIN te : i >= n /\ te[i].of \in Local => Level(te, i) = Level(todo, n)
  <2> SUFFICES ASSUME NEW i \in DOMAIN te, i >= n, te[i].of \in Local
               PROVE  Level(te, i) = Level(todo, n)
    OBVIOUS
  <2>1. {k \in 1 .. i : Frame(te[k])} = {k \in 1 .. n : Frame(todo[k])}
    <3>1. ASSUME NEW k PROVE k \in 1 .. i /\ Frame(te[k]) <=> k \in 1 .. n /\ Frame(todo[k])
      <4>1. CASE k \in 1 .. n - 1
        <5>1. k \in 1 .. i /\ k \in 1 .. n
          BY <1>3, <1>7, <4>1
        <5> QED
          BY <1>5, <4>1, <5>1
      <4>2. CASE k = n
        <5>1. k \in 1 .. i /\ k \in 1 .. n /\ k \in DOMAIN te /\ k \notin 1 .. n - 1
          BY <1>3, <1>6, <1>7, <4>2
        <5>2. Frame(todo[n]) <=> Self # None
          BY <1>3 DEF Frame
        <5>3. Frame(te[k]) => Self # None
          BY <1>10, <5>1
        <5>4. Self # None => Frame(te[k])
          BY <1>5, <4>2 DEF Frame
        <5> QED
          BY <4>2, <5>1, <5>2, <5>3, <5>4
      <4>3. CASE k \notin 1 .. n - 1 /\ k # n
        <5>1. k \notin 1 .. n
          BY <1>3, <1>7, <4>3
        <5>2. k \in 1 .. i => k \in DOMAIN te
          BY <1>6
        <5> QED
          BY <1>10, <4>3, <5>1, <5>2
      <4> QED
        BY <4>1, <4>2, <4>3
    <3> QED
      BY <3>1
  <2> QED
    BY <2>1 DEF Level
<1>17. Sorts(te)
  <2> SUFFICES ASSUME NEW i \in DOMAIN te
               PROVE  /\ te[i].of = None => te[i].do = "run" /\ i = 1
                      /\ te[i].do \in {"run", "finish", "weak"} => te[i].of \in Box \cup {None}
    BY DEF Sorts
  <2>1. CASE i \in 1 .. n - 1
    BY <1>2, <1>5, <1>7, <2>1 DEF Tasks, Sorts
  <2>2. CASE i >= n
    BY <1>3, <1>5, <1>8, <1>9, <2>2
  <2> QED
    BY <1>7, <2>1, <2>2
<1>18. Drops(box, te)
  <2>1. ASSUME NEW i \in DOMAIN te, Frame(te[i])
        PROVE  i \in DOMAIN todo /\ Frame(todo[i]) /\ todo[i].of = te[i].of
    <3>1. CASE i \in 1 .. n - 1
      BY <1>5, <1>7, <2>1, <3>1
    <3>2. CASE Self # None /\ i = n /\ te[i].of = Self
      BY <1>3, <3>2 DEF Frame
    <3> QED
      BY <1>10, <2>1, <3>1, <3>2
  <2> QED
    BY <1>2, <2>1 DEF Tasks, Drops
<1>19. Waits(te)
  <2> SUFFICES ASSUME NEW i \in DOMAIN te, te[i].do = "store"
               PROVE  Frame(te[i + 1])
    BY DEF Waits
  <2>1. i \in 1 .. n - 1 /\ te[i] = todo[i]
    BY <1>5, <1>7, <1>9
  <2>2. i \in DOMAIN todo /\ i < n /\ (i + 1 \in 1 .. n - 1 \/ i + 1 = n)
    BY <1>3, <2>1
  <2>3. Frame(todo[i + 1])
    BY <1>2, <2>1, <2>2 DEF Tasks, Waits, n
  <2>4. CASE i + 1 \in 1 .. n - 1
    BY <1>5, <2>3, <2>4
  <2>5. CASE i + 1 = n
    BY <1>3, <1>5, <2>3, <2>5 DEF Frame
  <2> QED
    BY <2>2, <2>4, <2>5
<1>20. Levels(te)
  <2> SUFFICES ASSUME NEW i \in DOMAIN te, te[i].do \in {"drop", "store"}, te[i].of \in Local
               PROVE  Level(te, i) = te[i].of[1]
    BY DEF Levels
  <2>1. CASE i \in 1 .. n - 1
    <3>1. Level(te, i) = Level(todo, i)
      <4>1. i \in 0 .. n - 1
        BY <1>3, <2>1
      <4> QED
        BY <1>15, <4>1
    <3> QED
      BY <1>2, <1>5, <1>7, <2>1, <3>1 DEF Tasks, Levels
  <2>2. CASE i >= n
    <3>1. te[i].of \in Mine
      BY <1>5, <1>8, <2>2
    <3> QED
      BY <1>3, <1>16, <2>2, <3>1
  <2> QED
    BY <1>7, <2>1, <2>2
<1>21. Once(te)
  <2>1. ASSUME NEW i \in DOMAIN te, NEW h \in Holder, Changes(te[i], h)
        PROVE  \/ i \in 1 .. n - 1 /\ i \in DOMAIN todo /\ Changes(todo[i], h) /\ h \notin Mine /\ h # Self
               \/ i >= n /\ te[i].do = "drop" /\ te[i].of = h /\ (h \in Mine \/ (Self # None /\ h = Self))
    <3>1. CASE i \in 1 .. n - 1
      <4>1. i \in DOMAIN todo /\ Changes(todo[i], h)
        BY <1>5, <1>7, <2>1, <3>1
      <4>2. h \notin Mine
        BY <1>3, <4>1
      <4>3. h # Self
        <5> SUFFICES ASSUME h = Self PROVE FALSE
          OBVIOUS
        <5>1. Self # None
          BY HolderFacts
        <5>2. todo[i].do = "store" /\ todo[i].of = Self /\ Self \in Box
          BY <1>8, <4>1, <5>1 DEF Changes
        <5>3. \/ Ending(todo, i, Self)
              \/ ByMain(ref, todo, i)
          BY <1>2, <4>1, <5>2 DEF Tasks, StoreFields
        <5>4. ~Ending(todo, i, Self)
          BY <1>1, <1>8, <4>1, <5>1, Named
        <5>5. PICK x \in Name : ref[<<0, x>>] = Self /\ ~StaleIn(todo, <<0, x>>)
          BY <5>2, <5>3, <5>4 DEF ByMain
        <5>6. <<0, x>> \in Holder
          BY BoundsAssumption DEF Holder, Local
        <5>7. box[Self].value = "alive"
          BY <1>2, <5>1, <5>5, <5>6, HeldAlive
        <5> QED
          BY <1>8, <5>1, <5>7
      <4> QED
        BY <3>1, <4>1, <4>2, <4>3
    <3>2. CASE i >= n
      <4>1. te[i].do \in {"drop", "store"} /\ te[i].of = h
        BY <2>1 DEF Changes
      <4>2. ~(Self # None /\ i = n)
        BY <1>5, <4>1
      <4> QED
        BY <1>5, <1>9, <3>2, <4>1, <4>2
    <3> QED
      BY <1>7, <3>1, <3>2
  <2> SUFFICES ASSUME NEW i \in DOMAIN te, NEW k \in DOMAIN te, NEW h \in Holder,
                      Changes(te[i], h), Changes(te[k], h)
               PROVE  i = k
    BY DEF Once
  <2>2. CASE i \in 1 .. n - 1 /\ k \in 1 .. n - 1
    <3>1. /\ i \in DOMAIN todo /\ k \in DOMAIN todo /\ Changes(todo[i], h) /\ Changes(todo[k], h)
      BY <1>5, <1>7, <2>2
    <3> QED
      BY <1>2, <3>1 DEF Tasks, Once
  <2>3. CASE i >= n /\ k >= n
    <3>1. te[i].do = "drop" /\ te[i].of = h /\ te[k].do = "drop" /\ te[k].of = h
      <4>1. i \notin 1 .. n - 1 /\ k \notin 1 .. n - 1
        BY <1>3, <1>7, <2>3
      <4> QED
        BY <2>1, <4>1
    <3> QED
      BY <1>5, <2>3, <3>1
  <2> QED
    BY <1>7, <2>1, <2>2, <2>3
<1>22. \A i \in 1 .. n, c \in Box : Ending(todo, i, c) => Ending(te, i, c)
  <2> SUFFICES ASSUME NEW i \in 1 .. n, NEW c \in Box, Ending(todo, i, c)
               PROVE  Ending(te, i, c)
    OBVIOUS
  <2>1. PICK k \in 1 .. i - 1 : todo[k].do = "finish" /\ todo[k].of = c
    BY DEF Ending
  <2>2. k \in 1 .. n - 1
    BY <1>3, <2>1
  <2> QED
    BY <1>5, <2>1, <2>2 DEF Ending
<1>23. Fields(te)
  <2> SUFFICES ASSUME NEW i \in DOMAIN te, te[i].do \in {"drop", "weak"}, te[i].of \in Box
               PROVE  Ending(te, i, te[i].of)
    BY DEF Fields
  <2>1. CASE i \in 1 .. n - 1
    <3>1. i \in 1 .. n
      BY <1>3, <2>1
    <3> QED
      BY <1>2, <1>5, <1>7, <1>22, <2>1, <3>1 DEF Tasks, Fields
  <2>2. CASE i >= n
    <3>1. te[i].of \notin Mine
      BY <1>3, HolderFacts
    <3>2. Self # None /\ i > n /\ te[i].of = Self
      BY <1>5, <2>2, <3>1
    <3>3. n \in 1 .. i - 1
      BY <1>3, <1>7, <3>2
    <3> QED
      BY <1>5, <3>2, <3>3 DEF Ending
  <2> QED
    BY <1>7, <2>1, <2>2
<1>24. StoreFields(ref, te)
  <2> SUFFICES ASSUME NEW i \in DOMAIN te, te[i].do = "store", te[i].of \in Box
               PROVE  (te[i].val = None /\ Ending(te, i, te[i].of)) \/ ByMain(ref, te, i)
    BY DEF StoreFields
  <2>1. i \in 1 .. n - 1 /\ i \in DOMAIN todo /\ te[i] = todo[i]
    BY <1>5, <1>7, <1>9
  <2>2. (todo[i].val = None /\ Ending(todo, i, todo[i].of)) \/ ByMain(ref, todo, i)
    BY <1>2, <2>1 DEF Tasks, StoreFields
  <2>3. ByMain(ref, todo, i) => ByMain(ref, te, i)
    <3>1. i = 2 => 1 \in 1 .. n - 1
      BY <1>3, <2>1
    <3> QED
      BY <1>5, <1>11, <2>1, <3>1 DEF ByMain
  <2>4. i \in 1 .. n
    BY <1>3, <2>1
  <2> QED
    BY <1>22, <2>1, <2>2, <2>3, <2>4
<1>25. StoreLocals(te)
  <2> SUFFICES ASSUME NEW i \in DOMAIN te, te[i].do = "store", te[i].of \in Local, te[i].val # None
               PROVE  i > 1 /\ te[i - 1].do = "run"
    BY DEF StoreLocals
  <2>1. i \in 1 .. n - 1 /\ i \in DOMAIN todo /\ te[i] = todo[i]
    BY <1>5, <1>7, <1>9
  <2>2. i > 1 /\ todo[i - 1].do = "run"
    BY <1>2, <2>1 DEF Tasks, StoreLocals
  <2>3. i - 1 \in 1 .. n - 1
    BY <1>3, <2>1, <2>2
  <2> QED
    BY <1>5, <2>2, <2>3
<1>26. StaleRefs(box, ref, te)
  <2>1. \A i \in DOMAIN te : te[i].do = "store" => i \in DOMAIN todo /\ te[i] = todo[i]
    BY <1>5, <1>7, <1>9
  <2> QED
    BY <1>2, <2>1 DEF Tasks, StaleRefs
<1>27. Tasks(box, ref, te)
  BY <1>17, <1>18, <1>19, <1>20, <1>21, <1>23, <1>24, <1>25, <1>26 DEF Tasks
<1>28. Left(box, ref, up, te, None)
  <2>1. ASSUME NEW l \in Local, ref[l] # None
        PROVE  \/ \E i \in DOMAIN te : te[i].do = "run" /\ Level(te, i) = l[1]
               \/ \E i \in DOMAIN te : Changes(te[i], l)
    <3>1. \/ \E i \in DOMAIN todo : todo[i].do = "run" /\ Level(todo, i) = l[1]
          \/ \E i \in DOMAIN todo : Changes(todo[i], l)
      BY <1>2, <2>1, HolderFacts DEF Left
    <3>2. CASE \E i \in DOMAIN todo : todo[i].do = "run" /\ Level(todo, i) = l[1]
      <4>1. PICK i \in DOMAIN todo : todo[i].do = "run" /\ Level(todo, i) = l[1]
        BY <3>2
      <4>2. CASE i \in 1 .. n - 1
        <5>1. i \in 0 .. n - 1
          BY <1>3, <4>2
        <5> QED
          BY <1>5, <1>15, <4>1, <4>2, <5>1
      <4>3. CASE i = n
        <5>1. l \in Mine
          <6>1. Depth = l[1] /\ l[1] <= MaxDepth /\ l[2] \in Name /\ l = <<l[1], l[2]>>
            BY <1>3, <4>1, <4>3, HolderFacts, BoundsAssumption
          <6> QED
            BY <6>1 DEF Mine
        <5> QED
          BY <1>5, <5>1 DEF Changes
      <4> QED
        BY <1>7, <4>2, <4>3
    <3>3. CASE \E i \in DOMAIN todo : Changes(todo[i], l)
      <4>1. PICK i \in DOMAIN todo : Changes(todo[i], l)
        BY <3>3
      <4>2. i \in 1 .. n - 1
        BY <1>3, <1>7, <4>1 DEF Changes
      <4> QED
        BY <1>5, <4>1, <4>2
    <3> QED
      BY <3>1, <3>2, <3>3
  <2>2. ASSUME NEW c \in Box, box[c].value = "dropped", ref[c] # None
        PROVE  \E i \in DOMAIN te : (te[i].do = "run" /\ te[i].of = c) \/ Changes(te[i], c)
    <3>1. PICK i \in DOMAIN todo : (todo[i].do = "run" /\ todo[i].of = c) \/ Changes(todo[i], c)
      BY <1>2, <2>2, HolderFacts DEF Left
    <3>2. CASE i \in 1 .. n - 1
      BY <1>5, <3>1, <3>2
    <3>3. CASE i = n
      <4>1. c = Self /\ Self # None
        BY <1>3, <3>1, <3>3, HolderFacts DEF Changes
      <4> QED
        BY <1>5, <4>1 DEF Changes
    <3> QED
      BY <1>7, <3>2, <3>3
  <2>3. ASSUME NEW c \in Box, box[c].value = "dropped", up[c] # None
        PROVE  \E i \in DOMAIN te : te[i].do \in {"run", "weak"} /\ te[i].of = c
    <3>1. PICK i \in DOMAIN todo : todo[i].do \in {"run", "weak"} /\ todo[i].of = c
      BY <1>2, <2>3 DEF Left
    <3>2. CASE i \in 1 .. n - 1
      BY <1>5, <3>1, <3>2
    <3>3. CASE i = n
      <4>1. c = Self /\ Self # None
        BY <1>3, <3>1, <3>3, HolderFacts
      <4> QED
        BY <1>5, <4>1
    <3> QED
      BY <1>7, <3>2, <3>3
  <2> QED
    BY <2>1, <2>2, <2>3 DEF Left
<1> QED
  BY <1>1, <1>2, <1>5, <1>13, <1>14, <1>27, <1>28 DEF After, Sound, te

-----------------------------------------------------------------------------
\* What is left of the tasks when the last one is taken.
LEMMA PopNow ==
  ASSUME RcInv, todo # <<>>
  PROVE  LET n == Len(todo)
             fr == Front(todo) IN
         /\ n \in Nat \ {0} /\ Last(todo) = todo[n] /\ n \in DOMAIN todo /\ DOMAIN todo = 1 .. n
         /\ fr \in Seq(TaskSet) /\ Len(fr) = n - 1 /\ DOMAIN fr = 1 .. n - 1
         /\ \A i \in 1 .. n - 1 : fr[i] = todo[i] /\ i \in DOMAIN todo
         /\ \A i \in DOMAIN todo : i = n \/ i \in 1 .. n - 1
         /\ Tasks(box, ref, fr)
         /\ \A j \in 0 .. n - 1 : Level(fr, j) = Level(todo, j)
         /\ \A x : StaleIn(fr, x) => StaleIn(todo, x)
  BY NowFacts, PopFacts, SeqFacts, TasksPop

\* A holder that a task drops.
LEMMA DropStep ==
  ASSUME RcInv, Drop
  PROVE  After
<1> DEFINE n == Len(todo)
           fr == Front(todo)
           h == Self
<1>1. todo # <<>> /\ Last(todo).do = "drop" /\ pl_rc_release(box, h, None, fr) /\ up' = up
  BY DEF Drop, NextTask
<1>2. /\ box \in [Box -> PlRc] /\ ref \in [Holder -> Box \cup {None}]
      /\ up \in [Box -> Box \cup {None}] /\ todo \in Seq(TaskSet)
      /\ Strong(box, ref, todo, None) /\ Weak(box, up, todo) /\ Life(box, ref, up)
      /\ Tasks(box, ref, todo) /\ Left(box, ref, up, todo, None)
  BY NowFacts
<1>3. /\ n \in Nat \ {0} /\ Last(todo) = todo[n] /\ n \in DOMAIN todo /\ DOMAIN todo = 1 .. n
      /\ fr \in Seq(TaskSet) /\ Len(fr) = n - 1 /\ DOMAIN fr = 1 .. n - 1
      /\ \A i \in 1 .. n - 1 : fr[i] = todo[i] /\ i \in DOMAIN todo
      /\ \A i \in DOMAIN todo : i = n \/ i \in 1 .. n - 1
      /\ Tasks(box, ref, fr)
      /\ \A j \in 0 .. n - 1 : Level(fr, j) = Level(todo, j)
  BY <1>1, PopNow
<1>4. todo[n].do = "drop" /\ todo[n].of = h /\ h \in Holder
  <2>1. todo[n].do = "drop" /\ todo[n].of = h
    BY <1>1, <1>3 DEF Self
  <2>2. h \in Holder \cup {None} /\ h # None
    BY <1>2, <1>3, <2>1, SeqFacts DEF Tasks, Sorts
  <2> QED
    BY <2>1, <2>2
<1>5. /\ \A b \in Box : Held(ref, fr, b) = Held(ref, todo, b)
      /\ \A b \in Box : WeakHeld(up, fr, b) = WeakHeld(up, todo, b)
  BY <1>1, <1>2, HeldPop, HolderFacts DEF Frame
<1> HIDE DEF n, fr, h
<1>6. Strong(box, ref, fr, None) /\ Weak(box, up, fr)
  BY <1>2, <1>5 DEF Strong, Weak
<1>7. Changes(todo[n], h)
  BY <1>4 DEF Changes
<1>8. \A i \in 1 .. n - 1 : i # n
  BY <1>3
<1>9. \A i \in DOMAIN fr : ~Changes(fr[i], h)
  BY <1>2, <1>3, <1>4, <1>7, <1>8 DEF Tasks, Once
<1>10. n - 1 \in DOMAIN fr => fr[n - 1].do # "store"
  <2> SUFFICES ASSUME n - 1 \in 1 .. n - 1, todo[n - 1].do = "store"
               PROVE  FALSE
    BY <1>3
  <2>1. n - 1 \in DOMAIN todo /\ n - 1 < n /\ n - 1 + 1 = n
    BY <1>3
  <2>2. Frame(todo[n])
    BY <1>2, <2>1 DEF Tasks, Waits, n
  <2> QED
    BY <1>4, <2>2 DEF Frame
<1>11. h \in Local => Level(fr, n - 1) = h[1]
  <2> SUFFICES ASSUME h \in Local PROVE Level(fr, n - 1) = h[1]
    OBVIOUS
  <2>1. Level(todo, n) = h[1]
    BY <1>2, <1>3, <1>4 DEF Tasks, Levels
  <2>2. n - 1 \in Nat /\ n - 1 + 1 = n /\ n - 1 \in 0 .. n - 1
    BY <1>3
  <2>3. Level(todo, n) = Level(todo, n - 1)
    <3>1. ~Frame(todo[n])
      BY <1>4 DEF Frame
    <3> QED
      BY <2>2, <3>1, LevelNext
  <2> QED
    BY <1>3, <2>1, <2>2, <2>3
<1>12. h \in Box => Ending(fr, n - 1 + 1, h)
  <2> SUFFICES ASSUME h \in Box PROVE Ending(fr, n - 1 + 1, h)
    OBVIOUS
  <2>1. Ending(todo, n, h)
    BY <1>2, <1>3, <1>4 DEF Tasks, Fields
  <2>2. n - 1 + 1 = n
    BY <1>3
  <2> QED
    BY <1>3, <2>1, <2>2 DEF Ending
<1>13. Left(box, ref, up, fr, h)
  <2>1. ASSUME NEW l \in Local \ {h}, ref[l] # None
        PROVE  \/ \E i \in DOMAIN fr : fr[i].do = "run" /\ Level(fr, i) = l[1]
               \/ \E i \in DOMAIN fr : Changes(fr[i], l)
    <3>1. \/ \E i \in DOMAIN todo : todo[i].do = "run" /\ Level(todo, i) = l[1]
          \/ \E i \in DOMAIN todo : Changes(todo[i], l)
      BY <1>2, <2>1, HolderFacts DEF Left
    <3>2. \A i \in 1 .. n - 1 : i \in 0 .. n - 1
      BY <1>3
    <3>3. \A i \in DOMAIN todo : todo[i].do = "run" \/ Changes(todo[i], l) => i \in 1 .. n - 1
      BY <1>3, <1>4, <2>1 DEF Changes
    <3> QED
      BY <1>3, <3>1, <3>2, <3>3
  <2>2. ASSUME NEW c \in Box \ {h}, box[c].value = "dropped", ref[c] # None
        PROVE  \E i \in DOMAIN fr : (fr[i].do = "run" /\ fr[i].of = c) \/ Changes(fr[i], c)
    <3>1. PICK i \in DOMAIN todo : (todo[i].do = "run" /\ todo[i].of = c) \/ Changes(todo[i], c)
      BY <1>2, <2>2, HolderFacts DEF Left
    <3>2. i \in 1 .. n - 1
      BY <1>3, <1>4, <2>2, <3>1 DEF Changes
    <3> QED
      BY <1>3, <3>1, <3>2
  <2>3. ASSUME NEW c \in Box, box[c].value = "dropped", up[c] # None
        PROVE  \E i \in DOMAIN fr : fr[i].do \in {"run", "weak"} /\ fr[i].of = c
    <3>1. PICK i \in DOMAIN todo : todo[i].do \in {"run", "weak"} /\ todo[i].of = c
      BY <1>2, <2>3 DEF Left
    <3>2. i \in 1 .. n - 1
      BY <1>3, <1>4, <3>1
    <3> QED
      BY <1>3, <3>1, <3>2
  <2> QED
    BY <2>1, <2>2, <2>3 DEF Left
<1>14. Ready(box, ref, up, fr, h, None)
  <2>1. \A i \in DOMAIN fr : ~Changes(fr[i], h) /\ (i = Len(fr) => fr[i].do # "store")
    BY <1>3, <1>9, <1>10
  <2>2. h \in Local => Level(fr, Len(fr)) = h[1]
    BY <1>3, <1>11
  <2>3. h \in Box => Ending(fr, Len(fr) + 1, h)
    BY <1>3, <1>12
  <2> QED
    BY <1>2, <1>3, <1>6, <1>13, <2>1, <2>2, <2>3 DEF Ready
<1>15. None \in Box \cup {None}
  OBVIOUS
<1> QED
  BY <1>1, <1>2, <1>3, <1>4, <1>14, <1>15, Release DEF After

\* A weak field is dropped.
LEMMA DropWeakStep ==
  ASSUME RcInv, DropWeak
  PROVE  After
<1> DEFINE n == Len(todo)
           fr == Front(todo)
           c == Self
           bx == pl_rc_weak_release(pl_rc_weak_new(box, None), up[c])
           ug == [up EXCEPT ![c] = None]
<1>1. todo # <<>> /\ Last(todo).do = "weak" /\ box' = bx /\ up' = ug /\ todo' = fr /\ ref' = ref
  BY DEF DropWeak, NextTask, pl_rc_weak_new
<1>2. /\ box \in [Box -> PlRc] /\ ref \in [Holder -> Box \cup {None}]
      /\ up \in [Box -> Box \cup {None}] /\ todo \in Seq(TaskSet)
      /\ Strong(box, ref, todo, None) /\ Weak(box, up, todo) /\ Life(box, ref, up)
      /\ Tasks(box, ref, todo) /\ Left(box, ref, up, todo, None)
  BY NowFacts
<1>3. /\ n \in Nat \ {0} /\ Last(todo) = todo[n] /\ n \in DOMAIN todo
      /\ fr \in Seq(TaskSet) /\ DOMAIN fr = 1 .. n - 1
      /\ \A i \in 1 .. n - 1 : fr[i] = todo[i] /\ i \in DOMAIN todo
      /\ \A i \in DOMAIN todo : i = n \/ i \in 1 .. n - 1
      /\ Tasks(box, ref, fr)
      /\ \A j \in 0 .. n - 1 : Level(fr, j) = Level(todo, j)
  BY <1>1, PopNow
<1>4. todo[n].do = "weak" /\ todo[n].of = c /\ c \in Box
  <2>1. todo[n].do = "weak" /\ todo[n].of = c
    BY <1>1, <1>3 DEF Self
  <2> QED
    BY <1>2, <1>3, <2>1 DEF Tasks, Sorts
<1>5. /\ \A b \in Box : Held(ref, fr, b) = Held(ref, todo, b)
      /\ \A b \in Box : WeakHeld(up, fr, b) = WeakHeld(up, todo, b)
  BY <1>1, <1>2, HeldPop, HolderFacts DEF Frame
<1>6. ug \in [Box -> Box \cup {None}] /\ ug[c] = None /\ \A x \in Box : x # c => ug[x] = up[x]
  BY <1>2, <1>4
<1> HIDE DEF n, fr, c, ug
<1>7. Strong(box, ref, fr, None) /\ Weak(box, up, fr)
  BY <1>2, <1>5 DEF Strong, Weak
<1>8. /\ bx \in [Box -> PlRc]
      /\ \A b \in Box : bx[b].value = box[b].value /\ bx[b].strong = box[b].strong
      /\ Weak(bx, ug, fr) /\ Life(bx, ref, ug)
  <2>1. None \in Box \cup {None}
    OBVIOUS
  <2>2. /\ box \in [Box -> PlRc] /\ up \in [Box -> Box \cup {None}] /\ fr \in Seq(TaskSet) /\ c \in Box
        /\ Weak(box, up, fr) /\ Life(box, ref, up)
        /\ ug[c] = None /\ \A x \in Box : x # c => ug[x] = up[x]
    BY <1>2, <1>3, <1>4, <1>6, <1>7
  <2> QED
    BY <2>1, <2>2, WeakMove, SMTT(30)
<1> HIDE DEF bx
<1>9. Strong(bx, ref, fr, None)
  BY <1>7, <1>8 DEF Strong
<1>10. Left(bx, ref, ug, fr, None)
  <2>1. ASSUME NEW l \in Local, ref[l] # None
        PROVE  \/ \E i \in DOMAIN fr : fr[i].do = "run" /\ Level(fr, i) = l[1]
               \/ \E i \in DOMAIN fr : Changes(fr[i], l)
    <3>1. \/ \E i \in DOMAIN todo : todo[i].do = "run" /\ Level(todo, i) = l[1]
          \/ \E i \in DOMAIN todo : Changes(todo[i], l)
      BY <1>2, <2>1, HolderFacts DEF Left
    <3>2. \A i \in 1 .. n - 1 : i \in 0 .. n - 1
      BY <1>3
    <3>3. \A i \in DOMAIN todo : todo[i].do = "run" \/ Changes(todo[i], l) => i \in 1 .. n - 1
      BY <1>3, <1>4 DEF Changes
    <3> QED
      BY <1>3, <3>1, <3>2, <3>3
  <2>2. ASSUME NEW x \in Box, bx[x].value = "dropped", ref[x] # None
        PROVE  \E i \in DOMAIN fr : (fr[i].do = "run" /\ fr[i].of = x) \/ Changes(fr[i], x)
    <3>1. PICK i \in DOMAIN todo : (todo[i].do = "run" /\ todo[i].of = x) \/ Changes(todo[i], x)
      BY <1>2, <1>8, <2>2, HolderFacts DEF Left
    <3>2. i \in 1 .. n - 1
      BY <1>3, <1>4, <3>1 DEF Changes
    <3> QED
      BY <1>3, <3>1, <3>2
  <2>3. ASSUME NEW x \in Box, bx[x].value = "dropped", ug[x] # None
        PROVE  \E i \in DOMAIN fr : fr[i].do \in {"run", "weak"} /\ fr[i].of = x
    <3>1. x # c /\ up[x] # None
      BY <1>6, <2>3
    <3>2. PICK i \in DOMAIN todo : todo[i].do \in {"run", "weak"} /\ todo[i].of = x
      BY <1>2, <1>8, <2>3, <3>1 DEF Left
    <3>3. i \in 1 .. n - 1
      BY <1>3, <1>4, <3>1, <3>2
    <3> QED
      BY <1>3, <3>2, <3>3
  <2> QED
    BY <2>1, <2>2, <2>3 DEF Left
<1>11. Tasks(bx, ref, fr)
  BY <1>2, <1>3, <1>8, SameValues
<1> QED
  BY <1>1, <1>2, <1>3, <1>6, <1>8, <1>9, <1>10, <1>11 DEF After, Sound

\* The rest of pl_rc_release.
LEMMA FinishStep ==
  ASSUME RcInv, Finish
  PROVE  After
<1> DEFINE n == Len(todo)
           fr == Front(todo)
           w == Self
           bx == pl_rc_weak_release(box, w)
<1>1. /\ todo # <<>> /\ Last(todo).do = "finish" /\ todo' = fr /\ ref' = ref /\ up' = up
      /\ box' = [box EXCEPT ![w].weak  = @ - 1,
                            ![w].freed = IF box[w].weak = 1 THEN @ + 1 ELSE @]
  BY DEF Finish, NextTask, Hold
<1>2. /\ box \in [Box -> PlRc] /\ ref \in [Holder -> Box \cup {None}]
      /\ up \in [Box -> Box \cup {None}] /\ todo \in Seq(TaskSet)
      /\ Strong(box, ref, todo, None) /\ Weak(box, up, todo) /\ Life(box, ref, up)
      /\ Tasks(box, ref, todo) /\ Left(box, ref, up, todo, None)
  BY NowFacts
<1>3. /\ n \in Nat \ {0} /\ Last(todo) = todo[n] /\ n \in DOMAIN todo
      /\ fr \in Seq(TaskSet) /\ DOMAIN fr = 1 .. n - 1
      /\ \A i \in 1 .. n - 1 : fr[i] = todo[i] /\ i \in DOMAIN todo
      /\ \A i \in DOMAIN todo : i = n \/ i \in 1 .. n - 1
      /\ Tasks(box, ref, fr)
      /\ \A j \in 0 .. n - 1 : Level(fr, j) = Level(todo, j)
  BY <1>1, PopNow
<1>4. todo[n].do = "finish" /\ todo[n].of = w /\ w \in Box /\ Frame(todo[n])
  <2>1. todo[n].do = "finish" /\ todo[n].of = w
    BY <1>1, <1>3 DEF Self
  <2>2. w # None /\ w \in Box
    BY <1>2, <1>3, <2>1 DEF Tasks, Sorts
  <2> QED
    BY <2>1, <2>2 DEF Frame
<1>5. box[w].value = "dropped" /\ box[w].strong = 0 /\ w # None
  BY <1>2, <1>3, <1>4 DEF Tasks, Drops, Life, Frame
<1>6. box' = bx
  <2>1. (box[w].weak = 1 /\ box[w].strong = 0) <=> box[w].weak = 1
    BY <1>5
  <2> QED
    BY <1>1, <1>5, <2>1 DEF pl_rc_weak_release
<1>7. \A b \in Box : Held(ref, fr, b) = Held(ref, todo, b)
  BY <1>1, <1>2, HeldPop
<1> HIDE DEF n, fr, w, bx
<1>8. \A i \in 1 .. n - 1 : i # n
  BY <1>3
<1>9. ASSUME NEW b \in Box
      PROVE  /\ WeakHeld(up, fr, b) \in Nat /\ WeakHeld(up, todo, b) \in Nat
             /\ WeakHeld(up, todo, b) = WeakHeld(up, fr, b) + (IF b = w THEN 1 ELSE 0)
  <2> DEFINE F == Frames(todo, b)
             G == Frames(fr, b)
  <2>1. IsFiniteSet(F) /\ IsFiniteSet(G) /\ Cardinality(Weaks(up, b)) \in Nat
    BY <1>2, <1>3, SetFinite
  <2>2. F \ {n} = G \ {n} /\ n \notin G /\ (n \in F <=> b = w)
    BY <1>3, <1>4, <1>8 DEF Frames
  <2> HIDE DEF F, G
  <2>3. /\ Cardinality(F) \in Nat /\ Cardinality(G) \in Nat
        /\ Cardinality(G) + (IF n \in F THEN 1 ELSE 0) = Cardinality(F) + (IF n \in G THEN 1 ELSE 0)
    BY <2>1, <2>2, OneApart
  <2>4. Cardinality(F) = Cardinality(G) + (IF b = w THEN 1 ELSE 0)
    BY <2>2, <2>3
  <2>5. /\ WeakHeld(up, todo, b) = Cardinality(Weaks(up, b)) + Cardinality(F)
        /\ WeakHeld(up, fr, b) = Cardinality(Weaks(up, b)) + Cardinality(G)
    BY DEF WeakHeld, F, G
  <2> QED
    BY <2>1, <2>3, <2>4, <2>5
<1>10. \A b \in Box : box[b].weak = WeakHeld(up, todo, b)
  BY <1>2 DEF Weak
<1>11. box[w].weak >= 1
  BY <1>4, <1>9, <1>10
<1>12. /\ bx \in [Box -> PlRc]
       /\ \A b \in Box :
            /\ bx[b].strong = box[b].strong /\ bx[b].value = box[b].value
            /\ bx[b].weak = box[b].weak - (IF b = w THEN 1 ELSE 0)
            /\ bx[b].freed = box[b].freed + (IF b = w /\ box[b].weak = 1 /\ box[b].strong = 0 THEN 1 ELSE 0)
  BY <1>2, <1>4, <1>11, WeakReleaseFacts DEF bx
<1>13. Strong(bx, ref, fr, None)
  BY <1>2, <1>7, <1>12 DEF Strong
<1>14. Weak(bx, up, fr)
  <2> SUFFICES ASSUME NEW b \in Box PROVE bx[b].weak = WeakHeld(up, fr, b)
    BY DEF Weak
  <2> QED
    BY <1>9, <1>10, <1>12
<1>15. Life(bx, ref, up)
  <2> SUFFICES ASSUME NEW b \in Box
               PROVE  /\ bx[b].value = "unborn" =>
                           bx[b].strong = 0 /\ bx[b].weak = 0 /\ bx[b].freed = 0 /\ ref[b] = None /\ up[b] = None
                      /\ bx[b].value = "alive" => bx[b].strong >= 1 /\ bx[b].freed = 0
                      /\ bx[b].value = "dropped" =>
                           bx[b].strong = 0 /\ bx[b].freed = IF bx[b].weak = 0 THEN 1 ELSE 0
    BY DEF Life
  <2>1. box[b].weak \in Nat /\ box[b].freed \in Nat /\ box[b].strong \in Nat
    BY <1>2 DEF PlRc
  <2>2. CASE b = w
    <3>1. box[w].freed = 0
      BY <1>2, <1>4, <1>5, <1>11 DEF Life
    <3>2. /\ bx[w].weak = box[w].weak - 1
          /\ bx[w].freed = IF box[w].weak = 1 THEN 1 ELSE 0
          /\ bx[w].strong = 0 /\ bx[w].value = "dropped"
      BY <1>4, <1>5, <1>12, <2>1, <2>2, <3>1
    <3> QED
      BY <2>1, <2>2, <3>2
  <2>3. CASE b # w
    <3>1. bx[b].weak = box[b].weak /\ bx[b].freed = box[b].freed
      BY <1>12, <2>1, <2>3
    <3> QED
      BY <1>2, <1>12, <3>1 DEF Life
  <2> QED
    BY <2>2, <2>3
<1>16. Tasks(bx, ref, fr)
  BY <1>2, <1>3, <1>12, SameValues
<1>17. Left(bx, ref, up, fr, None)
  <2>1. ASSUME NEW l \in Local, ref[l] # None
        PROVE  \/ \E i \in DOMAIN fr : fr[i].do = "run" /\ Level(fr, i) = l[1]
               \/ \E i \in DOMAIN fr : Changes(fr[i], l)
    <3>1. \/ \E i \in DOMAIN todo : todo[i].do = "run" /\ Level(todo, i) = l[1]
          \/ \E i \in DOMAIN todo : Changes(todo[i], l)
      BY <1>2, <2>1, HolderFacts DEF Left
    <3>2. \A i \in 1 .. n - 1 : i \in 0 .. n - 1
      BY <1>3
    <3>3. \A i \in DOMAIN todo : todo[i].do = "run" \/ Changes(todo[i], l) => i \in 1 .. n - 1
      BY <1>3, <1>4 DEF Changes
    <3> QED
      BY <1>3, <3>1, <3>2, <3>3
  <2>2. ASSUME NEW x \in Box, bx[x].value = "dropped", ref[x] # None
        PROVE  \E i \in DOMAIN fr : (fr[i].do = "run" /\ fr[i].of = x) \/ Changes(fr[i], x)
    <3>1. PICK i \in DOMAIN todo : (todo[i].do = "run" /\ todo[i].of = x) \/ Changes(todo[i], x)
      BY <1>2, <1>12, <2>2, HolderFacts DEF Left
    <3>2. i \in 1 .. n - 1
      BY <1>3, <1>4, <3>1 DEF Changes
    <3> QED
      BY <1>3, <3>1, <3>2
  <2>3. ASSUME NEW x \in Box, bx[x].value = "dropped", up[x] # None
        PROVE  \E i \in DOMAIN fr : fr[i].do \in {"run", "weak"} /\ fr[i].of = x
    <3>1. PICK i \in DOMAIN todo : todo[i].do \in {"run", "weak"} /\ todo[i].of = x
      BY <1>2, <1>12, <2>3 DEF Left
    <3>2. i \in 1 .. n - 1
      BY <1>3, <1>4, <3>1
    <3> QED
      BY <1>3, <3>1, <3>2
  <2> QED
    BY <2>1, <2>2, <2>3 DEF Left
<1> QED
  BY <1>1, <1>2, <1>3, <1>6, <1>12, <1>13, <1>14, <1>15, <1>16, <1>17 DEF After, Sound

\* From one state to the next.
LEMMA SoundNext ==
  ASSUME RcInv, After, style' = style
  PROVE  RcInv'
<1>1. style \in Styles
  BY NowFacts
<1> QED
  BY <1>1, ZenonT(60) DEF RcInv, RcType, After, Sound, Strong, Lossy, Weak, Life, Tasks, Sorts, Drops, Waits, Levels,
       Once, Fields, StoreFields, ByMain, MainWrites, StoreLocals, StaleRefs, Left, Level, Changes, Frame, StaleIn,
       Held, WeakHeld, Ending, Kept, Due, Weaks, Frames

\* A step that changes no variable keeps the invariant.
LEMMA SoundSame ==
  ASSUME RcInv, UNCHANGED vars
  PROVE  RcInv'
<1>1. After
  BY NowFacts DEF After, Sound, vars
<1> QED
  BY <1>1, SoundNext DEF vars

\* The rest of an assignment.
LEMMA StoreNewStep ==
  ASSUME RcInv, StoreNew
  PROVE  After
<1> DEFINE n == Len(todo)
           fr == Front(todo)
           h == Self
           v == Last(todo).val
           rg == [ref EXCEPT ![h] = v]
<1>1. todo # <<>> /\ Last(todo).do = "store" /\ todo' = fr /\ ref' = rg /\ up' = up /\ box' = box
  BY DEF StoreNew, NextTask
<1>2. /\ box \in [Box -> PlRc] /\ ref \in [Holder -> Box \cup {None}]
      /\ up \in [Box -> Box \cup {None}] /\ todo \in Seq(TaskSet)
      /\ Strong(box, ref, todo, None) /\ Weak(box, up, todo) /\ Life(box, ref, up)
      /\ Tasks(box, ref, todo) /\ Left(box, ref, up, todo, None)
  BY NowFacts
<1>3. /\ n \in Nat \ {0} /\ Last(todo) = todo[n] /\ n \in DOMAIN todo /\ DOMAIN todo = 1 .. n
      /\ fr \in Seq(TaskSet) /\ DOMAIN fr = 1 .. n - 1
      /\ \A i \in 1 .. n - 1 : fr[i] = todo[i] /\ i \in DOMAIN todo
      /\ \A i \in DOMAIN todo : i = n \/ i \in 1 .. n - 1
      /\ Tasks(box, ref, fr)
      /\ \A j \in 0 .. n - 1 : Level(fr, j) = Level(todo, j)
      /\ \A x : StaleIn(fr, x) => StaleIn(todo, x)
  BY <1>1, PopNow
<1>4. todo[n].do = "store" /\ todo[n].of = h /\ h \in Holder /\ todo[n].val = v /\ v \in Box \cup {None}
  <2>1. todo[n].do = "store" /\ todo[n].of = h /\ todo[n].val = v
    BY <1>1, <1>3 DEF Self
  <2>2. h \in Holder \cup {None} /\ v \in Box \cup {None} /\ h # None
    BY <1>2, <1>3, <2>1, SeqFacts DEF Tasks, Sorts
  <2> QED
    BY <2>1, <2>2
<1>5. rg \in [Holder -> Box \cup {None}] /\ rg[h] = v /\ \A x \in Holder : x # h => rg[x] = ref[x]
  BY <1>2, <1>4
<1>6. \A b \in Box : WeakHeld(up, fr, b) = WeakHeld(up, todo, b)
  BY <1>1, <1>2, HeldPop, HolderFacts DEF Frame
<1> HIDE DEF n, fr, h, v, rg
<1>7. \A i \in 1 .. n - 1 : i # n
  BY <1>3
<1>8. \A i \in DOMAIN fr : ~Changes(fr[i], h)
  BY <1>2, <1>3, <1>4, <1>7 DEF Tasks, Once, Changes
<1>9. \A x : StaleIn(todo, x) <=> StaleIn(fr, x) \/ x = h
  BY <1>3, <1>4 DEF StaleIn
<1>10. ~StaleIn(fr, h)
  BY <1>8 DEF StaleIn, Changes
\* The counts.
<1>11. ASSUME NEW b \in Box PROVE Held(rg, fr, b) = Held(ref, todo, b)
  <2> DEFINE K == Kept(ref, todo, b)
             M == Kept(rg, fr, b)
             D == Due(todo, b)
             E == Due(fr, b)
  <2>1. IsFiniteSet(K) /\ IsFiniteSet(M) /\ IsFiniteSet(D) /\ IsFiniteSet(E)
    BY <1>2, <1>3, SetFinite
  <2>2. K \ {h} = M \ {h} /\ h \notin K /\ (h \in M <=> b = v)
    BY <1>4, <1>5, <1>9, <1>10 DEF Kept
  <2>3. D \ {n} = E \ {n} /\ n \notin E /\ (n \in D <=> b = v)
    BY <1>3, <1>4, <1>7 DEF Due
  <2> HIDE DEF K, M, D, E
  <2>4. /\ Cardinality(K) \in Nat /\ Cardinality(M) \in Nat
        /\ Cardinality(M) = Cardinality(K) + (IF b = v THEN 1 ELSE 0)
    BY <2>1, <2>2, OneApart
  <2>5. /\ Cardinality(D) \in Nat /\ Cardinality(E) \in Nat
        /\ Cardinality(D) = Cardinality(E) + (IF b = v THEN 1 ELSE 0)
    <3>1. /\ Cardinality(D) \in Nat /\ Cardinality(E) \in Nat
          /\ Cardinality(E) + (IF n \in D THEN 1 ELSE 0) = Cardinality(D) + (IF n \in E THEN 1 ELSE 0)
      BY <2>1, <2>3, OneApart
    <3> QED
      BY <2>3, <3>1
  <2>6. Held(ref, todo, b) = Cardinality(K) + Cardinality(D) /\ Held(rg, fr, b) = Cardinality(M) + Cardinality(E)
    BY DEF Held, K, M, D, E
  <2> QED
    BY <2>4, <2>5, <2>6
<1>12. Strong(box, rg, fr, None)
  BY <1>2, <1>11 DEF Strong
<1>13. Weak(box, up, fr)
  BY <1>2, <1>6 DEF Weak
\* What is stored.
<1>14. h \in Box /\ v # None => box[h].value = "alive"
  <2> SUFFICES ASSUME h \in Box, v # None PROVE box[h].value = "alive"
    OBVIOUS
  <2>1. ByMain(ref, todo, n)
    BY <1>2, <1>3, <1>4 DEF Tasks, StoreFields
  <2>2. PICK x \in Name : ref[<<0, x>>] = h /\ ~StaleIn(todo, <<0, x>>)
    BY <1>4, <2>1 DEF ByMain
  <2>3. <<0, x>> \in Holder /\ h # None
    BY BoundsAssumption, HolderFacts DEF Holder, Local
  <2> QED
    BY <1>2, <2>2, <2>3, HeldAlive
<1>15. Life(box, rg, up)
  <2>1. \A b \in Box : box[b].value = "unborn" => rg[b] = None
    <3> TAKE b \in Box
    <3>1. CASE b = h
      BY <1>5, <1>14, <3>1
    <3>2. CASE b # h
      BY <1>2, <1>5, <3>2, HolderFacts DEF Life
    <3> QED
      BY <3>1, <3>2
  <2> QED
    BY <1>2, <2>1 DEF Life
\* The tasks.
<1>16. StoreFields(rg, fr)
  <2> SUFFICES ASSUME NEW i \in DOMAIN fr, fr[i].do = "store", fr[i].of \in Box, ByMain(ref, fr, i)
               PROVE  ByMain(rg, fr, i)
    BY <1>3 DEF Tasks, StoreFields
  <2>1. PICK x \in Name : ref[<<0, x>>] = fr[i].of /\ ~StaleIn(fr, <<0, x>>)
    BY DEF ByMain
  <2>2. i \in DOMAIN todo /\ todo[i].do = "store" /\ i = 2 /\ i < Len(todo)
    <3>1. i \in 1 .. n - 1 /\ i < n
      BY <1>3
    <3> QED
      BY <1>3, <3>1 DEF ByMain, n
  <2>3. h \in Local => Level(todo, Len(todo)) = h[1]
    BY <1>2, <1>3, <1>4 DEF Tasks, Levels, n
  <2>4. h # <<0, x>>
    BY <1>2, <1>4, <2>2, <2>3, MainStays DEF Tasks
  <2>5. <<0, x>> \in Holder
    BY BoundsAssumption DEF Holder, Local
  <2> QED
    BY <1>5, <2>1, <2>4, <2>5 DEF ByMain
<1>17. StaleRefs(box, rg, fr)
  <2> SUFFICES ASSUME NEW i \in DOMAIN fr, fr[i].do = "store"
               PROVE  rg[fr[i].of] # None /\ box[rg[fr[i].of]].value = "dropped"
    BY DEF StaleRefs
  <2>1. fr[i].of # h /\ fr[i].of \in Holder
    BY <1>3, <1>8, SeqFacts DEF Changes, Tasks, Sorts
  <2> QED
    BY <1>3, <1>5, <2>1 DEF Tasks, StaleRefs
<1>18. Tasks(box, rg, fr)
  BY <1>3, <1>16, <1>17 DEF Tasks
<1>19. Left(box, rg, up, fr, None)
  <2>1. ASSUME NEW l \in Local, rg[l] # None
        PROVE  \/ \E i \in DOMAIN fr : fr[i].do = "run" /\ Level(fr, i) = l[1]
               \/ \E i \in DOMAIN fr : Changes(fr[i], l)
    <3>1. CASE l = h
      <4>1. n > 1 /\ todo[n - 1].do = "run"
        BY <1>2, <1>3, <1>4, <1>5, <2>1, <3>1 DEF Tasks, StoreLocals
      <4>2. n - 1 \in Nat /\ n - 1 + 1 = n /\ n - 1 \in 0 .. n - 1 /\ n - 1 \in 1 .. n - 1
        BY <1>3, <4>1
      <4>3. Level(todo, n) = l[1]
        BY <1>2, <1>3, <1>4, <3>1 DEF Tasks, Levels
      <4>4. Level(todo, n) = Level(todo, n - 1)
        <5>1. ~Frame(todo[n])
          BY <1>4 DEF Frame
        <5> QED
          BY <4>2, <5>1, LevelNext
      <4> QED
        BY <1>3, <4>1, <4>2, <4>3, <4>4
    <3>2. CASE l # h
      <4>1. ref[l] # None
        BY <1>5, <2>1, <3>2, HolderFacts
      <4>2. \/ \E i \in DOMAIN todo : todo[i].do = "run" /\ Level(todo, i) = l[1]
            \/ \E i \in DOMAIN todo : Changes(todo[i], l)
        BY <1>2, <4>1, HolderFacts DEF Left
      <4>3. \A i \in 1 .. n - 1 : i \in 0 .. n - 1
        BY <1>3
      <4>4. \A i \in DOMAIN todo : todo[i].do = "run" \/ Changes(todo[i], l) => i \in 1 .. n - 1
        BY <1>3, <1>4, <3>2 DEF Changes
      <4> QED
        BY <1>3, <4>2, <4>3, <4>4
    <3> QED
      BY <3>1, <3>2
  <2>2. ASSUME NEW x \in Box, box[x].value = "dropped", rg[x] # None
        PROVE  \E i \in DOMAIN fr : (fr[i].do = "run" /\ fr[i].of = x) \/ Changes(fr[i], x)
    <3>1. x # h
      BY <1>5, <1>14, <2>2
    <3>2. ref[x] # None
      BY <1>5, <2>2, <3>1, HolderFacts
    <3>3. PICK i \in DOMAIN todo : (todo[i].do = "run" /\ todo[i].of = x) \/ Changes(todo[i], x)
      BY <1>2, <2>2, <3>2, HolderFacts DEF Left
    <3>4. i \in 1 .. n - 1
      BY <1>3, <1>4, <3>1, <3>3 DEF Changes
    <3> QED
      BY <1>3, <3>3, <3>4
  <2>3. ASSUME NEW x \in Box, box[x].value = "dropped", up[x] # None
        PROVE  \E i \in DOMAIN fr : fr[i].do \in {"run", "weak"} /\ fr[i].of = x
    <3>1. PICK i \in DOMAIN todo : todo[i].do \in {"run", "weak"} /\ todo[i].of = x
      BY <1>2, <2>3 DEF Left
    <3>2. i \in 1 .. n - 1
      BY <1>3, <1>4, <3>1
    <3> QED
      BY <1>3, <3>1, <3>2
  <2> QED
    BY <2>1, <2>2, <2>3 DEF Left
<1> QED
  BY <1>1, <1>2, <1>3, <1>5, <1>12, <1>13, <1>15, <1>18, <1>19 DEF After, Sound

-----------------------------------------------------------------------------
\* The first state.
LEMMA InitSound ==
  ASSUME Init
  PROVE  RcInv
<1> DEFINE zero == [strong |-> 0, weak |-> 0, freed |-> 0, value |-> "unborn"]
<1>1. style \in Styles /\ box = [b \in Box |-> zero] /\ ref = [h \in Holder |-> None]
      /\ up = [b \in Box |-> None] /\ todo = <<Task("run", None)>>
  BY DEF Init
<1>2. zero \in PlRc
  BY DEF PlRc
<1>3. box \in [Box -> PlRc] /\ ref \in [Holder -> Box \cup {None}] /\ up \in [Box -> Box \cup {None}]
  <2> HIDE DEF zero
  <2> QED
    BY <1>1, <1>2
<1>4. /\ todo \in Seq(TaskSet) /\ DOMAIN todo = {1} /\ Len(todo) = 1
      /\ todo[1].do = "run" /\ todo[1].of = None
  <2> DEFINE t == Task("run", None)
  <2>1. t \in TaskSet /\ t.do = "run" /\ t.of = None
    BY DEF Task, TaskSet
  <2>2. todo = <<t>>
    BY <1>1
  <2> HIDE DEF t
  <2> QED
    BY <2>1, <2>2
<1>5. \A b \in Box : b # None /\ box[b].strong = 0 /\ box[b].weak = 0 /\ box[b].freed = 0
                     /\ box[b].value = "unborn" /\ ref[b] = None /\ up[b] = None
  BY <1>1, HolderFacts
<1>6. \A b \in Box : Kept(ref, todo, b) = {} /\ Due(todo, b) = {} /\ Weaks(up, b) = {} /\ Frames(todo, b) = {}
  BY <1>1, <1>4, <1>5 DEF Kept, Due, Weaks, Frames
<1>7. \A b \in Box : Held(ref, todo, b) = 0 /\ WeakHeld(up, todo, b) = 0
  BY <1>6, FS_EmptySet DEF Held, WeakHeld
<1>8. Strong(box, ref, todo, None) /\ Weak(box, up, todo)
  BY <1>5, <1>7 DEF Strong, Weak
<1>9. Life(box, ref, up)
  BY <1>5 DEF Life
<1>10. Tasks(box, ref, todo)
  BY <1>4 DEF Tasks, Sorts, Drops, Waits, Levels, Once, Fields, StoreFields, StoreLocals, StaleRefs, Changes, Frame
<1>11. Left(box, ref, up, todo, None)
  BY <1>1, <1>5, HolderFacts DEF Left
<1> QED
  BY <1>1, <1>3, <1>4, <1>8, <1>9, <1>10, <1>11 DEF RcInv, RcType, Sound

\* Every step leaves a sound state.
LEMMA NextSound ==
  ASSUME \A s \in Styles : Gentle(s), RcInv, [Next]_vars
  PROVE  RcInv'
<1>1. Gentle(style)
  BY NowFacts
<1>2. CASE Running /\ UserStep /\ UNCHANGED style
  <2>1. ASSUME NEW x \in Mine, New(x) \/ Clear(x) PROVE After
    BY <1>2, <2>1, NewStep, ClearStep
  <2>2. ASSUME NEW x \in Mine, NEW y \in Mine, Copy(x, y) PROVE After
    BY <1>2, <2>2, CopyStep
  <2>3. ASSUME NEW x \in Mine, NEW c \in Object, ReadField(x, c) \/ Upgrade(x, c) PROVE After
    BY <1>1, <1>2, <2>3, ReadFieldStep, UpgradeStep
  <2>4. ASSUME NEW c \in Object, NEW v \in {None} \cup {ref[x] : x \in Mine},
               WriteField(c, v) \/ WriteDeep(c, v) \/ WriteWeak(c, v)
        PROVE  After
    <3>1. CASE WriteField(c, v)
      BY <1>1, <1>2, <3>1, WriteFieldStep
    <3>2. CASE WriteDeep(c, v)
      BY <1>1, <1>2, <3>2, WriteDeepStep
    <3>3. CASE WriteWeak(c, v)
      BY <1>2, <3>3, WriteWeakStep
    <3> QED
      BY <2>4, <3>1, <3>2, <3>3
  <2>5. After
    BY <1>2, <2>1, <2>2, <2>3, <2>4, ReturnStep DEF UserStep
  <2> QED
    BY <1>2, <2>5, SoundNext
<1>3. CASE (Drop \/ DropWeak \/ Finish \/ StoreNew) /\ UNCHANGED style
  BY <1>3, DropStep, DropWeakStep, FinishStep, StoreNewStep, SoundNext
<1>4. CASE Done \/ UNCHANGED vars
  BY <1>4, SoundSame DEF Done
<1> QED
  BY <1>2, <1>3, <1>4 DEF Next

-----------------------------------------------------------------------------
\* RcInv holds in every state of a program with gentle styles.
LEMMA Invariant ==
  ASSUME \A s \in Styles : Gentle(s)
  PROVE  Spec => []RcInv
<1>1. Init => RcInv
  BY InitSound
<1>2. RcInv /\ [Next]_vars => RcInv'
  BY NextSound
<1> QED
  BY <1>1, <1>2, PTL DEF Spec

\* The types of the model: every count stays a natural number, so no release
\* takes away a reference nobody had, and a value is dropped once.
THEOREM RcTypes ==
  ASSUME \A s \in Styles : Gentle(s)
  PROVE  Spec => []TypeOK
<1>1. RcInv => TypeOK
  <2> SUFFICES ASSUME RcInv PROVE TypeOK
    OBVIOUS
  <2>1. /\ box \in [Box -> PlRc] /\ ref \in [Holder -> Box \cup {None}]
        /\ up \in [Box -> Box \cup {None}] /\ todo \in Seq(TaskSet)
    BY NowFacts
  <2> QED
    BY <2>1, SeqFacts DEF TypeOK, PlRc
<1> QED
  BY <1>1, Invariant, PTL

\* The counts of every box are the numbers of references and of drops there
\* are, and it is given back once at most (pl_rc_retain, pl_rc_release,
\* pl_rc_weak_new, pl_rc_weak_release), for any number of boxes and locals and
\* however deep drop methods nest.
THEOREM CountsAreReferences ==
  ASSUME \A s \in Styles : Gentle(s)
  PROVE  Spec => []Counted
<1>1. RcInv => Counted
  <2> SUFFICES ASSUME RcInv PROVE Counted
    OBVIOUS
  <2>1. /\ box \in [Box -> PlRc] /\ todo \in Seq(TaskSet)
        /\ Strong(box, ref, todo, None) /\ Weak(box, up, todo) /\ Life(box, ref, up)
    BY NowFacts
  <2>2. \A b \in Box : Kept(ref, todo, b) = {h \in Holder : ref[h] = b /\ ~Stale(h)}
    BY DEF Kept, StaleIn, Stale
  <2>3. \A b \in Box : b # None /\ Held(ref, todo, b) \in Nat /\ box[b].freed \in Nat
                       /\ box[b].value \in {"unborn", "alive", "dropped"}
    BY <2>1, HeldFacts, HolderFacts DEF PlRc
  <2>4. \A b \in Box : box[b].strong >= Held(ref, todo, b) /\ (Lossy \/ box[b].strong = Held(ref, todo, b))
    BY <2>1, <2>3 DEF Strong
  <2>5. \A b \in Box : box[b].weak = WeakHeld(up, todo, b)
    BY <2>1 DEF Weak
  <2>6. \A b \in Box : box[b].freed <= 1
    BY <2>1, <2>3 DEF Life
  <2> QED
    BY <2>2, <2>4, <2>5, <2>6 DEF Counted, Held, Due, WeakHeld, Weaks, Frames
<1> QED
  BY <1>1, Invariant, PTL

\* Whatever a program can still refer to was not freed, and the value of an rc
\* was not dropped: copies, reads, upgrade() and the drops of fields included.
THEOREM NothingDangles ==
  ASSUME \A s \in Styles : Gentle(s)
  PROVE  Spec => []NoDangling
<1>1. RcInv => NoDangling
  <2> SUFFICES ASSUME RcInv PROVE NoDangling
    OBVIOUS
  <2>1. /\ box \in [Box -> PlRc] /\ ref \in [Holder -> Box \cup {None}]
        /\ up \in [Box -> Box \cup {None}] /\ todo \in Seq(TaskSet)
        /\ Strong(box, ref, todo, None) /\ Weak(box, up, todo) /\ Life(box, ref, up)
    BY NowFacts
  <2>2. ASSUME NEW h \in Holder, ref[h] # None, ~Stale(h)
        PROVE  box[ref[h]].freed = 0 /\ box[ref[h]].value = "alive"
    <3>1. ref[h] \in Box /\ box[ref[h]].value = "alive"
      BY <2>1, <2>2, HeldAlive DEF Stale, StaleIn
    <3> QED
      BY <2>1, <3>1 DEF Life
  <2>3. ASSUME NEW b \in Box, up[b] # None
        PROVE  box[up[b]].freed = 0
    <3> DEFINE w == up[b]
               K == Weaks(up, w)
    <3>1. w \in Box
      BY <2>1, <2>3
    <3>2. IsFiniteSet(K) /\ Cardinality(K) \in Nat /\ Cardinality(Frames(todo, w)) \in Nat
      BY <2>1, SetFinite
    <3>3. b \in K
      BY DEF Weaks
    <3>4. Cardinality(K) # 0
      <4> HIDE DEF K
      <4> QED
        BY <3>2, <3>3, FS_EmptySet
    <3>5. box[w].weak = Cardinality(K) + Cardinality(Frames(todo, w))
      BY <2>1, <3>1 DEF Weak, WeakHeld
    <3>6. box[w].weak # 0 /\ box[w].value \in {"unborn", "alive", "dropped"}
      BY <2>1, <3>1, <3>2, <3>4, <3>5 DEF PlRc
    <3> QED
      BY <2>1, <3>1, <3>6 DEF Life
  <2> QED
    BY <2>2, <2>3 DEF NoDangling
<1> QED
  BY <1>1, Invariant, PTL

\* When main is over, what is still there is kept by a cycle: a value by a
\* reference in another value, a box by a weak one.
THEOREM OnlyCyclesLeft ==
  ASSUME \A s \in Styles : Gentle(s)
  PROVE  Spec => []Reclaimed
<1>1. RcInv => Reclaimed
  <2> SUFFICES ASSUME RcInv, todo = <<>>, ~Lossy,
                      NEW b \in Box, box[b].value # "unborn", box[b].freed = 0
               PROVE  \E c \in Box : box[c].value = "alive"
                                     /\ b = IF box[b].value = "alive" THEN ref[c] ELSE up[c]
    BY DEF Reclaimed
  <2>1. /\ box \in [Box -> PlRc] /\ ref \in [Holder -> Box \cup {None}]
        /\ up \in [Box -> Box \cup {None}] /\ todo \in Seq(TaskSet)
        /\ Strong(box, ref, todo, None) /\ Weak(box, up, todo) /\ Life(box, ref, up)
        /\ Left(box, ref, up, todo, None)
    BY NowFacts
  <2>2. DOMAIN todo = {}
    BY SeqFacts
  <2>3. b # None /\ \A c \in Box : c # None /\ c \in Holder /\ box[c].value \in {"unborn", "alive", "dropped"}
    BY <2>1, HolderFacts DEF PlRc
  <2>4. \A l \in Local : ref[l] = None
    BY <2>1, <2>2, HolderFacts DEF Left
  <2>5. \A c \in Box : ref[c] # None => box[c].value = "alive"
    BY <2>1, <2>2, <2>3 DEF Left, Life
  <2>6. \A c \in Box : up[c] # None => box[c].value = "alive"
    BY <2>1, <2>2, <2>3 DEF Left, Life
  <2>7. CASE box[b].value = "alive"
    <3>1. box[b].strong >= 1 /\ box[b].strong \in Nat /\ Held(ref, todo, b) \in Nat
      <4>1. Held(ref, todo, b) \in Nat
        BY <2>1, HeldFacts
      <4>2. box[b].strong \in Nat
        BY <2>1 DEF PlRc
      <4> QED
        BY <2>1, <2>7, <4>1, <4>2 DEF Life
    <3>2. box[b].strong = Held(ref, todo, b)
      <4>1. box[b].strong = Held(ref, todo, b) + (IF b = None THEN 1 ELSE 0)
        BY <2>1 DEF Strong
      <4> QED
        BY <2>3, <3>1, <4>1
    <3>3. Kept(ref, todo, b) # {}
      <4> SUFFICES ASSUME Kept(ref, todo, b) = {} PROVE FALSE
        OBVIOUS
      <4>1. Due(todo, b) = {}
        BY <2>2 DEF Due
      <4>2. Cardinality({}) = 0
        BY FS_EmptySet
      <4> QED
        BY <3>1, <3>2, <4>1, <4>2 DEF Held
    <3>4. PICK h \in Holder : ref[h] = b
      BY <3>3 DEF Kept
    <3>5. h \in Box
      BY <2>3, <2>4, <3>4 DEF Holder
    <3> QED
      BY <2>3, <2>5, <2>7, <3>4, <3>5
  <2>8. CASE box[b].value = "dropped"
    <3>1. box[b].weak # 0 /\ box[b].weak = WeakHeld(up, todo, b)
      BY <2>1, <2>8 DEF Life, Weak
    <3>2. Frames(todo, b) = {}
      BY <2>2 DEF Frames
    <3>3. Weaks(up, b) # {}
      <4> SUFFICES ASSUME Weaks(up, b) = {} PROVE FALSE
        OBVIOUS
      <4>1. Cardinality({}) = 0
        BY FS_EmptySet
      <4>2. WeakHeld(up, todo, b) = Cardinality({}) + Cardinality({})
        BY <3>2 DEF WeakHeld
      <4> QED
        BY <3>1, <4>1, <4>2
    <3>4. PICK c \in Box : up[c] = b
      BY <3>3 DEF Weaks
    <3> QED
      BY <2>3, <2>6, <2>8, <3>4
  <2> QED
    BY <2>3, <2>7, <2>8
<1> QED
  BY <1>1, Invariant, PTL

=============================================================================

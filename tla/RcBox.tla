------------------------------- MODULE RcBox -------------------------------
(***************************************************************************)
(* Shared ownership: rc[T] and weak[T] (runtime/core.c) under the drops    *)
(* the compiler inserts (src/codegen.c) and the drop methods users write.  *)
(*                                                                         *)
(* A box holds a value with two fields: one of type rc[T] | None and one   *)
(* of type weak[T] | None.  Dropping the last strong reference runs user   *)
(* code in the middle of the release; what is left to do is in todo, the   *)
(* last task first.  All of this happens in one thread: an rc never        *)
(* crosses to another (E-SEND-2).                                          *)
(***************************************************************************)
EXTENDS Integers, Sequences, SequencesExt, FiniteSets, FiniteSetsExt

CONSTANTS
  Box,       \* boxes that can be allocated
  Name,      \* rc locals of main and of a drop method
  MaxDepth,  \* bound: drop methods nested deeper than this are empty
  MaxCount,  \* bound: x.f.f = y only over a value with fewer references
  Styles,    \* the programs to look at: what main and drop methods do
  None

Op == {"new",      \* x = rc(T())
       "copy",     \* x = y
       "read",     \* x = y.f
       "clear",    \* x = None
       "init",     \* x.f = ..., the field being None
       "write",    \* x.f = ..., over another reference
       "deep",     \* x.f.f = ...
       "weak",     \* x.w = weak(y), x.w = None
       "upgrade"}  \* x = y.w.upgrade()

Local  == (0 .. MaxDepth) \X Name
Holder == Local \cup Box    \* a box stands for the rc field of its value

ASSUME StylesAssumption == Styles \subseteq [main : SUBSET Op, drop : SUBSET Op]
ASSUME BoundsAssumption == MaxDepth \in Nat /\ MaxCount \in Nat
ASSUME NamesAssumption ==
  /\ IsFiniteSet(Box) /\ IsFiniteSet(Name)
  /\ None \notin Holder /\ Local \cap Box = {}

VARIABLES
  style,  \* the operations main performs, and those drop methods perform
  box,    \* PlRc: the counts, what became of the value, how often it was freed
  ref,    \* what each holder refers to
  up,     \* what the weak field of each value refers to
  todo    \* the tasks of the thread
vars == <<style, box, ref, up, todo>>

Task(do, of)   == [do |-> do, of |-> of, val |-> None]
StoreIn(h, v)  == [do |-> "store", of |-> h, val |-> v]

TypeOK ==
  /\ box \in [Box -> [strong : Nat, weak : Nat, freed : Nat,
                      value : {"unborn", "alive", "dropped"}]]
  /\ ref \in [Holder -> Box \cup {None}]
  /\ up \in [Box -> Box \cup {None}]
  /\ \A i \in DOMAIN todo :
       /\ todo[i].do \in {"run", "drop", "weak", "finish", "store"}
       /\ todo[i].of \in Holder \cup {None}
       /\ todo[i].val \in Box \cup {None}

-----------------------------------------------------------------------------
(***************************************************************************)
(* The counts.                                                             *)
(***************************************************************************)
\* Mutant of pl_rc_retain: a nullable reference is not counted.
NoRetain(bx, v) == bx

pl_rc_retain(bx, v) == IF v = None THEN bx ELSE [bx EXCEPT ![v].strong = @ + 1]

\* Mutant of Hold: the box is not held while its value is dropped.
NoHold == 0

\* The weak reference pl_rc_release keeps while the value is dropped.
Hold == 1

pl_rc_weak_new(bx, v) == IF v = None THEN bx ELSE [bx EXCEPT ![v].weak = @ + 1]

\* Mutant of pl_rc_weak_release: the box is left to pl_rc_release.
WeakReleaseKeep(bx, v) == IF v = None THEN bx ELSE [bx EXCEPT ![v].weak = @ - 1]

pl_rc_weak_release(bx, v) ==
  IF v = None THEN bx
  ELSE [bx EXCEPT ![v].weak  = @ - 1,
                  ![v].freed = IF bx[v].weak = 1 /\ bx[v].strong = 0 THEN @ + 1 ELSE @]

\* Mutant of pl_rc_upgrade: the answer is not a reference of its own.
UpgradeUncounted(bx, v) ==
  IF v = None \/ bx[v].strong = 0 THEN [box |-> bx, val |-> None]
  ELSE [box |-> bx, val |-> v]

\* Mutant of pl_rc_upgrade: any box that is still there will do.
UpgradeDropped(bx, v) == [box |-> pl_rc_retain(bx, v), val |-> v]

pl_rc_upgrade(bx, v) ==
  IF v = None \/ bx[v].strong = 0 THEN [box |-> bx, val |-> None]
  ELSE [box |-> pl_rc_retain(bx, v), val |-> v]

\* h gives up its reference, is to hold v, and the tasks go on with rest.
\* The last reference starts the drop of the value, and h keeps the old
\* reference until that is over.
pl_rc_release(bx, h, v, rest) ==
  LET old == ref[h]
      r   == [bx EXCEPT ![old].strong = @ - 1]
  IN  \/ /\ old = None
         /\ box' = bx
         /\ ref' = [ref EXCEPT ![h] = v]
         /\ todo' = rest
      \/ /\ old # None
         /\ r[old].strong > 0
         /\ box' = r
         /\ ref' = [ref EXCEPT ![h] = v]
         /\ todo' = rest
      \/ /\ old # None
         /\ r[old].strong <= 0
         /\ box' = [r EXCEPT ![old].weak = @ + Hold, ![old].value = "dropped"]
         /\ todo' = rest \o <<StoreIn(h, v),
                                IF bx[old].value = "alive" THEN Task("run", old)
                                ELSE Task("finish", old)>>
         /\ ref' = ref

-----------------------------------------------------------------------------
(***************************************************************************)
(* User code: main, or the drop method of the value whose task is next.    *)
(***************************************************************************)
Running == todo # <<>> /\ Last(todo).do = "run"
Self    == Last(todo).of
Depth   ==  \* the drop methods entered, those that only drop what is left included
  Cardinality({i \in DOMAIN todo : todo[i].do \in {"run", "finish"} /\ todo[i].of # None})

Mine == IF Depth <= MaxDepth THEN {Depth} \X Name ELSE {}

\* The objects the code can name: through its locals, and self.
Object ==
  {b \in Box : box[b].value = "alive" /\ \E x \in Mine : ref[x] = b}
    \cup ({Self} \ {None})

May(op) == Running /\ Depth <= MaxDepth /\ op \in IF Self = None THEN style.main ELSE style.drop

\* An assignment drops the old reference before it stores the new one.
Assign(h, v, bx) == pl_rc_release(bx, h, v, todo) /\ UNCHANGED up

\* x = rc(T())
New(x) ==
  /\ May("new")
  /\ \E b \in Box :
       /\ box[b].value = "unborn"
       /\ Assign(x, b, [box EXCEPT ![b].strong = 1, ![b].value = "alive"])

\* x = y
Copy(x, y) ==
  /\ May("copy")
  /\ x # y
  /\ Assign(x, ref[y], pl_rc_retain(box, ref[y]))

\* x = y.f
ReadField(x, c) ==
  /\ May("read")
  /\ Assign(x, ref[c], pl_rc_retain(box, ref[c]))

\* x = None
Clear(x) ==
  /\ May("clear")
  /\ ref[x] # None
  /\ Assign(x, None, box)

\* x.f = y, x.f = None
WriteField(c, v) ==
  /\ May(IF ref[c] = None THEN "init" ELSE "write")
  /\ Assign(c, v, pl_rc_retain(box, v))

\* x.f.f = y, x.f.f = None: only the object of a field that is named by a
\* variable is looked at again to drop what the field held.
WriteDeep(c, v) ==
  /\ May("deep")
  /\ ref[c] # None
  /\ box[ref[c]].value = "alive"
  /\ ref[ref[c]] # None => box[ref[ref[c]]].strong < MaxCount
  /\ box' = pl_rc_retain(box, v)
  /\ ref' = [ref EXCEPT ![ref[c]] = v]
  /\ UNCHANGED <<up, todo>>

\* x.w = weak(y), x.w = None
WriteWeak(c, v) ==
  /\ May("weak")
  /\ box' = pl_rc_weak_release(pl_rc_weak_new(box, v), up[c])
  /\ up' = [up EXCEPT ![c] = v]
  /\ UNCHANGED <<ref, todo>>

\* x = y.w.upgrade()
Upgrade(x, c) ==
  /\ May("upgrade")
  /\ up[c] # None
  /\ LET u == pl_rc_upgrade(box, up[c]) IN Assign(x, u.val, u.box)

\* The end of main, or of a drop method: its locals are dropped, then the
\* fields of the value in the order of their declaration, then the object.
Return ==
  /\ Running
  /\ \E fields \in {<<Task("drop", Self), Task("weak", Self)>>,
                    <<Task("weak", Self), Task("drop", Self)>>} :
       todo' = Front(todo)
               \o (IF Self = None THEN <<>> ELSE <<Task("finish", Self)>> \o fields)
               \o [i \in 1 .. Cardinality(Mine) |-> Task("drop", SetToSeq(Mine)[i])]
  /\ UNCHANGED <<box, ref, up>>

-----------------------------------------------------------------------------
(***************************************************************************)
(* What the end of a drop method leaves to be done.                        *)
(***************************************************************************)
NextTask(do) == todo # <<>> /\ Last(todo).do = do

\* A local or a field is dropped.
Drop ==
  /\ NextTask("drop")
  /\ pl_rc_release(box, Self, None, Front(todo))
  /\ UNCHANGED up

\* A weak field is dropped.
DropWeak ==
  /\ NextTask("weak")
  /\ box' = pl_rc_weak_release(box, up[Self])
  /\ up' = [up EXCEPT ![Self] = None]
  /\ todo' = Front(todo)
  /\ UNCHANGED ref

\* The rest of pl_rc_release: the box lives on while weak references do.
Finish ==
  /\ NextTask("finish")
  /\ box' = [box EXCEPT ![Self].weak  = @ - Hold,
                        ![Self].freed = IF box[Self].weak = Hold THEN @ + 1 ELSE @]
  /\ todo' = Front(todo)
  /\ UNCHANGED <<ref, up>>

\* The rest of an assignment.
StoreNew ==
  /\ NextTask("store")
  /\ ref' = [ref EXCEPT ![Self] = Last(todo).val]
  /\ todo' = Front(todo)
  /\ UNCHANGED <<box, up>>

\* main is over.
Done == todo = <<>> /\ UNCHANGED vars

-----------------------------------------------------------------------------
Init ==
  /\ style \in Styles
  /\ box = [b \in Box |-> [strong |-> 0, weak |-> 0, freed |-> 0, value |-> "unborn"]]
  /\ ref = [h \in Holder |-> None]
  /\ up = [b \in Box |-> None]
  /\ todo = <<Task("run", None)>>

UserStep ==
  \/ \E x \in Mine : New(x) \/ Clear(x)
  \/ \E x, y \in Mine : Copy(x, y)
  \/ \E x \in Mine, c \in Object : ReadField(x, c) \/ Upgrade(x, c)
  \/ \E c \in Object, v \in {None} \cup {ref[x] : x \in Mine} :
       WriteField(c, v) \/ WriteDeep(c, v) \/ WriteWeak(c, v)
  \/ Return

Next ==
  \/ Running /\ UserStep /\ UNCHANGED style
  \/ (Drop \/ DropWeak \/ Finish \/ StoreNew) /\ UNCHANGED style
  \/ Done

Spec == Init /\ [][Next]_vars

-----------------------------------------------------------------------------
\* h still holds a reference that was already given up.
Stale(h) == \E i \in DOMAIN todo : todo[i].do = "store" /\ todo[i].of = h

\* x.f.f = v loses the reference it overwrites, without giving it up.
Lossy == "deep" \in style.main \cup style.drop

\* The counts are the numbers of references there are, those of assignments
\* and releases in progress included; lost references leave them too high,
\* never too low.  No box is given back twice, whichever of the two counts
\* ends last (S3 of safety-spec.md).
Counted ==
  \A b \in Box :
    LET held == Cardinality({h \in Holder : ref[h] = b /\ ~Stale(h)})
                  + Cardinality({i \in DOMAIN todo : todo[i].do = "store" /\ todo[i].val = b})
    IN
    /\ box[b].strong >= held
    /\ Lossy \/ box[b].strong = held
    /\ box[b].weak =
         Cardinality({c \in Box : up[c] = b})
           + Cardinality({i \in DOMAIN todo : todo[i].do \in {"run", "finish"} /\ todo[i].of = b})
    /\ box[b].freed <= 1

\* What a program can still refer to was not freed, be it by an rc or by a
\* weak, whose upgrade() looks at the box (S2 of safety-spec.md).  An rc that is
\* not None has its value: upgrade() never hands out one whose value is being
\* dropped, and reading through an rc does not panic.
NoDangling ==
  /\ \A h \in Holder : ref[h] # None /\ ~Stale(h) =>
       box[ref[h]].freed = 0 /\ box[ref[h]].value = "alive"
  /\ \A b \in Box : up[b] # None => box[up[b]].freed = 0

\* When main is over only cycles are left: a value is still there only for
\* a strong reference in another one, a box only for a weak one (7.4, 7.5).
Reclaimed ==
  todo = <<>> /\ ~Lossy =>
    \A b \in {c \in Box : box[c].value # "unborn" /\ box[c].freed = 0} :
      \E c \in Box : box[c].value = "alive"
                     /\ b = IF box[b].value = "alive" THEN ref[c] ELSE up[c]

-----------------------------------------------------------------------------
\* Programs in which a drop method cannot get at a field that is being
\* overwritten: nobody overwrites one, or only main does, and drop methods do
\* not read fields.
Gentle(s) ==
  \/ "write" \notin s.main \cup s.drop
  \/ "deep" \notin s.main /\ s.drop \cap {"read", "write", "deep"} = {}

=============================================================================

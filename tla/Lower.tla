-------------------------------- MODULE Lower -------------------------------
(***************************************************************************)
(* How the code generator (src/src/codegen.c) lowers the bodies of Flow to *)
(* blocks and branches: the releases ("drops") of what a scope owns on     *)
(* every way out of it, the branches of a call that may fail, the dispatch *)
(* of a try, the block that passes an error on.  The generated code is run *)
(* on an abstract machine.                                                 *)
(*                                                                         *)
(* There are no drop flags: a slot whose value was moved holds null, and   *)
(* dropping null does nothing.                                             *)
(***************************************************************************)
EXTENDS Flow

\* The families of functions to look at.  Of each:
\*   menu, shapes, conds        what its bodies are made of
\*   keys, catches              the cases of a match, the handlers of a try
\*   kind, raises, param        what check_func knows of the function
\*   size                       bound: statements and constructs in a body
\*   claims                     which of the properties are claimed of it
CONSTANT Families

Given == Families

VARIABLES family, prog, size, compiled
vars_ == <<family, prog, size, compiled>>

F == Given[family]

-----------------------------------------------------------------------------
(***************************************************************************)
(* The emitter.  code: the instructions so far; labels are numbers.        *)
(* scopes: the slots to drop, innermost scope last; loops and trys: where  *)
(* break, continue and a failure go, and how many scopes stay; prop: is    *)
(* the block that passes errors on needed.  (Label 0 is that block.)       *)
(***************************************************************************)
Ins(i, a, y, l, m) == [i |-> i, a |-> a, y |-> y, l |-> l, m |-> m]
NoLabel == -1

Emit(e, i, a, y) == [e EXCEPT !.code = Append(@, Ins(i, a, y, NoLabel, NoLabel))]
End(e, i, a, y, l, m) ==
  [e EXCEPT !.code = Append(@, Ins(i, a, y, l, m)), !.term = TRUE]

emit_br(e, l) == End(e, "br", None, None, l, NoLabel)
emit_label(e, l) ==
  LET f == IF e.term THEN e ELSE emit_br(e, l)
  IN  [f EXCEPT !.code = Append(@, Ins("label", None, None, l, NoLabel)), !.term = FALSE]
Joined(e, l) == IF e.term THEN e ELSE emit_br(e, l)

\* e.labels is the number of labels taken so far.
Take(e, n) == [e EXCEPT !.labels = @ + n]
ensure_block(e) == IF e.term THEN emit_label(Take(e, 1), e.labels + 1) ELSE e

\* unique_ir_name: one slot per declaration.
SlotOf(e, x) ==
  LET all == FlattenSeq(e.scopes)
      i   == CHOOSE i \in DOMAIN all : all[i][1] = x /\ \A j \in DOMAIN all : all[j][1] = x => j <= i
  IN  all[i]
scope_add(e, slot) == [e EXCEPT !.scopes[Len(e.scopes)] = Append(@, slot)]

\* Mutant of emit_drops_until: only the innermost scope.
emit_drops_inner(e, depth) ==
  FoldLeft(LAMBDA f, slot : Emit(f, "drop", slot, None), e, Reverse(Last(e.scopes)))

\* emit_drops_until: newest first, down to the scope at depth.
emit_drops_until(e, depth) ==
  FoldLeft(LAMBDA f, slot : Emit(f, "drop", slot, None), e,
           Reverse(FlattenSeq(SubSeq(e.scopes, depth + 1, Len(e.scopes)))))

\* Where a failure goes: the innermost try, the caller, or nowhere.
emit_fail_br(e) ==
  IF e.trys # <<>> THEN emit_br(e, Last(e.trys).dispatch)
  ELSE IF F.raises = {} THEN End(e, "unreachable", None, None, NoLabel, NoLabel)
  ELSE [emit_br(e, 0) EXCEPT !.prop = TRUE]

TryDepth(e) == IF e.trys = <<>> THEN 0 ELSE Last(e.trys).depth

\* Mutant of emit_call: the drops of a failure go up to the function.
emit_call_all(e, y, want) ==
  IF y = None THEN e
  ELSE LET c == End(Take(e, 2), "fail", want, y, e.labels + 1, e.labels + 2)
           d == emit_drops_until(emit_label(c, e.labels + 1), 0)
       IN  emit_label(emit_fail_br(d), e.labels + 2)

\* emit_call_to: of a call that may fail with y, the test and the way out.
emit_call(e, y, want) ==
  IF y = None THEN e
  ELSE LET fail == e.labels + 1
           ok   == e.labels + 2
           c    == End(Take(e, 2), "fail", want, y, fail, ok)
           d    == emit_drops_until(emit_label(c, fail), TryDepth(e))
       IN  emit_label(emit_fail_br(d), ok)

\* Mutant of gen_raise: the outermost try that names the class gets the error.
gen_raise_far(e, y, want) ==
  LET found == {i \in DOMAIN e.trys : e.trys[i].y = y}
      i     == CHOOSE i \in found : \A j \in found : i <= j
      r     == Emit(e, "raise", want, y)
  IN  IF found # {} THEN emit_br(emit_drops_until(r, e.trys[i].depth), e.trys[i].dispatch)
      ELSE End(emit_drops_until(r, 0), "reterr", None, None, NoLabel, NoLabel)

\* ND_RAISE: straight to the try that catches it, or out of the function.
gen_raise(e, y, want) ==
  LET found == {i \in DOMAIN e.trys : e.trys[i].y = y}
      i     == CHOOSE i \in found : \A j \in found : j <= i
      r     == Emit(e, "raise", want, y)
  IN  IF found # {} THEN emit_br(emit_drops_until(r, e.trys[i].depth), e.trys[i].dispatch)
      ELSE End(emit_drops_until(r, 0), "reterr", None, None, NoLabel, NoLabel)

-----------------------------------------------------------------------------
(***************************************************************************)
(* Statements.  lex is not the compiler's: the tries around the statement  *)
(* as they are written, <<class, number>>; Handler is who has to catch an  *)
(* error.  The number of a try is its dispatch label, that of the caller 0 *)
(***************************************************************************)
Handler(lex, y) ==
  LET found == {i \in DOMAIN lex : lex[i][1] = y}
  IN  IF found = {} THEN 0
      ELSE lex[CHOOSE i \in found : \A j \in found : j <= i][2]

\* The condition with the slots of its names.
RECURSIVE Resolve(_, _)
Resolve(e, c) ==
  CASE c.k \in {"and", "or"} -> [c EXCEPT !.l = Resolve(e, @), !.r = Resolve(e, c.r)]
    [] c.k \in {"opaque", "true"} -> c
    [] OTHER -> [c EXCEPT !.x = SlotOf(e, @)]

RECURSIVE gen_stmt(_, _, _), gen_list(_, _, _)

gen_list(e, body, lex) ==
  IF body = <<>> THEN e
  ELSE gen_list(gen_stmt(ensure_block(e), body[1], lex), Tail(body), lex)

\* A block is a scope; one that was left by a jump was released there.
gen_block(e, body, lex) ==
  LET b == gen_list([e EXCEPT !.scopes = Append(@, <<>>)], body, lex)
      d == IF b.term THEN b ELSE emit_drops_until(b, Len(e.scopes))
  IN  [d EXCEPT !.scopes = e.scopes]

gen_if(e, s, lex) ==
  LET l    == e.labels
      has  == s.els # <<>>
      c    == End(Take(e, 3), "cond", Resolve(e, s.c), None, l + 1, IF has THEN l + 2 ELSE l + 3)
      then == Joined(gen_block(emit_label(c, l + 1), s.body, lex), l + 3)
      els  == Joined(gen_block(emit_label(then, l + 2), s.els, lex), l + 3)
  IN  emit_label(IF has THEN els ELSE then, l + 3)

\* The subject is evaluated once and compared with one case after the other.
gen_match(e, s, lex) ==
  LET l     == e.labels
      m     == Emit(Take(e, 5), "subject", s.c, None)
      Case_(f, key, body, at, next) ==
        IF key = "_" THEN Joined(gen_block(f, body, lex), l + 5)
        ELSE LET c == End(f, "case", None, key, at, next)
             IN  emit_label(Joined(gen_block(emit_label(c, at), body, lex), l + 5), next)
      first == Case_(m, s.x, s.body, l + 1, l + 2)
  IN  emit_label(Case_(first, s.y, s.els, l + 3, l + 4), l + 5)

gen_while(e, s, lex) ==
  LET l    == e.labels
      head == emit_label(Take(e, 3), l + 1)
      c    == End(head, "cond", Resolve(e, s.c), None, l + 2, l + 3)
      in   == [emit_label(c, l + 2) EXCEPT
                 !.loops = Append(@, [brk |-> l + 3, cont |-> l + 1, depth |-> Len(e.scopes)])]
      body == Joined(gen_block(in, s.body, lex), l + 1)
  IN  emit_label([body EXCEPT !.loops = e.loops], l + 3)

\* The body, then the dispatch, then the handler.
gen_try(e, s, lex) ==
  LET l    == e.labels
      in   == [Take(e, 4) EXCEPT
                 !.trys = Append(@, [y |-> s.y, dispatch |-> l + 1, depth |-> Len(e.scopes)])]
      body == [gen_block(in, s.body, Append(lex, <<s.y, l + 1>>)) EXCEPT !.trys = e.trys]
      disp == emit_label(Joined(body, l + 2), l + 1)
      test == End(disp, "tag", None, s.y, l + 3, l + 4)
      miss == emit_fail_br(emit_label(test, l + 4))
      hit  == Emit(emit_label(miss, l + 3), "enter", l + 1, None)
  IN  emit_label(Joined(gen_block(hit, s.els, lex), l + 2), l + 2)

Declared(e, s, i, want) ==
  LET c    == emit_call(e, s.y, want)
      slot == <<s.x, c.used>>
  IN  scope_add(Emit([c EXCEPT !.used = @ + 1], i, slot, None), slot)

gen_stmt(e, s, lex) ==
  LET want == Handler(lex, s.y) IN
  CASE s.op = "decl"  -> Declared(e, s, "new", want)
    [] s.op = "find"  -> Declared(e, s, "maybe", want)
       \* The old value goes when the new one is there.
    [] s.op = "renew"  -> Emit(Emit(e, "drop", SlotOf(e, s.x), None), "new", SlotOf(e, s.x), None)
    [] s.op = "refind" -> Emit(Emit(e, "drop", SlotOf(e, s.x), None), "maybe", SlotOf(e, s.x), None)
    [] s.op = "use"    -> Emit(e, "use", SlotOf(e, s.x), None)
    [] s.op = "give"   -> emit_call(Emit(e, "move", SlotOf(e, s.x), None), s.y, want)
    [] s.op = "call"   -> emit_call(e, s.y, want)
    [] s.op = "raise"  -> gen_raise(e, s.y, want)
    [] s.op = "field"  -> Emit(e, "field", None, None)
    [] s.op = "panic"  -> End(e, "stop", None, None, NoLabel, NoLabel)
    [] s.op = "return" -> End(emit_drops_until(e, 0), "ret", None, None, NoLabel, NoLabel)
    [] s.op = "break"    -> emit_br(emit_drops_until(e, Last(e.loops).depth), Last(e.loops).brk)
    [] s.op = "continue" -> emit_br(emit_drops_until(e, Last(e.loops).depth), Last(e.loops).cont)
    [] s.op = "unsafe" -> gen_block(e, s.body, lex)
    [] s.op = "if"     -> gen_if(e, s, lex)
    [] s.op = "match"  -> gen_match(e, s, lex)
    [] s.op = "while"  -> gen_while(e, s, lex)
    [] s.op = "try"    -> gen_try(e, s, lex)

\* gen_func: the parameters are a scope around the body.  A function that
\* returns a value does not get to its end.
gen_func ==
  LET params == IF F.param = None THEN <<>> ELSE << <<F.param, 0>> >>
      start  == [code |-> <<>>, labels |-> 0, term |-> FALSE, scopes |-> <<params>>,
                 loops |-> <<>>, trys |-> <<>>, prop |-> FALSE, used |-> 1]
      body   == gen_block(start, prog, <<>>)
      end    == IF body.term THEN body
                ELSE End(emit_drops_until(body, 0), IF F.kind = "value" THEN "unreachable" ELSE "ret",
                         None, None, NoLabel, NoLabel)
  IN  IF ~end.prop THEN end.code
      ELSE End(emit_drops_until(emit_label(end, 0), 0), "reterr", None, None, NoLabel, NoLabel).code

-----------------------------------------------------------------------------
(***************************************************************************)
(* The machine.  A slot is undefined, null, moved (null too), or holds an  *)
(* object that is live or was freed ("dead").  Execution ends in an event. *)
(***************************************************************************)
Slots(code) == {code[i].a : i \in {i \in DOMAIN code : code[i].i \in {"new", "maybe"}}}

Started(code) ==
  [pc |-> 1, ev |-> "", tag |-> None, want |-> 0, subj |-> None, field |-> FALSE,
   slot |-> [s \in Slots(code) \cup {<<F.param, 0>>} |->
               IF s = <<F.param, 0>> /\ F.param # None THEN "live" ELSE "undef"]]

\* The outcomes of a condition; "none" is an object that is not there.
RECURSIVE Test(_, _)
Test(c, slot) ==
  CASE c.k = "true"   -> {"yes"}
    [] c.k = "opaque" -> {"yes", "no"}
    [] c.k = "is"     -> {IF slot[c.x] = "null" THEN "yes" ELSE "no"}
    [] c.k = "isnot"  -> {IF slot[c.x] = "null" THEN "no" ELSE "yes"}
    [] c.k = "reads"  -> IF slot[c.x] = "null" THEN {"none"} ELSE {"yes", "no"}
    [] c.k = "and" -> UNION {IF o = "yes" THEN Test(c.r, slot) ELSE {o} : o \in Test(c.l, slot)}
    [] c.k = "or"  -> UNION {IF o = "no" THEN Test(c.r, slot) ELSE {o} : o \in Test(c.l, slot)}

\* Freeing what a slot holds: null is not freed, what was freed must not be.
Dropped(m, s) ==
  CASE m.slot[s] \in {"dead", "undef"}  -> [m EXCEPT !.ev = "twice"]
    [] m.slot[s] = "live"              -> [m EXCEPT !.slot = (s :> "dead") @@ @]
    [] m.slot[s] \in {"null", "moved"} -> m

\* Reading a slot.  A moved value is not read: that is for the ownership checker.
Read(m, s) ==
  CASE m.slot[s] = "live" -> m
    [] m.slot[s] = "null" -> [m EXCEPT !.ev = "none"]
    [] OTHER              -> [m EXCEPT !.ev = "moved"]

\* An argument that is handed over: its slot becomes null.
Moved(m, s) ==
  LET r == Read(m, s) IN IF r.ev = "" THEN [r EXCEPT !.slot = (s :> "moved") @@ @] ELSE r

Leaks(m) == \E s \in DOMAIN m.slot : m.slot[s] = "live"

Step(code, at, m) ==
  LET n       == code[m.pc]
      next    == [m EXCEPT !.pc = @ + 1]
      Ev(ev)  == {[m EXCEPT !.ev = ev]}
      Goto(l) == [m EXCEPT !.pc = at[l]]
      Put(v)  == IF m.slot[n.a] = "live" THEN Ev("leak")
                 ELSE {[next EXCEPT !.slot = (n.a :> w) @@ @] : w \in v}
  IN
  CASE n.i = "label" -> {next}
    [] n.i = "br"    -> {Goto(n.l)}
    [] n.i = "new"   -> Put({"live"})
    [] n.i = "maybe" -> Put({"live", "null"})
    [] n.i = "drop"  -> {Dropped(next, n.a)}
    [] n.i = "use"   -> {Read(next, n.a)}
    [] n.i = "move"  -> {Moved(next, n.a)}
    [] n.i = "field" -> {[next EXCEPT !.field = TRUE]}
    [] n.i = "fail"  -> {Goto(n.m), [Goto(n.l) EXCEPT !.tag = n.y, !.want = n.a]}
    [] n.i = "raise" -> {[next EXCEPT !.tag = n.y, !.want = n.a]}
    [] n.i = "cond"  -> UNION {IF o = "none" THEN Ev("none")
                               ELSE {Goto(IF o = "yes" THEN n.l ELSE n.m)} : o \in Test(n.a, m.slot)}
    [] n.i = "subject" -> {[next EXCEPT !.subj = v] :
                             v \in {"A", "B"} \cup (IF n.a = Opaque THEN {"C"} ELSE {})}
    [] n.i = "case"  -> {Goto(IF m.subj = n.y THEN n.l ELSE n.m)}
    [] n.i = "tag"   -> {Goto(IF m.tag = n.y THEN n.l ELSE n.m)}
    [] n.i = "enter" -> IF m.want = n.a THEN {next} ELSE Ev("wrong")
    [] n.i = "ret"   -> Ev(IF Leaks(m) THEN "leak"
                           ELSE IF F.kind = "init" /\ ~m.field THEN "unset" ELSE "done")
    [] n.i = "reterr" -> Ev(IF Leaks(m) THEN "leak"
                            ELSE IF m.want # 0 \/ m.tag \notin F.raises THEN "wrong" ELSE "done")
    [] n.i = "stop"  -> Ev("stopped")
    [] n.i = "unreachable" -> Ev("undefined")

\* The events executions can end in; a state without one goes on.
RECURSIVE Reach(_, _, _, _)
Reach(code, at, seen, new) ==
  IF new = {} THEN {m.ev : m \in seen} \ {""}
  ELSE LET go == {m \in new : m.ev = ""}
           S  == UNION {Step(code, at, m) : m \in go}
       IN  Reach(code, at, seen \cup S, S \ seen)

Events ==
  LET code == gen_func
      at   == [l \in {code[i].l : i \in {i \in DOMAIN code : code[i].i = "label"}} |->
                 CHOOSE i \in DOMAIN code : code[i].i = "label" /\ code[i].l = l]
      m    == Started(code)
  IN  Reach(code, at, {m}, {m})

-----------------------------------------------------------------------------
Init == family \in DOMAIN Given /\ prog = <<>> /\ size = 0 /\ compiled = FALSE

Grown == ~compiled /\ size < F.size /\ size' = size + 1 /\ UNCHANGED <<family, compiled>>

\* One more simple statement.
Write(s) == Grown /\ prog' = Append(prog, s)

\* The last statements, from the i-th on, become the bodies of a construct;
\* those from the j-th on are its second body.
Fork(op, x, y, c, i, j) ==
  /\ Grown
  /\ op \in F.shapes
  /\ i < j
  /\ op \in {"while", "unsafe"} => j > Len(prog)
  /\ prog' = Append(SubSeq(prog, 1, i - 1),
                    Stm(op, x, y, c, SubSeq(prog, i, j - 1), SubSeq(prog, j, Len(prog))))

\* The body is complete, and is compiled.
Compile == ~compiled /\ compiled' = TRUE /\ UNCHANGED <<family, prog, size>>

Next ==
  \/ Compile
  \/ \E s \in F.menu : Write(s)
  \/ \E i \in DOMAIN prog, j \in 1 .. Len(prog) + 1 :
       \/ \E op \in {"if", "while"}, c \in F.conds : Fork(op, None, None, c, i, j)
       \/ Fork("unsafe", None, None, Opaque, i, j)
       \/ \E y \in F.catches : Fork("try", None, y, Opaque, i, j)
       \/ \E k \in F.keys : Fork("match", k[1], k[2], k[3], i, j)

Spec == Init /\ [][Next]_vars_

-----------------------------------------------------------------------------
\* Of the programs that are accepted, no execution ends in such an event.
Avoids(ev) == ev \in F.claims /\ Accepted(prog, F) => ev \notin Events

\* The code that is marked as unreachable is: a function that returns a value
\* does not fall off its end, and an error that nobody handles does not occur.
\* A constructor that returns has set its field.
NoUndefined == [][Compile => Avoids("undefined") /\ Avoids("unset")]_vars_

\* What a function owns is freed at most once, and nothing else is, whichever
\* way the function is left (S3 of docs/ja/spec/safety-spec.md).
DroppedOnce == [][Compile => Avoids("twice")]_vars_

\* What a function owns is freed exactly once, however the function is left:
\* what is not freed or handed on before it returns is a leak (S4).
OwnedFreed == [][Compile => Avoids("twice") /\ Avoids("leak")]_vars_

\* A variable of type T is never None, however the function got there (S6).
NoNone == [][Compile => Avoids("none")]_vars_

\* An error is handled by the innermost try around it that names its class,
\* and leaves the function only if the function declares it (S8).
CaughtRight == [][Compile => Avoids("wrong")]_vars_
=============================================================================

--------------------------- MODULE LoopVersions ---------------------------
(***************************************************************************)
(* Loop versioning (src/src/codegen.c, 3814-4389).  A loop that counts an  *)
(* induction variable v up to a bound gets two versions.  A guard before   *)
(* it looks at every index of the body for the first and the last v: if    *)
(* they are in range, the version without checks is run.                   *)
(***************************************************************************)
EXTENDS Prove

VZ_MAX_SITES == 16

\* Integer literals, variables, + - *.
RECURSIVE vz_pure_index(_)
vz_pure_index(e) ==
  \/ e.k \in {"num", "ref"}
  \/ e.k = "bin" /\ e.op \in {"add", "sub", "mul"} /\ vz_pure_index(e.l) /\ vz_pure_index(e.r)

RECURSIVE vz_count(_, _)
vz_count(e, x) ==
  IF e.k = "ref" THEN IF e.x = x THEN 1 ELSE 0
  ELSE IF e.k = "bin" THEN vz_count(e.l, x) + vz_count(e.r, x) ELSE 0

\* The statements of a body, those of its ifs included.
RECURSIVE Within(_)
Within(body) == UNION {{body[i]} \cup Within(body[i].body) \cup Within(body[i].els) : i \in DOMAIN body}

RECURSIVE vz_count_assign(_, _)
vz_count_assign(body, x) ==
  FoldLeft(LAMBDA n, s : n + (IF s.op \in {"let", "decl"} /\ s.x = x THEN 1 ELSE 0)
                           + vz_count_assign(s.body, x) + vz_count_assign(s.els, x),
           0, body)

\* No call, no jump, no inner loop, no division.
NoCall(c)  == c.k = "cmp"
NoDiv(e)   == \A n \in Nodes(e) : n.k = "bin" => n.op \notin {"div", "mod"}
vz_body_ok(body) ==
  \A s \in Within(body) :
    /\ s.op \in {"let", "decl", "get", "put", "if"}
    /\ NoDiv(s.e) /\ NoCall(s.c) /\ (NoCall(s.c) => NoDiv(s.c.l) /\ NoDiv(s.c.r))

\* Mutant of vz_invariant: what the body writes is taken to be constant.
vz_constant(e, known, body) == TRUE

\* Nothing in e is written in the body, except v and its alias.
vz_invariant(e, known, body) ==
  \A n \in Nodes(e) : n.k = "ref" /\ n.x \notin known => vz_count_assign(body, n.x) = 0

vz_is_step1(s, v) == s.op = "let" /\ s.x = v /\ s.e = Bin("add", Ref(v), Num(1))

step(s) == IF s.els # <<>> THEN Last(s.els) ELSE Last(s.body)

\* The loop variable of a for: a first statement that declares it to be v.
vz_alias(s, v) ==
  IF /\ s.body[1].op = "decl" /\ s.body[1].e = Ref(v)
     /\ vz_count_assign(s.body, s.body[1].x) = 1
     /\ vz_count_assign(s.els, s.body[1].x) = 0
  THEN s.body[1].x ELSE None

vz_sites(s) == {t.e : t \in {t \in Within(s.body \o s.els) : t.op \in {"get", "put"}}}

\* Mutant of vz_site_ok: an index need not be affine.
AnySite(e, v, alias, body) == vz_pure_index(e.i) /\ vz_invariant(e.i, {v, alias}, body)

\* An index that is affine in v: v occurs at most once, and so does the alias.
vz_site_ok(e, v, alias, body) ==
  /\ vz_pure_index(e.i)
  /\ vz_count(e.i, v) <= 1 /\ vz_count(e.i, alias) <= 1
  /\ vz_invariant(e.i, {v, alias}, body)

\* Whether a loop is given two versions.
vz_analyze(s) ==
  LET v == s.c.l.x
      L == s.c.r
  IN  /\ s.op = "while" /\ s.body # <<>>
      /\ s.c.k = "cmp" /\ s.c.op = "lt" /\ s.c.l.k = "ref"
      /\ vz_pure_index(L) \/ L.k = "len"
      /\ vz_count(L, v) = 0
      /\ vz_invariant(L, {v}, s.body)
      /\ vz_body_ok(s.body) /\ vz_body_ok(s.els)
      /\ vz_is_step1(step(s), v)
      /\ vz_count_assign(s.body, v) + vz_count_assign(s.els, v) = 1
      /\ vz_sites(s) # {}
      /\ Cardinality(vz_sites(s)) <= VZ_MAX_SITES
      /\ \A e \in vz_sites(s) : vz_site_ok(e, v, vz_alias(s, v), s.body)

-----------------------------------------------------------------------------
\* vz_check_at: an index is in range, computed without overflow, when v is val.
vz_check_at(e, s, m, val, checked) ==
  LET v == s.c.l.x
      at == [m EXCEPT !.int = [x \in IntVar |-> IF x \in {v, vz_alias(s, v)} THEN val ELSE @[x]]]
      i == Eval(e.i, at, {}, checked)
  IN  i.st = "ok" /\ 0 <= i.v /\ i.v < m.len[e.p]

\* Mutant of Guard: only the first v is looked at.
GuardFirst(s, m, checked) ==
  \A e \in vz_sites(s) : vz_check_at(e, s, m, m.int[s.c.l.x], checked)

\* The guard: both ends of every index.
Guard(s, m, checked) ==
  LET last == Eval(s.c.r, m, {}, checked) IN
  /\ last.st = "ok"
  /\ \A e \in vz_sites(s) : /\ vz_check_at(e, s, m, m.int[s.c.l.x], checked)
                            /\ vz_check_at(e, s, m, Wrap(last.v - 1), checked)

\* The version without checks: no index is checked, and the step cannot overflow.
RECURSIVE Unchecked(_, _, _)
Unchecked(body, path, v) ==
  UNION {LET s == body[i]
             here == Append(path, i)
         IN  {<<here, n>> : n \in {n \in {s.e} : s.op \in {"get", "put"}
                                                 \/ vz_is_step1(s, v)}}
             \cup Unchecked(s.body, here \o <<1>>, v) \cup Unchecked(s.els, here \o <<2>>, v)
         : i \in DOMAIN body}

-----------------------------------------------------------------------------
\* Whenever the guard lets a loop take the version without checks, that version
\* does exactly what the other one does: no index is out of range, no overflow
\* goes unnoticed, and the same states come out of it.
SameStates ==
  \A k \in DOMAIN prog :
    LET s == prog[k] IN
    s.op = "while" /\ vz_analyze(s) =>
      LET fast == Unchecked(s.body, <<1>>, s.c.l.x) \cup Unchecked(s.els, <<2>>, s.c.l.x)
      IN  \A m \in F.start : Guard(s, m, F.checked) =>
            LET a == Run(s, <<>>, {m}, fast, F.checked)
                b == Run(s, <<>>, {m}, {}, F.checked)
            IN  ~a.bad /\ a.ok = b.ok
FastIsExact == [][Compile => SameStates]_vars
=============================================================================

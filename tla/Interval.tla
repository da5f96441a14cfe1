------------------------------ MODULE Interval ------------------------------
(***************************************************************************)
(* The intervals of the bounds prover (src/src/prove.c, 30-185): what is   *)
(* known of an integer is that it lies between lo and hi.  The ends are    *)
(* machine integers, and the ends of the machine stand for "unknown".      *)
(*                                                                         *)
(* A checked + - * stops the program when it overflows, so what goes on    *)
(* is inside the machine: with sat the ends are cut off there.  Without    *)
(* the checks (--no-overflow-check) a value wraps and nothing is known.    *)
(***************************************************************************)
EXTENDS Integers

CONSTANTS
  MinInt,  \* LLONG_MIN
  MaxInt   \* LLONG_MAX

ASSUME WidthAssumption ==
  MaxInt \in Nat \ {0} /\ MinInt \in Int /\ MinInt = -MaxInt - 1

Word == MinInt .. MaxInt
Iv   == [lo : Word, hi : Word]

Between(l, h) == [lo |-> l, hi |-> h]
IV_TOP        == Between(MinInt, MaxInt)
iv_of(v)      == Between(v, v)

\* The values an interval stands for.
Values(a) == a.lo .. a.hi

iv_fits(a, l, h) == a.lo >= l /\ a.hi <= h

IMin(a, b) == IF a < b THEN a ELSE b
IMax(a, b) == IF a > b THEN a ELSE b

iv_join(a, b) == Between(IMin(a.lo, b.lo), IMax(a.hi, b.hi))

\* Two facts about one value; when they contradict each other, the first.
iv_meet(a, b) ==
  LET m == Between(IMax(a.lo, b.lo), IMin(a.hi, b.hi))
  IN  IF m.lo <= m.hi THEN m ELSE a

\* An end that moved in this round goes to the end of the machine.
iv_widen(new, old) ==
  Between(IF new.lo < old.lo THEN MinInt ELSE new.lo,
          IF new.hi > old.hi THEN MaxInt ELSE new.hi)

-----------------------------------------------------------------------------
\* Overflow, told without overflowing.
add_ovf(a, b) == (b > 0 /\ a > MaxInt - b) \/ (b < 0 /\ a < MinInt - b)
sub_ovf(a, b) == (b < 0 /\ a > MaxInt + b) \/ (b > 0 /\ a < MinInt + b)

IAbs(a) == IF a < 0 THEN -a ELSE a

\* On the safe side for MinInt, which has no absolute value.
mul_ovf(a, b) ==
  /\ a # 0
  /\ b # 0
  /\ a = MinInt \/ b = MinInt \/ IAbs(a) > MaxInt \div IAbs(b)

add_sat(a, b) == IF ~add_ovf(a, b) THEN a + b ELSE IF b > 0 THEN MaxInt ELSE MinInt
sub_sat(a, b) == IF ~sub_ovf(a, b) THEN a - b ELSE IF b < 0 THEN MaxInt ELSE MinInt
mul_sat(a, b) == IF ~mul_ovf(a, b) THEN a * b
                 ELSE IF (a < 0) = (b < 0) THEN MaxInt ELSE MinInt

\* The result of an operation and whether no end overflowed (exact).
Result(r, exact, sat) ==
  [iv    |-> IF (~sat /\ ~exact) \/ r.lo > r.hi THEN IV_TOP ELSE r,
   exact |-> exact]

Unknown == [iv |-> IV_TOP, exact |-> FALSE]

iv_add(a, b, sat) ==
  IF a = IV_TOP \/ b = IV_TOP THEN Unknown
  ELSE Result(Between(add_sat(a.lo, b.lo), add_sat(a.hi, b.hi)),
              ~add_ovf(a.lo, b.lo) /\ ~add_ovf(a.hi, b.hi), sat)

iv_sub(a, b, sat) ==
  IF a = IV_TOP \/ b = IV_TOP THEN Unknown
  ELSE Result(Between(sub_sat(a.lo, b.hi), sub_sat(a.hi, b.lo)),
              ~sub_ovf(a.lo, b.hi) /\ ~sub_ovf(a.hi, b.lo), sat)

\* The four products of the ends.
iv_mul(a, b, sat) ==
  LET ll == mul_sat(a.lo, b.lo)  lh == mul_sat(a.lo, b.hi)
      hl == mul_sat(a.hi, b.lo)  hh == mul_sat(a.hi, b.hi)
  IN  IF a = IV_TOP \/ b = IV_TOP THEN Unknown
      ELSE Result(Between(IMin(IMin(ll, lh), IMin(hl, hh)), IMax(IMax(ll, lh), IMax(hl, hh))),
                  /\ ~mul_ovf(a.lo, b.lo) /\ ~mul_ovf(a.lo, b.hi)
                  /\ ~mul_ovf(a.hi, b.lo) /\ ~mul_ovf(a.hi, b.hi), sat)

\* The remainder has the sign of the divisor, as in Python.
iv_mod(a, b) == IF b.lo > 0 THEN Between(0, b.hi - 1) ELSE IV_TOP

iv_floordiv(a, b) == IF a.lo >= 0 /\ b.lo > 0
                     THEN Between(a.lo \div b.hi, a.hi \div b.lo) ELSE IV_TOP

iv_neg(a) == IF a = IV_TOP \/ a.lo = MinInt THEN IV_TOP ELSE Between(-a.hi, -a.lo)

-----------------------------------------------------------------------------
(***************************************************************************)
(* Comparisons: an interval cut by the truth of "v op w", w in o, and the  *)
(* three answers to "a op b".                                              *)
(***************************************************************************)
Holds(op, x, y) ==
  \/ op = "lt" /\ x < y
  \/ op = "le" /\ x <= y
  \/ op = "gt" /\ x > y
  \/ op = "ge" /\ x >= y
  \/ op = "eq" /\ x = y
  \/ op = "ne" /\ x # y

\* The comparison that holds when this one does not; of = nothing is known.
Negate(op) ==
  CASE op = "lt" -> "ge" [] op = "le" -> "gt" [] op = "gt" -> "le"
    [] op = "ge" -> "lt" [] op = "ne" -> "eq" [] op = "eq" -> "ne"

\* The same comparison read from the right.
Mirror(op) ==
  CASE op = "lt" -> "gt" [] op = "le" -> "ge" [] op = "gt" -> "lt"
    [] op = "ge" -> "le" [] OTHER -> op

Cut(op, v, o) ==
  CASE op = "lt" -> Between(v.lo, IF o.hi # MinInt THEN IMin(v.hi, o.hi - 1) ELSE v.hi)
    [] op = "le" -> Between(v.lo, IMin(v.hi, o.hi))
    [] op = "gt" -> Between(IF o.lo # MaxInt THEN IMax(v.lo, o.lo + 1) ELSE v.lo, v.hi)
    [] op = "ge" -> Between(IMax(v.lo, o.lo), v.hi)
    [] op = "eq" -> Between(IMax(v.lo, o.lo), IMin(v.hi, o.hi))
    [] op = "ne" -> v

Always(op, a, b) ==
  \/ op = "lt" /\ a.hi < b.lo
  \/ op = "le" /\ a.hi <= b.lo
  \/ op = "gt" /\ a.lo > b.hi
  \/ op = "ge" /\ a.lo >= b.hi
  \/ op = "eq" /\ a.lo = a.hi /\ b.lo = b.hi /\ a.lo = b.lo
  \/ op = "ne" /\ (a.hi < b.lo \/ b.hi < a.lo)

\* prove_cond of a comparison: "true", "false" or "unknown".
prove_cmp(op, a, b) ==
  IF a = IV_TOP \/ b = IV_TOP THEN "unknown"
  ELSE IF Always(op, a, b) THEN "true"
  ELSE IF Always(Negate(op), a, b) THEN "false"
  ELSE "unknown"
=============================================================================

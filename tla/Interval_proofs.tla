-------------------------- MODULE Interval_proofs --------------------------
(***************************************************************************)
(* The interval arithmetic of the bounds prover is sound for every width   *)
(* of the machine word: what the run Prove checks with four bits rests on  *)
(* these facts with sixty-four.                                            *)
(***************************************************************************)
EXTENDS Interval, TLAPS

\* What is said of the interval r an operation answers with, for a result v: if
\* no end overflowed the operation did not; if v is a machine integer it is in
\* the interval; if the program does not stop at an overflow and there may be
\* one, the interval is the whole machine, so it holds the wrapped value too.
Covers(r, v, sat) ==
  /\ r.iv \in Iv
  /\ r.exact => v \in Word
  /\ v \in Word => v \in Values(r.iv)
  /\ ~sat /\ ~r.exact => r.iv = IV_TOP

LEMMA WordType == MinInt \in Int /\ MaxInt \in Int /\ MinInt < 0 /\ MaxInt > 0 /\ MinInt = -MaxInt - 1
  BY WidthAssumption

LEMMA TopType == IV_TOP \in Iv /\ \A v \in Word : v \in Values(IV_TOP)
  BY WordType DEF IV_TOP, Between, Iv, Word, Values

\* What an interval with ends around v, cut off at the ends of the machine or
\* not, becomes of it in Result.
LEMMA ResultCovers ==
  ASSUME NEW l \in Word, NEW h \in Word, NEW v \in Int, NEW exact \in BOOLEAN, NEW sat \in BOOLEAN,
         v \in Word => l <= v /\ v <= h,
         exact => l <= v /\ v <= h
  PROVE  Covers(Result(Between(l, h), exact, sat), v, sat)
  <1> DEFINE r == Result(Between(l, h), exact, sat)
  <1>1. r.exact = exact
    BY DEF Result
  <1>2. r.iv = IF (~sat /\ ~exact) \/ l > h THEN IV_TOP ELSE Between(l, h)
    BY DEF Result, Between
  <1>3. Between(l, h) \in Iv /\ \A w \in Int : w \in Values(Between(l, h)) <=> l <= w /\ w <= h
    BY WordType DEF Between, Iv, Values, Word
  <1>4. exact => v \in Word
    BY WordType DEF Word
  <1>5. CASE (~sat /\ ~exact) \/ l > h
    BY <1>1, <1>2, <1>4, <1>5, TopType, WordType DEF Covers, Word
  <1>6. CASE ~((~sat /\ ~exact) \/ l > h)
    BY <1>1, <1>2, <1>3, <1>4, <1>6, WordType DEF Covers, Word
  <1>. QED BY <1>5, <1>6

LEMMA UnknownCovers ==
  ASSUME NEW v \in Int, NEW sat \in BOOLEAN
  PROVE  Covers(Unknown, v, sat)
  BY TopType DEF Covers, Unknown

\* The cut-off sum is the sum, or the end of the machine the sum lies beyond
\* (prove.c, add_ovf and add_sat).
LEMMA AddSat ==
  ASSUME NEW a \in Word, NEW b \in Word
  PROVE  /\ add_ovf(a, b) \in BOOLEAN
         /\ add_sat(a, b) \in Word
         /\ add_ovf(a, b) <=> a + b \notin Word
         /\ ~add_ovf(a, b) => add_sat(a, b) = a + b
         /\ a + b < MinInt => add_sat(a, b) = MinInt
         /\ a + b > MaxInt => add_sat(a, b) = MaxInt
  BY WordType DEF add_ovf, add_sat, Word

LEMMA SubSat ==
  ASSUME NEW a \in Word, NEW b \in Word
  PROVE  /\ sub_ovf(a, b) \in BOOLEAN
         /\ sub_sat(a, b) \in Word
         /\ sub_ovf(a, b) <=> a - b \notin Word
         /\ ~sub_ovf(a, b) => sub_sat(a, b) = a - b
         /\ a - b < MinInt => sub_sat(a, b) = MinInt
         /\ a - b > MaxInt => sub_sat(a, b) = MaxInt
  BY WordType DEF sub_ovf, sub_sat, Word

\* The sum of two values is in the sum of their intervals (prove.c, iv_add).
THEOREM AddSound ==
  ASSUME NEW a \in Iv, NEW b \in Iv, NEW x \in Values(a), NEW y \in Values(b), NEW sat \in BOOLEAN
  PROVE  Covers(iv_add(a, b, sat), x + y, sat)
  <1>1. /\ a.lo \in Word /\ a.hi \in Word /\ b.lo \in Word /\ b.hi \in Word
        /\ a.lo <= x /\ x <= a.hi /\ b.lo <= y /\ y <= b.hi
        /\ x \in Int /\ y \in Int /\ x + y \in Int
    BY WordType DEF Iv, Values, Word
  <1>2. CASE a = IV_TOP \/ b = IV_TOP
    BY <1>1, <1>2, UnknownCovers DEF iv_add
  <1>3. CASE ~(a = IV_TOP \/ b = IV_TOP)
    <2> DEFINE l == add_sat(a.lo, b.lo)
               h == add_sat(a.hi, b.hi)
               lowOvf == add_ovf(a.lo, b.lo)
               highOvf == add_ovf(a.hi, b.hi)
    <2>1. /\ l \in Word /\ lowOvf \in BOOLEAN
          /\ LET e == a.lo + b.lo IN
                /\ lowOvf <=> e \notin Word
                /\ ~lowOvf => l = e
                /\ e < MinInt => l = MinInt
                /\ e > MaxInt => l = MaxInt
      BY <1>1, AddSat
    <2>2. /\ h \in Word /\ highOvf \in BOOLEAN
          /\ LET e == a.hi + b.hi IN
                /\ highOvf <=> e \notin Word
                /\ ~highOvf => h = e
                /\ e < MinInt => h = MinInt
                /\ e > MaxInt => h = MaxInt
      BY <1>1, AddSat
    <2> HIDE DEF l, h, lowOvf, highOvf
    <2>3. ~lowOvf /\ ~highOvf => l <= x + y /\ x + y <= h
      BY <1>1, <2>1, <2>2, WordType DEF Word
    <2>4. x + y \in Word => l <= x + y /\ x + y <= h
      BY <1>1, <2>1, <2>2, WordType DEF Word
    <2>5. Covers(Result(Between(l, h), ~lowOvf /\ ~highOvf, sat), x + y, sat)
      BY <1>1, <2>1, <2>2, <2>3, <2>4, ResultCovers
    <2>. QED BY <1>3, <2>5 DEF iv_add, l, h, lowOvf, highOvf
  <1>. QED BY <1>2, <1>3

\* So is the difference (prove.c, iv_sub).
THEOREM SubSound ==
  ASSUME NEW a \in Iv, NEW b \in Iv, NEW x \in Values(a), NEW y \in Values(b), NEW sat \in BOOLEAN
  PROVE  Covers(iv_sub(a, b, sat), x - y, sat)
  <1>1. /\ a.lo \in Word /\ a.hi \in Word /\ b.lo \in Word /\ b.hi \in Word
        /\ a.lo <= x /\ x <= a.hi /\ b.lo <= y /\ y <= b.hi
        /\ x \in Int /\ y \in Int /\ x - y \in Int
    BY WordType DEF Iv, Values, Word
  <1>2. CASE a = IV_TOP \/ b = IV_TOP
    BY <1>1, <1>2, UnknownCovers DEF iv_sub
  <1>3. CASE ~(a = IV_TOP \/ b = IV_TOP)
    <2> DEFINE l == sub_sat(a.lo, b.hi)
               h == sub_sat(a.hi, b.lo)
               lowOvf == sub_ovf(a.lo, b.hi)
               highOvf == sub_ovf(a.hi, b.lo)
    <2>1. /\ l \in Word /\ lowOvf \in BOOLEAN
          /\ LET e == a.lo - b.hi IN
                /\ lowOvf <=> e \notin Word
                /\ ~lowOvf => l = e
                /\ e < MinInt => l = MinInt
                /\ e > MaxInt => l = MaxInt
      BY <1>1, SubSat
    <2>2. /\ h \in Word /\ highOvf \in BOOLEAN
          /\ LET e == a.hi - b.lo IN
                /\ highOvf <=> e \notin Word
                /\ ~highOvf => h = e
                /\ e < MinInt => h = MinInt
                /\ e > MaxInt => h = MaxInt
      BY <1>1, SubSat
    <2> HIDE DEF l, h, lowOvf, highOvf
    <2>3. ~lowOvf /\ ~highOvf => l <= x - y /\ x - y <= h
      BY <1>1, <2>1, <2>2, WordType DEF Word
    <2>4. x - y \in Word => l <= x - y /\ x - y <= h
      BY <1>1, <2>1, <2>2, WordType DEF Word
    <2>5. Covers(Result(Between(l, h), ~lowOvf /\ ~highOvf, sat), x - y, sat)
      BY <1>1, <2>1, <2>2, <2>3, <2>4, ResultCovers
    <2>. QED BY <1>3, <2>5 DEF iv_sub, l, h, lowOvf, highOvf
  <1>. QED BY <1>2, <1>3

\* Whole quotients and remainders.
LEMMA Quotient ==
  ASSUME NEW a \in Int, NEW m \in Int, m > 0
  PROVE  /\ a \div m \in Int /\ a % m \in Int
         /\ m * (a \div m) <= a /\ a < m * (a \div m) + m
         /\ 0 <= a % m /\ a % m < m
  OBVIOUS

LEMMA Products ==
  ASSUME NEW x \in Int, NEW l \in Int, NEW h \in Int, NEW c \in Int, l <= x, x <= h
  PROVE  /\ l * c \in Int /\ x * c \in Int /\ h * c \in Int
         /\ c >= 0 => l * c <= x * c /\ x * c <= h * c
         /\ c <= 0 => h * c <= x * c /\ x * c <= l * c
  OBVIOUS

\* A product of two intervals lies between the products of their ends.
LEMMA ProductEnds ==
  ASSUME NEW x \in Int, NEW l \in Int, NEW h \in Int, l <= x, x <= h,
         NEW y \in Int, NEW p \in Int, NEW q \in Int, p <= y, y <= q
  PROVE  /\ l * p <= x * y \/ l * q <= x * y \/ h * p <= x * y \/ h * q <= x * y
         /\ l * p >= x * y \/ l * q >= x * y \/ h * p >= x * y \/ h * q >= x * y
  <1>1. /\ x * y \in Int /\ l * y \in Int /\ h * y \in Int
        /\ y >= 0 => l * y <= x * y /\ x * y <= h * y
        /\ y <= 0 => h * y <= x * y /\ x * y <= l * y
    BY Products
  <1>2. /\ l * p \in Int /\ l * q \in Int
        /\ l >= 0 => l * p <= l * y /\ l * y <= l * q
        /\ l <= 0 => l * q <= l * y /\ l * y <= l * p
    OBVIOUS
  <1>3. /\ h * p \in Int /\ h * q \in Int
        /\ h >= 0 => h * p <= h * y /\ h * y <= h * q
        /\ h <= 0 => h * q <= h * y /\ h * y <= h * p
    OBVIOUS
  <1> DEFINE xy == x * y  ly == l * y  hy == h * y  lp == l * p  lq == l * q  hp == h * p  hq == h * q
  <1>4. /\ xy \in Int /\ ly \in Int /\ hy \in Int /\ lp \in Int /\ lq \in Int /\ hp \in Int /\ hq \in Int
        /\ (ly <= xy /\ xy <= hy) \/ (hy <= xy /\ xy <= ly)
        /\ (lp <= ly /\ ly <= lq) \/ (lq <= ly /\ ly <= lp)
        /\ (hp <= hy /\ hy <= hq) \/ (hq <= hy /\ hy <= hp)
    BY <1>1, <1>2, <1>3
  <1>5. /\ lp <= xy \/ lq <= xy \/ hp <= xy \/ hq <= xy
        /\ lp >= xy \/ lq >= xy \/ hp >= xy \/ hq >= xy
    <2> HIDE DEF xy, ly, hy, lp, lq, hp, hq
    <2>. QED BY <1>4
  <1>. QED BY <1>5

\* The number a cut-off operation answers with for v.
Clamp(v) == IF v < MinInt THEN MinInt ELSE IF v > MaxInt THEN MaxInt ELSE v

\* mul_ovf compares with a quotient so as not to overflow itself; it is on the
\* safe side for MinInt only, where the cut-off product is right all the same
\* (prove.c, mul_ovf and mul_sat).
LEMMA MulSat ==
  ASSUME NEW a \in Word, NEW b \in Word
  PROVE  /\ a * b \in Int /\ mul_ovf(a, b) \in BOOLEAN
         /\ mul_sat(a, b) = Clamp(a * b)
         /\ ~mul_ovf(a, b) => a * b \in Word
  <1>1. a \in Int /\ b \in Int /\ a * b \in Int /\ MinInt <= a /\ a <= MaxInt /\ MinInt <= b /\ b <= MaxInt
    BY WordType DEF Word
  <1>2. mul_ovf(a, b) \in BOOLEAN
    BY DEF mul_ovf
  <1>3. CASE a = 0 \/ b = 0
    <2>1. a * b = 0
      BY <1>1, <1>3
    <2>. QED BY <1>2, <1>3, <2>1, WordType DEF mul_ovf, mul_sat, Clamp, Word
  <1>4. CASE a # 0 /\ b # 0
    <2> DEFINE s == IAbs(a)
               t == IAbs(b)
    <2>1. s \in Int /\ t \in Int /\ s > 0 /\ t > 0 /\ s * t \in Int
      BY <1>1, <1>4 DEF IAbs
    <2>2. IF (a < 0) = (b < 0) THEN a * b = s * t ELSE a * b = -(s * t)
      <3>1. CASE a < 0 /\ b < 0
        BY <1>1, <3>1 DEF IAbs
      <3>2. CASE a < 0 /\ ~(b < 0)
        BY <1>1, <3>2 DEF IAbs
      <3>3. CASE ~(a < 0) /\ b < 0
        BY <1>1, <3>3 DEF IAbs
      <3>4. CASE ~(a < 0) /\ ~(b < 0)
        BY <1>1, <3>4 DEF IAbs
      <3>. QED BY <3>1, <3>2, <3>3, <3>4
    <2>3. s > MaxInt \div t <=> s * t > MaxInt
      <3> DEFINE k == MaxInt \div t
      <3>1. k \in Int /\ t * k <= MaxInt /\ MaxInt < t * k + t
        BY <2>1, WordType, Quotient
      <3> HIDE DEF s, t, k
      <3>2. ASSUME s > k PROVE s * t > MaxInt
        <4>1. s >= k + 1 /\ (k + 1) * t <= s * t /\ (k + 1) * t = t * k + t
          BY <2>1, <3>1, <3>2, Products
        <4>. QED BY <2>1, <3>1, <4>1, WordType
      <3>3. ASSUME s <= k PROVE s * t <= MaxInt
        <4>1. s * t <= k * t /\ k * t = t * k /\ t * k \in Int
          BY <2>1, <3>1, <3>3, Products
        <4>. QED BY <2>1, <3>1, <4>1, WordType
      <3>4. s > MaxInt \div t <=> s > k
        BY DEF k
      <3>. QED BY <2>1, <3>1, <3>2, <3>3, <3>4, WordType
    <2>4. /\ a = MinInt => s = MaxInt + 1
          /\ b = MinInt => t = MaxInt + 1
      BY <1>1, WordType DEF IAbs
    <2>5. s * t >= s /\ s * t >= t
      <3> HIDE DEF s, t
      <3>. QED BY <2>1
    <2>6. mul_ovf(a, b) => s * t > MaxInt
      BY <1>1, <1>4, <2>1, <2>3, <2>4, <2>5, WordType DEF mul_ovf
    <2>7. ~mul_ovf(a, b) => s * t <= MaxInt
      <3>1. ~mul_ovf(a, b) => ~(s > MaxInt \div t)
        BY <1>4 DEF mul_ovf
      <3>. QED BY <3>1, <2>1, <2>3, WordType
    <2>8. CASE mul_ovf(a, b)
      <3>1. mul_sat(a, b) = IF (a < 0) = (b < 0) THEN MaxInt ELSE MinInt
        BY <2>8 DEF mul_sat
      <3>. HIDE DEF s, t
      <3>2. CASE (a < 0) = (b < 0)
        <4>1. a * b > MaxInt
          BY <2>2, <2>6, <2>8, <3>2
        <4>. QED BY <1>1, <1>2, <2>8, <3>1, <3>2, <4>1, WordType DEF Clamp
      <3>3. CASE (a < 0) # (b < 0)
        <4>1. a * b <= MinInt
          BY <1>1, <2>1, <2>2, <2>6, <2>8, <3>3, WordType
        <4>. QED BY <1>1, <1>2, <2>8, <3>1, <3>3, <4>1, WordType DEF Clamp
      <3>. QED BY <3>2, <3>3
    <2>9. CASE ~mul_ovf(a, b)
      <3>1. mul_sat(a, b) = a * b
        BY <2>9 DEF mul_sat
      <3>. HIDE DEF s, t
      <3>2. a * b \in Word
        BY <1>1, <2>1, <2>2, <2>7, <2>9, WordType DEF Word
      <3>. QED BY <1>1, <1>2, <3>1, <3>2, WordType DEF Clamp, Word
    <2>. QED BY <2>8, <2>9
  <1>. QED BY <1>3, <1>4

\* The least and the greatest of four cut-off numbers.
LEMMA FourEnds ==
  ASSUME NEW v \in Int, NEW c1 \in Int, NEW c2 \in Int, NEW c3 \in Int, NEW c4 \in Int
  PROVE  LET l == IMin(IMin(Clamp(c1), Clamp(c2)), IMin(Clamp(c3), Clamp(c4)))
             h == IMax(IMax(Clamp(c1), Clamp(c2)), IMax(Clamp(c3), Clamp(c4)))
         IN  /\ l \in Word /\ h \in Word
             /\ v \in Word /\ (c1 <= v \/ c2 <= v \/ c3 <= v \/ c4 <= v) => l <= v
             /\ v \in Word /\ (c1 >= v \/ c2 >= v \/ c3 >= v \/ c4 >= v) => v <= h
  BY WordType DEF IMin, IMax, Clamp, Word

\* The product of two values is in the product of their intervals (prove.c, iv_mul).
THEOREM MulSound ==
  ASSUME NEW a \in Iv, NEW b \in Iv, NEW x \in Values(a), NEW y \in Values(b), NEW sat \in BOOLEAN
  PROVE  Covers(iv_mul(a, b, sat), x * y, sat)
  <1>1. /\ a.lo \in Word /\ a.hi \in Word /\ b.lo \in Word /\ b.hi \in Word
        /\ a.lo \in Int /\ a.hi \in Int /\ b.lo \in Int /\ b.hi \in Int
        /\ a.lo <= x /\ x <= a.hi /\ b.lo <= y /\ y <= b.hi
        /\ x \in Int /\ y \in Int /\ x * y \in Int
    BY WordType DEF Iv, Values, Word
  <1>2. CASE a = IV_TOP \/ b = IV_TOP
    BY <1>1, <1>2, UnknownCovers DEF iv_mul
  <1>3. CASE ~(a = IV_TOP \/ b = IV_TOP)
    <2> DEFINE ll == a.lo * b.lo  lh == a.lo * b.hi  hl == a.hi * b.lo  hh == a.hi * b.hi
               xy == x * y
               l == IMin(IMin(Clamp(ll), Clamp(lh)), IMin(Clamp(hl), Clamp(hh)))
               h == IMax(IMax(Clamp(ll), Clamp(lh)), IMax(Clamp(hl), Clamp(hh)))
               exact == /\ ~mul_ovf(a.lo, b.lo) /\ ~mul_ovf(a.lo, b.hi)
                        /\ ~mul_ovf(a.hi, b.lo) /\ ~mul_ovf(a.hi, b.hi)
    <2>1. /\ mul_sat(a.lo, b.lo) = Clamp(ll) /\ mul_sat(a.lo, b.hi) = Clamp(lh)
          /\ mul_sat(a.hi, b.lo) = Clamp(hl) /\ mul_sat(a.hi, b.hi) = Clamp(hh)
      BY <1>1, MulSat
    <2>2. exact \in BOOLEAN /\ (exact => ll \in Word /\ lh \in Word /\ hl \in Word /\ hh \in Word)
      BY <1>1, MulSat
    <2>3. ll \in Int /\ lh \in Int /\ hl \in Int /\ hh \in Int /\ xy \in Int
      BY <1>1
    <2>4. /\ ll <= xy \/ lh <= xy \/ hl <= xy \/ hh <= xy
          /\ ll >= xy \/ lh >= xy \/ hl >= xy \/ hh >= xy
      BY <1>1, ProductEnds
    <2> HIDE DEF ll, lh, hl, hh, xy, exact
    <2>5. l \in Word /\ h \in Word
      BY <2>3, FourEnds
    <2>6. exact => xy \in Word
      BY <2>2, <2>3, <2>4, WordType DEF Word
    <2>7. xy \in Word => l <= xy /\ xy <= h
      BY <2>3, <2>4, FourEnds
    <2> HIDE DEF l, h
    <2>8. Covers(Result(Between(l, h), exact, sat), xy, sat)
      BY <2>2, <2>3, <2>5, <2>6, <2>7, ResultCovers
    <2>9. iv_mul(a, b, sat) = Result(Between(l, h), exact, sat)
      BY <1>3, <2>1 DEF iv_mul, l, h, exact
    <2>. QED BY <2>8, <2>9 DEF xy
  <1>. QED BY <1>2, <1>3

\* Remainders and quotients by a divisor known to be positive, and the negation:
\* a result that is a machine integer is in the interval (prove.c, iv_mod,
\* iv_floordiv, iv_neg).
THEOREM DivSound ==
  ASSUME NEW a \in Iv, NEW b \in Iv, NEW x \in Values(a), NEW y \in Values(b)
  PROVE  /\ y > 0 => x % y \in Values(iv_mod(a, b)) /\ x \div y \in Values(iv_floordiv(a, b))
         /\ -x \in Word => -x \in Values(iv_neg(a))
  <1>1. /\ a.lo \in Word /\ a.hi \in Word /\ b.lo \in Word /\ b.hi \in Word
        /\ a.lo \in Int /\ a.hi \in Int /\ b.lo \in Int /\ b.hi \in Int
        /\ a.lo <= x /\ x <= a.hi /\ b.lo <= y /\ y <= b.hi
        /\ x \in Int /\ y \in Int
        /\ MinInt <= x /\ x <= MaxInt /\ y <= MaxInt
    BY WordType DEF Iv, Values, Word
  <1>2. ASSUME y > 0 PROVE x % y \in Values(iv_mod(a, b))
    <2>1. x % y \in Int /\ 0 <= x % y /\ x % y < y
      BY <1>1, <1>2, Quotient
    <2>2. CASE b.lo > 0
      <3>1. x % y \in 0 .. (b.hi - 1)
        <4> DEFINE r == x % y
        <4>1. r \in Int /\ 0 <= r /\ r < y
          BY <2>1
        <4> HIDE DEF r
        <4>2. r \in 0 .. (b.hi - 1)
          BY <1>1, <4>1
        <4>. QED BY <4>2 DEF r
      <3>. QED BY <2>2, <3>1 DEF iv_mod, Between, Values
    <2>3. CASE ~(b.lo > 0)
      <3>1. x % y \in Word
        BY <1>1, <2>1, WordType DEF Word
      <3>. QED BY <2>3, <3>1, TopType DEF iv_mod
    <2>. QED BY <2>2, <2>3
  <1>3. ASSUME y > 0 PROVE x \div y \in Values(iv_floordiv(a, b))
    <2> DEFINE q == x \div y
    <2>1. q \in Int /\ y * q \in Int /\ y * q <= x /\ x < y * q + y
      BY <1>1, <1>3, Quotient
    <2>2. CASE a.lo >= 0 /\ b.lo > 0
      <3> DEFINE low == a.lo \div b.hi
                 high == a.hi \div b.lo
      <3>1. low \in Int /\ b.hi * low \in Int /\ b.hi * low <= a.lo
        BY <1>1, <2>2, Quotient
      <3>2. high \in Int /\ b.lo * high \in Int /\ a.hi < b.lo * high + b.lo
        BY <1>1, <2>2, Quotient
      <3> HIDE DEF q, low, high
      <3>3. q >= 0
        <4>1. SUFFICES ASSUME q <= -1 PROVE FALSE
          BY <2>1
        <4>2. y * q <= -y
          BY <1>1, <1>3, <2>1, <4>1
        <4>. QED BY <1>1, <2>1, <2>2, <4>2
      <3>4. low <= q
        <4>1. SUFFICES ASSUME low >= q + 1 PROVE FALSE
          BY <2>1, <3>1
        <4>2. b.hi * (q + 1) <= b.hi * low /\ b.hi * (q + 1) \in Int
          BY <1>1, <1>3, <2>1, <3>1, <4>1
        <4>3. y * (q + 1) <= b.hi * (q + 1) /\ y * (q + 1) = y * q + y
          BY <1>1, <2>1, <3>3, Products
        <4>. QED BY <1>1, <2>1, <3>1, <4>2, <4>3
      <3>5. q <= high
        <4>1. SUFFICES ASSUME q >= high + 1 PROVE FALSE
          BY <2>1, <3>2
        <4>2. b.lo * (high + 1) <= b.lo * q /\ b.lo * (high + 1) = b.lo * high + b.lo /\ b.lo * q \in Int
          BY <1>1, <2>1, <2>2, <3>2, <4>1
        <4>3. b.lo * q <= y * q
          BY <1>1, <2>1, <3>3, Products
        <4>. QED BY <1>1, <2>1, <3>2, <4>2, <4>3
      <3>6. iv_floordiv(a, b) = Between(low, high)
        BY <2>2 DEF iv_floordiv, low, high
      <3>. QED BY <2>1, <3>1, <3>2, <3>4, <3>5, <3>6 DEF Between, Values, q
    <2>3. CASE ~(a.lo >= 0 /\ b.lo > 0)
      <3> HIDE DEF q
      <3>1. q \in Word
        <4>1. q <= MaxInt
          <5>1. SUFFICES ASSUME q >= MaxInt + 1 PROVE FALSE
            BY <2>1, WordType
          <5>2. y * q >= q
            BY <1>1, <1>3, <2>1, <5>1, WordType
          <5>. QED BY <1>1, <2>1, <5>1, <5>2, WordType
        <4>2. q >= MinInt
          <5>1. SUFFICES ASSUME q <= MinInt - 1 PROVE FALSE
            BY <2>1, WordType
          <5>2. y * (q + 1) <= q + 1 /\ y * (q + 1) = y * q + y
            BY <1>1, <1>3, <2>1, <5>1, WordType
          <5>. QED BY <1>1, <2>1, <5>1, <5>2, WordType
        <4>. QED BY <2>1, <4>1, <4>2, WordType DEF Word
      <3>. QED BY <2>3, <3>1, TopType DEF iv_floordiv, q
    <2>. QED BY <2>2, <2>3
  <1>4. ASSUME -x \in Word PROVE -x \in Values(iv_neg(a))
    <2>1. CASE a = IV_TOP \/ a.lo = MinInt
      BY <1>4, <2>1, TopType DEF iv_neg
    <2>2. CASE ~(a = IV_TOP \/ a.lo = MinInt)
      BY <1>1, <2>2 DEF iv_neg, Between, Values
    <2>. QED BY <2>1, <2>2
  <1>. QED BY <1>2, <1>3, <1>4

\* Joining loses no value, meeting keeps what both know, widening only grows
\* (prove.c, iv_join, iv_meet, iv_widen).
THEOREM LatticeSound ==
  ASSUME NEW a \in Iv, NEW b \in Iv
  PROVE  /\ iv_join(a, b) \in Iv /\ iv_meet(a, b) \in Iv /\ iv_widen(a, b) \in Iv
         /\ Values(a) \cup Values(b) \subseteq Values(iv_join(a, b))
         /\ Values(a) \cap Values(b) \subseteq Values(iv_meet(a, b))
         /\ Values(iv_meet(a, b)) \subseteq Values(a)
         /\ Values(a) \subseteq Values(iv_widen(a, b))
  <1>1. a.lo \in Word /\ a.hi \in Word /\ b.lo \in Word /\ b.hi \in Word /\ a = Between(a.lo, a.hi)
    BY DEF Iv, Between
  <1>2. iv_join(a, b) \in Iv /\ Values(a) \cup Values(b) \subseteq Values(iv_join(a, b))
    BY <1>1, WordType DEF iv_join, Between, Iv, Values, Word, IMin, IMax
  <1>3. /\ iv_meet(a, b) \in Iv
        /\ Values(a) \cap Values(b) \subseteq Values(iv_meet(a, b))
        /\ Values(iv_meet(a, b)) \subseteq Values(a)
    <2> DEFINE m == Between(IMax(a.lo, b.lo), IMin(a.hi, b.hi))
    <2>1. m.lo = IMax(a.lo, b.lo) /\ m.hi = IMin(a.hi, b.hi)
      BY DEF Between
    <2>2. CASE m.lo <= m.hi
      <3>1. iv_meet(a, b) = m
        BY <2>2 DEF iv_meet
      <3>2. m \in Iv
        BY <1>1, WordType DEF Between, Iv, Word, IMin, IMax
      <3>3. Values(a) \cap Values(b) \subseteq Values(m) /\ Values(m) \subseteq Values(a)
        BY <1>1, <2>1, WordType DEF Values, Word, IMin, IMax
      <3>. QED BY <3>1, <3>2, <3>3
    <2>3. CASE ~(m.lo <= m.hi)
      BY <2>3 DEF iv_meet
    <2>. QED BY <2>2, <2>3
  <1>4. iv_widen(a, b) \in Iv /\ Values(a) \subseteq Values(iv_widen(a, b))
    BY <1>1, WordType DEF iv_widen, Between, Iv, Values, Word
  <1>. QED BY <1>2, <1>3, <1>4

Comparison == {"lt", "le", "gt", "ge", "eq", "ne"}

\* Negation and mirroring mean what their names say: exactly one of a comparison
\* and its negation holds, and a comparison read from the right is the same
\* (prove.c, refine_cmp).
LEMMA NegateMirror ==
  ASSUME NEW op \in Comparison, NEW x \in Int, NEW y \in Int
  PROVE  /\ Negate(op) \in Comparison /\ Mirror(op) \in Comparison
         /\ Holds(Negate(op), x, y) <=> ~Holds(op, x, y)
         /\ Holds(Mirror(op), y, x) <=> Holds(op, x, y)
  BY DEF Comparison, Negate, Mirror, Holds

\* Refining by a comparison that holds loses no value (prove.c, refine_cmp).
THEOREM CutSound ==
  ASSUME NEW op \in Comparison, NEW v \in Iv, NEW o \in Iv,
         NEW x \in Values(v), NEW y \in Values(o), Holds(op, x, y)
  PROVE  x \in Values(Cut(op, v, o))
  <1>1. /\ v.lo \in Word /\ v.hi \in Word /\ o.lo \in Word /\ o.hi \in Word
        /\ v.lo <= x /\ x <= v.hi /\ o.lo <= y /\ y <= o.hi
        /\ x \in Int /\ y \in Int
    BY WordType DEF Iv, Values, Word
  <1>2. CASE op = "lt"
    BY <1>1, <1>2, WordType DEF Cut, Holds, Between, Values, Word, IMin
  <1>3. CASE op = "le"
    BY <1>1, <1>3, WordType DEF Cut, Holds, Between, Values, Word, IMin
  <1>4. CASE op = "gt"
    BY <1>1, <1>4, WordType DEF Cut, Holds, Between, Values, Word, IMax
  <1>5. CASE op = "ge"
    BY <1>1, <1>5, WordType DEF Cut, Holds, Between, Values, Word, IMax
  <1>6. CASE op = "eq"
    BY <1>1, <1>6, WordType DEF Cut, Holds, Between, Values, Word, IMin, IMax
  <1>7. CASE op = "ne"
    BY <1>7 DEF Cut
  <1>. QED BY <1>2, <1>3, <1>4, <1>5, <1>6, <1>7 DEF Comparison

\* What is always true of two intervals is true of their values.
LEMMA AlwaysSound ==
  ASSUME NEW op \in Comparison, NEW a \in Iv, NEW b \in Iv,
         NEW x \in Values(a), NEW y \in Values(b), Always(op, a, b)
  PROVE  Holds(op, x, y)
  <1>1. /\ a.lo \in Word /\ a.hi \in Word /\ b.lo \in Word /\ b.hi \in Word
        /\ a.lo <= x /\ x <= a.hi /\ b.lo <= y /\ y <= b.hi
        /\ x \in Int /\ y \in Int
    BY WordType DEF Iv, Values, Word
  <1>. QED BY <1>1, WordType DEF Always, Holds, Comparison, Word

\* A comparison that is decided at compile time is decided as every execution
\* would decide it, so the check or the branch behind it may go
\* (prove.c, prove_cond).
THEOREM CompareSound ==
  ASSUME NEW op \in Comparison, NEW a \in Iv, NEW b \in Iv, NEW x \in Values(a), NEW y \in Values(b)
  PROVE  /\ prove_cmp(op, a, b) = "true" => Holds(op, x, y)
         /\ prove_cmp(op, a, b) = "false" => ~Holds(op, x, y)
  <1>1. x \in Int /\ y \in Int
    BY WordType DEF Values, Iv, Word
  <1>2. prove_cmp(op, a, b) = "true" => Always(op, a, b)
    BY DEF prove_cmp
  <1>3. prove_cmp(op, a, b) = "false" => Always(Negate(op), a, b)
    BY DEF prove_cmp
  <1>4. Negate(op) \in Comparison
    BY <1>1, NegateMirror
  <1>5. Always(op, a, b) => Holds(op, x, y)
    BY AlwaysSound
  <1>6. Always(Negate(op), a, b) => Holds(Negate(op), x, y)
    BY <1>4, AlwaysSound
  <1>. QED BY <1>1, <1>2, <1>3, <1>5, <1>6, NegateMirror
=============================================================================

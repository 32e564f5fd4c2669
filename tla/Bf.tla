--------------------------------- MODULE Bf ---------------------------------
(***************************************************************************)
(* The floating point of bf/libbf.c, which holds every kint and kfloat.  A *)
(* number is +-m * 2^(expn - len * LIMB_BITS): len limbs, read here as the *)
(* integer m, the top bit set and the lowest limb not zero.  Zero, the     *)
(* infinities and NaN have no limbs and an exponent of their own.  What an *)
(* operation writes and returns is a record [r, ret], ret a set of flags.  *)
(*                                                                         *)
(* Left out: the branches for a failed allocation, which kata's allocator  *)
(* never returns to (bf/init.c), and the transform that multiplies numbers *)
(* of more than a hundred limbs.                                           *)
(***************************************************************************)
EXTENDS Limbs, Bitwise

CONSTANTS
  EXP_BITS_MAX,     \* 61 in the code
  DOUBLE_BITS,      \* 53: the precision of a double
  DOUBLE_EXP_BITS   \* 11

ASSUME BfAssumption ==
  /\ EXP_BITS_MAX \in 2..18 /\ DOUBLE_EXP_BITS \in 2..EXP_BITS_MAX
  /\ DOUBLE_BITS \in 2..LIMB_BITS        \* a double's mantissa is one limb

BF_EXP_NAN  == 2^20
BF_EXP_INF  == BF_EXP_NAN - 1
BF_EXP_ZERO == -BF_EXP_NAN
BF_PREC_INF == 2^19

Mode(rnd) == [rnd |-> rnd, radpnt |-> FALSE, subnormal |-> FALSE, bits |-> EXP_BITS_MAX]

Number(sign, expn, len, m) == [sign |-> sign, expn |-> expn, len |-> len, m |-> m]
Done(r, ret) == [r |-> r, ret |-> ret]

bf_set_zero(sign) == Number(sign, BF_EXP_ZERO, 0, 0)
bf_set_inf(sign)  == Number(sign, BF_EXP_INF, 0, 0)
bf_set_nan        == Number(0, BF_EXP_NAN, 0, 0)
bf_is_nan(a)      == a.expn = BF_EXP_NAN
bf_is_finite(a)   == a.expn < BF_EXP_INF
bf_neg(a)         == [a EXCEPT !.sign = 1 - @]

\* Limbs that hold so many bits; m * 2^s without its fraction; the bits of m at pos.
InLimbs(bits)    == (bits + LIMB_BITS - 1) \div LIMB_BITS
Shift(m, s)      == IF m = 0 \/ s < -30 THEN 0 ELSE IF s >= 0 THEN m * 2^s ELSE m \div 2^(-s)
BitLength(m)     == CHOOSE k \in 0..30 : m < 2^k /\ (k = 0 \/ m >= 2^(k - 1))
get_bit(m, pos)  == IF pos < 0 THEN 0 ELSE Shift(m, -pos) % 2
get_bits(m, pos) == Shift(m, -pos) % Base
scan_bit_nz(m, bit_pos) == bit_pos >= 0 /\ m % 2^(bit_pos + 1) # 0

\* The last bit set when something below it is not zero.
Sticky(m, lost) == IF lost /\ m % 2 = 0 THEN m + 1 ELSE m

\* One limb, shifted up to its top bit.
bf_set_ui(a) == IF a = 0 THEN bf_set_zero(0)
                ELSE Number(0, BitLength(a), 1, a * 2^(LIMB_BITS - BitLength(a)))
bf_set_si(a) == IF a < 0 THEN bf_neg(bf_set_ui(-a)) ELSE bf_set_ui(a)

-----------------------------------------------------------------------------
\* Mutant: the bits that are dropped include the first of them, so a tie is none.
bf_get_rnd_add_NoTie(r, prec, rnd) ==
  LET top  == r.len * LIMB_BITS - 1
      bit0 == rnd = "F" \/ scan_bit_nz(r.m, top - Max({0, prec}))
      bit1 == get_bit(r.m, top - prec) = 1
  IN  [inexact |-> bit1 \/ bit0,
       add_one |-> CASE rnd = "Z" -> FALSE
                     [] rnd = "N" -> bit1 /\ (bit0 \/ get_bit(r.m, top - (prec - 1)) = 1)
                     [] rnd \in {"D", "U"} -> (r.sign = 1) = (rnd = "D") /\ (bit1 \/ bit0)
                     [] rnd = "A" -> bit1 \/ bit0
                     [] rnd \in {"NA", "F"} -> bit1]

\* Whether one is added at bit prec - 1, from the bits that are dropped and the last kept.
\* prec may be negative: bits above the top one are clear.
bf_get_rnd_add(r, prec, rnd) ==
  LET top     == r.len * LIMB_BITS - 1
      bit0    == IF rnd = "F" THEN TRUE ELSE scan_bit_nz(r.m, top - Max({0, prec + 1}))
      bit1    == get_bit(r.m, top - prec) = 1
      inexact == bit1 \/ bit0
  IN  [inexact |-> inexact,
       add_one |-> CASE rnd = "Z" -> FALSE
                     [] rnd = "N" -> bit1 /\ (bit0 \/ get_bit(r.m, top - (prec - 1)) = 1)
                     [] rnd \in {"D", "U"} -> (r.sign = 1) = (rnd = "D") /\ inexact
                     [] rnd = "A" -> inexact
                     [] rnd \in {"NA", "F"} -> bit1]

\* An infinity, or the largest finite number, when the rounding is towards zero.
bf_set_overflow(sign, prec, flags) ==
  LET away == \/ prec = BF_PREC_INF \/ flags.rnd \in {"N", "NA", "A"}
              \/ flags.rnd = (IF sign = 1 THEN "D" ELSE "U")
      l    == InLimbs(prec)
  IN  Done(IF away THEN bf_set_inf(sign)
           ELSE Number(sign, 2^(flags.bits - 1), l, Base^l - 2^(l * LIMB_BITS - prec)),
           {"overflow", "inexact"})

\* Mutant: the limbs that rounding has cleared stay.
Trimmed_Keeps(sign, expn, len, m) == Number(sign, expn, len, m)

\* Without the low limbs that are zero.
Trimmed(sign, expn, len, m) ==
  LET z == CHOOSE k \in 0..(len - 1) : m % Base^k = 0 /\ m % Base^(k + 1) # 0
  IN  Number(sign, expn, len - z, m \div Base^z)

\* Rounds the l limbs of a normalized number to prec1 bits, or to prec1 bits after the
\* radix point; a subnormal result has as many bits fewer as its exponent is below e_min.
__bf_round(r, prec1, flags, ret) ==
  LET l     == r.len
      e_max == 2^(flags.bits - 1)
      e_min == -e_max + 3
      prec  == IF prec1 = BF_PREC_INF THEN prec1
               ELSE IF flags.radpnt THEN r.expn + prec1
               ELSE IF r.expn < e_min /\ flags.subnormal THEN prec1 - (e_min - r.expn)
               ELSE prec1
      rnd   == bf_get_rnd_add(r, prec, flags.rnd)
      st    == ret \cup (IF rnd.inexact THEN {"inexact"} ELSE {})
      tiny  == st \cup {"underflow", "inexact"}
      pos   == l * LIMB_BITS - prec                 \* of the last bit kept
      sum   == r.m + IF rnd.add_one THEN 2^pos ELSE 0
      carry == sum >= Base^l                        \* then the limbs are shifted right
      m     == IF carry THEN sum \div 2 ELSE sum
      expn  == r.expn + IF carry THEN 1 ELSE 0
  IN  IF prec <= 0
      THEN IF rnd.add_one THEN Done(Number(r.sign, r.expn + 1 - prec, 1, Base \div 2), tiny)
           ELSE Done(bf_set_zero(r.sign), tiny)
      ELSE IF expn < e_min /\ ~flags.subnormal THEN Done(bf_set_zero(r.sign), tiny)
      ELSE IF expn > e_max THEN bf_set_overflow(r.sign, prec1, flags)
      ELSE Done(Trimmed(r.sign, expn, l, IF pos > 0 THEN m - (m % 2^pos) ELSE m),
                IF expn < e_min /\ "inexact" \in st THEN tiny ELSE st)

\* Drops the high limbs that are zero and shifts the top bit into place.
bf_normalize_and_round(r, prec1, flags) ==
  LET bits == BitLength(r.m)
      l    == InLimbs(bits)
      shift == l * LIMB_BITS - bits
  IN  IF r.m = 0 THEN Done(bf_set_zero(r.sign), {})
      ELSE __bf_round(Number(r.sign, r.expn - (r.len - l) * LIMB_BITS - shift, l, r.m * 2^shift),
                      prec1, flags, {})

bf_round(r, prec, flags) == IF r.len = 0 THEN Done(r, {}) ELSE __bf_round(r, prec, flags, {})
bf_rint(r, rnd) == bf_round(r, 0, [Mode(rnd) EXCEPT !.radpnt = TRUE])

\* Mutant: one bit too many is looked at.
bf_can_round_Longer(a, prec, rnd, k) ==
  LET pos == a.len * LIMB_BITS - 1 - prec
      bit == (get_bit(a.m, pos) + IF rnd \in {"N", "NA"} THEN 1 ELSE 0) % 2
  IN  IF ~bf_is_finite(a) THEN FALSE
      ELSE IF rnd = "F" THEN k >= prec + 1
      ELSE /\ a.expn # BF_EXP_ZERO
           /\ k >= prec + 2
           /\ \E i \in 1..(k - prec) : get_bit(a.m, pos - i) # bit

\* Whether numbers within 2^(expn - k) of a round as a does: the bits from prec to k are
\* not all those of a boundary.
bf_can_round(a, prec, rnd, k) ==
  LET nearest == rnd \in {"N", "NA"}
      pos     == a.len * LIMB_BITS - 1 - prec
      bit     == (get_bit(a.m, pos) + IF nearest THEN 1 ELSE 0) % 2
  IN  IF ~bf_is_finite(a) THEN FALSE
      ELSE IF rnd = "F" THEN k >= prec + 1
      ELSE /\ a.expn # BF_EXP_ZERO
           /\ k >= prec + 2
           /\ \E i \in 1..(k - prec - 1) : get_bit(a.m, pos - i) # bit

-----------------------------------------------------------------------------
\* Comparison of absolute values, of numbers, and the full order (NaN above all, -0 < 0).
bf_cmpu(a, b) ==
  LET len == Max({a.len, b.len})
      v1  == a.m * Base^(len - a.len)
      v2  == b.m * Base^(len - b.len)
      Order(x, y) == IF x < y THEN -1 ELSE IF x > y THEN 1 ELSE 0
  IN  IF a.expn # b.expn THEN Order(a.expn, b.expn) ELSE Order(v1, v2)

Signed(a, res) == IF a.sign = 1 THEN -res ELSE res

bf_cmp_full(a, b) ==
  IF bf_is_nan(a) \/ bf_is_nan(b)
  THEN IF a.expn = b.expn THEN 0 ELSE IF bf_is_nan(a) THEN 1 ELSE -1
  ELSE IF a.sign # b.sign THEN 1 - 2 * a.sign
  ELSE Signed(a, bf_cmpu(a, b))

bf_cmp(a, b) ==
  IF bf_is_nan(a) \/ bf_is_nan(b) THEN 2
  ELSE IF a.sign # b.sign THEN IF a.expn = BF_EXP_ZERO /\ b.expn = BF_EXP_ZERO THEN 0 ELSE 1 - 2 * a.sign
  ELSE Signed(a, bf_cmpu(a, b))

\* The bits from the top that match X1000.. in a and X0111.. in b: a - b starts with as
\* many zeros.  a is the larger, with an exponent greater by one at most.
count_cancelled_bits(a, b) ==
  LET last == Max({a.len, b.len}) * LIMB_BITS + 1
      A(i) == get_bit(a.m, a.len * LIMB_BITS - 1 - i)
      B(i) == get_bit(b.m, b.len * LIMB_BITS - 1 - i + a.expn - b.expn)
      first == Min({i \in 0..last : A(i) # B(i)})
  IN  Min({i \in (first + 1)..(last + 1) : ~(A(i) = 0 /\ B(i) = 1)})

\* The sum or the difference of two numbers, |a| >= |b| > 0, in the limbs that rounding
\* needs; what is below them gives a carry, and a last bit set when it is not zero.
AddLimbs(a, b, sign, is_sub, prec, flags) ==
  LET d         == a.expn - b.expn
      cancelled == IF ~is_sub THEN 0 ELSE IF d <= 1 THEN count_cancelled_bits(a, b) ELSE 1
      precl     == InLimbs(cancelled + prec + 2)
      tot_len   == Max({a.len, b.len + InLimbs(d)})
      r_len     == Min({precl, tot_len})
      v1        == a.m * Base^(tot_len - a.len)
      v2        == b.m * 2^((tot_len - b.len) * LIMB_BITS - d)
      u         == IF is_sub THEN v1 - v2 ELSE v1 + v2
      low       == Base^(tot_len - r_len)
      m         == Sticky(u \div low, u % low # 0)
      carry     == IF m >= Base^r_len THEN 1 ELSE 0
  IN  bf_normalize_and_round(Number(sign, a.expn + carry * LIMB_BITS, r_len + carry, m), prec, flags)

bf_add_internal(a0, b0, prec, flags, b_neg) ==
  LET b_sign  == IF b_neg THEN 1 - b0.sign ELSE b0.sign
      is_sub  == a0.sign # b_sign
      cmp_res == bf_cmpu(a0, b0)
      a       == IF cmp_res < 0 THEN b0 ELSE a0
      b       == IF cmp_res < 0 THEN a0 ELSE b0
      sign    == IF cmp_res < 0 THEN b_sign ELSE a0.sign
  IN  IF cmp_res = 0 /\ is_sub /\ a.expn < BF_EXP_INF
      THEN Done(bf_set_zero(IF flags.rnd = "D" THEN 1 ELSE 0), {})
      ELSE IF a.len > 0 /\ b.len > 0 THEN AddLimbs(a, b, sign, is_sub, prec, flags)
      ELSE IF bf_is_nan(a) THEN Done(bf_set_nan, {})
      ELSE IF a.expn = BF_EXP_INF
      THEN IF b.expn = BF_EXP_INF /\ is_sub THEN Done(bf_set_nan, {"invalid"})
           ELSE Done(bf_set_inf(sign), {})
      ELSE bf_normalize_and_round([a EXCEPT !.sign = sign], prec, flags)

bf_add(a, b, prec, flags) == bf_add_internal(a, b, prec, flags, FALSE)
bf_sub(a, b, prec, flags) == bf_add_internal(a, b, prec, flags, TRUE)
bf_add_si(a, b1, prec, flags) == bf_add(a, bf_set_si(b1), prec, flags)

-----------------------------------------------------------------------------
TopLimbs(a, n) == High(Array(a.m, a.len), a.len - n)

\* Faithful rounding reads only as many limbs as it needs.
MulLimbs(a, b, sign, prec, flags) ==
  LET Used(len) == IF flags.rnd = "F" THEN Min({len, InLimbs(prec + 2)}) ELSE len
      a_len == Used(a.len)
      b_len == Used(b.len)
      tab   == mp_mul_basecase(TopLimbs(a, a_len), TopLimbs(b, b_len))
  IN  bf_normalize_and_round(Number(sign, a.expn + b.expn, a_len + b_len, Value(tab)), prec, flags)

\* The operand with more limbs comes first.
bf_mul(a0, b0, prec, flags) ==
  LET a    == IF a0.len < b0.len THEN b0 ELSE a0
      b    == IF a0.len < b0.len THEN a0 ELSE b0
      sign == IF a.sign = b.sign THEN 0 ELSE 1
      Is(x, expn) == x.expn = expn
  IN  IF b.len > 0 THEN MulLimbs(a, b, sign, prec, flags)
      ELSE IF bf_is_nan(a) \/ bf_is_nan(b) THEN Done(bf_set_nan, {})
      ELSE IF Is(a, BF_EXP_INF) \/ Is(b, BF_EXP_INF)
      THEN IF Is(a, BF_EXP_ZERO) \/ Is(b, BF_EXP_ZERO) THEN Done(bf_set_nan, {"invalid"})
           ELSE Done(bf_set_inf(sign), {})
      ELSE Done(bf_set_zero(sign), {})

bf_mul_si(a, b1, prec, flags) == bf_mul(a, bf_set_si(b1), prec, flags)

bf_mul_2exp(r, e, prec, flags) ==
  LET e_max == 2^(EXP_BITS_MAX + 1) - 1
      by    == Min({Max({e, -e_max}), e_max})
  IN  IF r.len = 0 THEN Done(r, {}) ELSE __bf_round([r EXCEPT !.expn = @ + by], prec, flags, {})

\* The exponent of the lowest bit set.
bf_get_exp_min(a) ==
  IF a.len = 0 THEN 0
  ELSE a.expn - a.len * LIMB_BITS + (CHOOSE k \in 0..LIMB_BITS : a.m % 2^k = 0 /\ a.m % 2^(k + 1) # 0)

\* The quotient of the limbs, two bits longer than asked for, its last bit set when there
\* is a remainder.
DivLimbs(a, b, sign, prec, flags) ==
  LET n    == Max({a.len, InLimbs(prec + 2)})
      na   == n + b.len
      d    == mp_divnorm(Zeros(na - a.len) \o Array(a.m, a.len), Array(b.m, b.len))
      m    == Sticky(Value(d.q), mp_scan_nz(d.r))
  IN  bf_normalize_and_round(Number(sign, a.expn - b.expn + LIMB_BITS, n + 1, m), prec, flags)

bf_div(a, b, prec, flags) ==
  LET sign == IF a.sign = b.sign THEN 0 ELSE 1
  IN  IF bf_is_nan(a) \/ bf_is_nan(b) THEN Done(bf_set_nan, {})
      ELSE IF a.expn = BF_EXP_INF /\ b.expn = BF_EXP_INF THEN Done(bf_set_nan, {"invalid"})
      ELSE IF a.expn = BF_EXP_INF THEN Done(bf_set_inf(sign), {})
      ELSE IF b.expn = BF_EXP_INF THEN Done(bf_set_zero(sign), {})
      ELSE IF a.expn = BF_EXP_ZERO
      THEN IF b.expn = BF_EXP_ZERO THEN Done(bf_set_nan, {"invalid"}) ELSE Done(bf_set_zero(sign), {})
      ELSE IF b.expn = BF_EXP_ZERO THEN Done(bf_set_inf(sign), {"divzero"})
      ELSE DivLimbs(a, b, sign, prec, flags)

\* Mutant: the quotient is computed with one bit too few.
bf_tdivremu_Short(a, b) ==
  LET q == bf_rint(bf_div(a, b, Max({a.expn - b.expn, 2}), Mode("Z")).r, "Z").r
      p == bf_mul(q, b, BF_PREC_INF, Mode("Z")).r
  IN  IF bf_cmpu(a, b) < 0 THEN [q |-> bf_set_ui(0), r |-> a]
      ELSE [q |-> q, r |-> bf_sub(a, p, BF_PREC_INF, Mode("Z")).r]

\* Quotient and remainder of numbers that are not negative.
bf_tdivremu(a, b) ==
  LET q == bf_rint(bf_div(a, b, Max({a.expn - b.expn + 1, 2}), Mode("Z")).r, "Z").r
      p == bf_mul(q, b, BF_PREC_INF, Mode("Z")).r
  IN  IF bf_cmpu(a, b) < 0 THEN [q |-> bf_set_ui(0), r |-> a]
      ELSE [q |-> q, r |-> bf_sub(a, p, BF_PREC_INF, Mode("Z")).r]

\* The quotient rounded as rnd says ("E" is Euclidian division), and the remainder, rounded
\* to prec.  A quotient that is to be rounded up takes one more divisor.
bf_divrem(a, b, prec, flags, rnd) ==
  LET special == a.len = 0 \/ b.len = 0
      q_sign  == IF a.sign = b.sign THEN 0 ELSE 1
      is_ceil == CASE rnd = "D" -> q_sign = 1 [] rnd = "U" -> q_sign = 0 [] rnd = "A" -> TRUE
                   [] rnd = "E" -> a.sign = 1 [] OTHER -> FALSE
      b1      == [b EXCEPT !.sign = 0]
      t       == bf_tdivremu([a EXCEPT !.sign = 0], b1)
      half    == bf_cmpu(t.r, [b1 EXCEPT !.expn = @ - 1])
      odd     == get_bit(t.q.m, t.q.len * LIMB_BITS - t.q.expn) = 1
      more    == /\ t.r.len # 0
                 /\ IF rnd \in {"N", "NA"} THEN half > 0 \/ (half = 0 /\ (rnd = "NA" \/ odd)) ELSE is_ceil
      q       == IF more THEN bf_add_si(t.q, 1, BF_PREC_INF, Mode("Z")).r ELSE t.q
      r       == IF more THEN bf_sub(t.r, b1, BF_PREC_INF, Mode("Z")).r ELSE t.r
      rem     == bf_round([r EXCEPT !.sign = (@ + a.sign) % 2], prec, flags)
  IN  IF special
      THEN [q |-> bf_set_zero(0)] @@
           (IF bf_is_nan(a) \/ bf_is_nan(b) THEN Done(bf_set_nan, {})
            ELSE IF a.expn = BF_EXP_INF \/ b.expn = BF_EXP_ZERO THEN Done(bf_set_nan, {"invalid"})
            ELSE bf_round(a, prec, flags))
      ELSE [q |-> [q EXCEPT !.sign = q_sign]] @@ rem

bf_rem(a, b, prec, flags, rnd) ==
  LET t == bf_divrem(a, b, prec, flags, rnd) IN Done(t.r, t.ret)

-----------------------------------------------------------------------------
\* Mutant: limbs that are not taken in are forgotten.
SqrtLimbs_Forgets(a, prec, flags) ==
  LET n   == (2 * (prec + 2) + 2 * LIMB_BITS - 1) \div (2 * LIMB_BITS)
      n1  == Min({2 * n, a.len})
      top == Zeros(2 * n - n1) \o TopLimbs(a, n1)
      a1  == IF a.expn % 2 = 1 THEN mp_shr(top, 1, 0) ELSE [tab |-> top, k |-> 0]
      s   == mp_sqrtrem(a1.tab)
  IN  bf_round(Number(0, (a.expn + 1) \div 2, n, Sticky(Value(s.s), a1.k # 0 \/ mp_scan_nz(s.r))), prec, flags)

\* The root of the 2 n limbs that give prec + 2 bits of it; the last bit is set when
\* something is left: a bit shifted out, a remainder, or limbs not taken in.
SqrtLimbs(a, prec, flags) ==
  LET n   == (2 * (prec + 2) + 2 * LIMB_BITS - 1) \div (2 * LIMB_BITS)
      n1  == Min({2 * n, a.len})
      top == Zeros(2 * n - n1) \o TopLimbs(a, n1)
      a1  == IF a.expn % 2 = 1 THEN mp_shr(top, 1, 0) ELSE [tab |-> top, k |-> 0]
      s   == mp_sqrtrem(a1.tab)
      res == a1.k # 0 \/ mp_scan_nz(s.r) \/ mp_scan_nz(Low(Array(a.m, a.len), a.len - n1))
  IN  bf_round(Number(0, (a.expn + 1) \div 2, n, Sticky(Value(s.s), res)), prec, flags)

bf_sqrt(a, prec, flags) ==
  IF a.len = 0
  THEN IF a.expn = BF_EXP_INF /\ a.sign = 1 THEN Done(bf_set_nan, {"invalid"})
       ELSE IF bf_is_nan(a) THEN Done(bf_set_nan, {}) ELSE Done(a, {})
  ELSE IF a.sign = 1 THEN Done(bf_set_nan, {"invalid"})
  ELSE SqrtLimbs(a, prec, flags)

\* The integer part of a root and what its square leaves.
bf_sqrtrem(a) ==
  LET r   == bf_rint(bf_sqrt(a, (a.expn + 1) \div 2, Mode("Z")).r, "Z").r
      rem == bf_add(bf_neg(bf_mul(r, r, BF_PREC_INF, Mode("Z")).r), a, BF_PREC_INF, Mode("Z")).r
  IN  IF a.len = 0 \/ a.sign = 1
      THEN [rem |-> bf_set_ui(0)] @@
           (IF a.sign = 1 /\ a.expn # BF_EXP_ZERO THEN Done(bf_set_nan, {"invalid"}) ELSE Done(a, {}))
      ELSE [rem |-> rem] @@ Done(r, IF rem.len # 0 THEN {"inexact"} ELSE {})

\* Square and multiply from the second highest bit of b down, rounding at every step.
bf_pow_ui(a, b, prec, flags) ==
  LET Step(s, i) ==
        LET sq == bf_mul(s.r, s.r, prec, flags)
            by == bf_mul(sq.r, a, prec, flags)
        IN  IF get_bit(b, i) = 1 THEN Done(by.r, s.ret \cup sq.ret \cup by.ret) ELSE Done(sq.r, s.ret \cup sq.ret)
      n_bits == BitLength(b)
  IN  IF b = 0 THEN Done(bf_set_ui(1), {})
      ELSE FoldLeft(Step, Done(a, {}), [i \in 1..(n_bits - 1) |-> n_bits - 1 - i])

-----------------------------------------------------------------------------
\* Logical operations on integers in two's complement: a negative number is replaced by
\* the complement of its predecessor, and a negative result by its predecessor.
bf_logic_op1(a, b, op) == CASE op = "or" -> a | b [] op = "xor" -> a ^^ b [] op = "and" -> a & b

bf_logic_op(a1, b1, op) ==
  LET Sign(x)  == IF x.expn <= 0 THEN 0 ELSE x.sign
      Magnitude(x) == IF Sign(x) = 1 THEN bf_add_si(x, 1, BF_PREC_INF, Mode("Z")).r ELSE x
      a        == Magnitude(a1)
      b        == Magnitude(b1)
      r_sign   == bf_logic_op1(Sign(a1), Sign(b1), op)
      bits     == IF op # "and" \/ r_sign # 0 THEN Max({a.expn, b.expn})
                  ELSE IF Sign(a1) = 0 /\ Sign(b1) = 0 THEN Min({a.expn, b.expn})
                  ELSE IF Sign(a1) = 0 THEN a.expn ELSE b.expn
      l        == InLimbs(Max({bits, 1}))
      Masked(v, sign) == IF sign = 1 THEN Base^l - 1 - v ELSE v
      Integer(x, sign) == Masked(Shift(x.m, x.expn - x.len * LIMB_BITS) % Base^l, sign)
      v        == Masked(bf_logic_op1(Integer(a, Sign(a1)), Integer(b, Sign(b1)), op), r_sign)
      r        == bf_normalize_and_round(Number(r_sign, l * LIMB_BITS, l, v), BF_PREC_INF, Mode("Z")).r
  IN  IF r_sign = 1 THEN bf_add_si(r, -1, BF_PREC_INF, Mode("Z")).r ELSE r

-----------------------------------------------------------------------------
\* A machine integer of so many bits: saturated, or the low bits (mod).  What overflows is
\* reported, but for the least integer, of which only the top limb is looked at.
Wrapped(v, bits) == LET u == v % 2^bits IN IF u >= 2^(bits - 1) THEN u - 2^bits ELSE u

ToInt(a, bits, mod) ==
  LET int_max == 2^(bits - 1) - 1
      top     == Shift(a.m, -(a.len - 1) * LIMB_BITS)
      Narrow(v) == Wrapped(IF a.sign = 1 THEN -v ELSE v, bits)
      least   == a.expn = bits /\ top \div 2^(LIMB_BITS - bits) = 2^(bits - 1)
  IN  IF a.expn >= BF_EXP_INF
      THEN Done(IF mod THEN 0 ELSE IF a.expn = BF_EXP_INF THEN Wrapped(int_max + a.sign, bits) ELSE int_max, {})
      ELSE IF a.expn <= 0 THEN Done(0, {})
      ELSE IF a.expn < bits THEN Done(Narrow(top \div 2^(LIMB_BITS - a.expn)), {})
      ELSE IF mod THEN Done(Narrow(get_bits(a.m, a.len * LIMB_BITS - a.expn)), {})
      ELSE IF a.sign = 1 THEN Done(-int_max - 1, IF least THEN {} ELSE {"overflow"})
      ELSE Done(int_max, {"overflow"})

bf_get_int64(a, mod) == ToInt(a, LIMB_BITS, mod)
bf_get_int32(a, mod) == ToInt(a, LIMB_BITS \div 2, mod)

bf_remquo(a, b, prec, flags, rnd) ==
  LET t == bf_divrem(a, b, prec, flags, rnd) IN [pq |-> bf_get_int64(t.q, TRUE).r] @@ Done(t.r, t.ret)

\* A double: its sign, its exponent field e and its fraction field m.
double_e == 2^DOUBLE_EXP_BITS - 1
double_bias == 2^(DOUBLE_EXP_BITS - 1) - 1

bf_get_float64(a, rnd) ==
  LET flags == [Mode(rnd) EXCEPT !.subnormal = TRUE, !.bits = DOUBLE_EXP_BITS]
      t   == IF bf_is_finite(a) THEN bf_round(a, DOUBLE_BITS, flags) ELSE Done(a, {})
      b   == t.r
      e   == b.expn + double_bias - 1
      Double(exp, frac) == Done([sign |-> b.sign, e |-> exp, m |-> frac], t.ret)
  IN  IF bf_is_nan(a) THEN Done([sign |-> 0, e |-> double_e, m |-> 2^(DOUBLE_BITS - 2)], {})
      ELSE IF b.expn = BF_EXP_INF THEN Double(double_e, 0)
      ELSE IF b.expn = BF_EXP_ZERO THEN Double(0, 0)
      ELSE IF e <= 0 THEN Double(0, b.m \div 2^(LIMB_BITS - DOUBLE_BITS + 1 - e))
      ELSE Double(e, (b.m % 2^(LIMB_BITS - 1)) \div 2^(LIMB_BITS - DOUBLE_BITS))

bf_set_float64(d) ==
  LET frac  == d.m * 2^(LIMB_BITS - DOUBLE_BITS + 1)
      shift == LIMB_BITS - BitLength(frac)
      Normal(e, m) == Number(d.sign, e - double_bias + 1, 1, m)
  IN  IF d.e = double_e THEN IF d.m # 0 THEN bf_set_nan ELSE bf_set_inf(d.sign)
      ELSE IF d.e > 0 THEN Normal(d.e, Base \div 2 + d.m * 2^(LIMB_BITS - DOUBLE_BITS))
      ELSE IF d.m = 0 THEN bf_set_zero(d.sign)
      ELSE Normal(-shift, frac * 2^shift)
=============================================================================

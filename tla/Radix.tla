-------------------------------- MODULE Radix --------------------------------
(***************************************************************************)
(* Numbers to and from text (bf/libbf.c).  A character is the integer the  *)
(* code's to_digit gives for it (letters are digits from 10 on); the few   *)
(* others it looks at have numbers of their own.                           *)
(*                                                                         *)
(* Left out: the decimal numbers (is_dec) that kata never makes, and the   *)
(* spellings of JavaScript and prefixes a caller may ask bf_ftoa for.      *)
(***************************************************************************)
EXTENDS Bf

CONSTANT ZIV_EXTRA_BITS     \* 16: what the first attempt at a rounding adds to the precision

ASSUME RadixAssumption == ZIV_EXTRA_BITS \in Nat \ {0, 1}   \* it grows by its half

NoDigit == 36   PLUS == 37   MINUS == 38   DOT == 39   AT == 40
Nan == <<23, 10, 23>>
Inf == <<18, 23, 15>>

ExtMode(rnd) == [Mode(rnd) EXCEPT !.bits = EXP_BITS_MAX + 1]
ceil_log2(a) == IF a <= 1 THEN 0 ELSE BitLength(a - 1)
ceil_div(a, b) == -((-a) \div b)
PowerOfTwo(radix) == \E k \in 0..LIMB_BITS : radix = 2^k
RadixBits(radix)  == IF PowerOfTwo(radix) THEN ceil_log2(radix) ELSE 0

digits_per_limb(radix) == CHOOSE k \in 1..LIMB_BITS : radix^k <= Base /\ radix^(k + 1) > Base
get_limb_radix(radix)  == radix^digits_per_limb(radix)

\* a1^b by squaring; the powers of ten that fit one limb come from a table, unrounded.
bf_pow_ui_ui(a1, b, prec, flags) ==
  IF a1 = 10 /\ b <= digits_per_limb(10) THEN Done(bf_set_ui(10^b), {})
  ELSE bf_pow_ui(bf_set_ui(a1), b, prec, flags)

Exact(t) == t.r
InfPrec(op(_, _, _, _), a, b) == Exact(op(a, b, BF_PREC_INF, Mode("Z")))

-----------------------------------------------------------------------------
\* A number from its limbs in base radixl, the least significant first: the high part
\* times a power of the base, and the low part of n2 limbs.
Half(n0, level) == ((2 * n0) \div 2^(level + 1) + 1) \div 2

RECURSIVE bf_integer_from_radix_rec(_, _, _, _)
bf_integer_from_radix_rec(tab, level, n0, radixl) ==
  LET n2   == Half(n0, level)
      high == bf_integer_from_radix_rec(High(tab, n2), level + 1, n0, radixl)
      low  == bf_integer_from_radix_rec(Low(tab, n2), level + 1, n0, radixl)
      B    == Exact(bf_pow_ui_ui(radixl, n2, BF_PREC_INF, Mode("Z")))
  IN  IF Len(tab) = 1 THEN bf_set_ui(tab[1])
      ELSE InfPrec(bf_add, InfPrec(bf_mul, high, B), low)

bf_integer_from_radix(tab, radix) == bf_integer_from_radix_rec(tab, 0, Len(tab), get_limb_radix(radix))

\* T * radix^expn, rounded.  The power and the product are rounded to more bits than
\* wanted, and to more still (Ziv) as long as that leaves the result in doubt.
RECURSIVE Ziv(_, _, _, _, _, _)
Ziv(T, radix, expn, prec, flags, extra) ==
  LET e     == IF expn < 0 THEN -expn ELSE expn
      prec1 == prec + extra
      wide  == prec1 + ceil_log2(e) * 2 + 1
      B     == bf_pow_ui_ui(radix, e, wide, ExtMode("N"))
      t     == IF expn < 0 THEN bf_div(T, B.r, wide, ExtMode("N")) ELSE bf_mul(T, B.r, wide, ExtMode("N"))
      ret   == B.ret \cup t.ret
      done  == bf_round(t.r, prec, flags)
  IN  IF "inexact" \in ret /\ ~bf_can_round(t.r, prec, flags.rnd, prec1) /\ bf_is_finite(B.r)
      THEN Ziv(T, radix, expn, prec, flags, extra + extra \div 2)
      ELSE Done(done.r, done.ret \cup (ret \cap {"inexact"}))

\* Infinite precision is meant for exact results: a quotient gets as many bits as T has.
bf_mul_pow_radix(T, radix, expn, prec, flags) ==
  LET B == bf_pow_ui_ui(radix, IF expn < 0 THEN -expn ELSE expn, BF_PREC_INF, Mode("N"))
      t == IF expn < 0 THEN bf_div(T, B.r, T.len * LIMB_BITS, Mode("N"))
           ELSE bf_mul(T, B.r, BF_PREC_INF, Mode("N"))
  IN  IF T.len = 0 THEN Done(T, {})
      ELSE IF expn = 0 THEN bf_round(T, prec, flags)
      ELSE IF prec = BF_PREC_INF THEN Done(t.r, B.ret \cup t.ret)
      ELSE Ziv(T, radix, expn, prec, flags, ZIV_EXTRA_BITS)

-----------------------------------------------------------------------------
\* Reading.  The character at p, and the end of the digits from p on.
CharAt(str, p) == IF p <= Len(str) THEN str[p] ELSE NoDigit
strcasestart(str, p, word) == \A i \in DOMAIN word : CharAt(str, p + i - 1) = word[i]
DigitsEnd(str, p, radix) == Min({q \in p..(Len(str) + 1) : CharAt(str, q) >= radix})

\* The base and where its digits start: a prefix may choose it.
RadixPrefix(str, p, radix, opts) ==
  LET Is(letter) == CharAt(str, p) = 0 /\ CharAt(str, p + 1) = letter
      Prefixed(base) == [radix |-> base, p |-> p + 2, given |-> TRUE]
  IN  IF Is(33) /\ radix \in {0, 16} /\ "no_hex" \notin opts THEN Prefixed(16)
      ELSE IF Is(24) /\ radix = 0 /\ "bin_oct" \in opts THEN Prefixed(8)
      ELSE IF Is(11) /\ radix = 0 /\ "bin_oct" \in opts THEN Prefixed(2)
      ELSE [radix |-> IF radix = 0 THEN 10 ELSE radix, p |-> p, given |-> FALSE]

\* Packs digits into limbs, the most significant first.  shift counts down the bits, or
\* the digits, that still fit in cur_limb.
PerLimb(radix) == IF PowerOfTwo(radix) THEN LIMB_BITS ELSE digits_per_limb(radix)

AddDigit(s, c, radix) ==
  LET radix_bits == RadixBits(radix)
      shift == s.shift - (IF radix_bits # 0 THEN radix_bits ELSE 1)
      cur   == IF radix_bits = 0 THEN s.cur_limb * radix + c ELSE s.cur_limb + Shift(c, shift)
      over  == IF radix_bits = 0 THEN 0 ELSE Shift(c, LIMB_BITS + shift) % Base
  IN  IF shift > 0 THEN [s EXCEPT !.cur_limb = cur, !.shift = shift]
      ELSE [tab |-> Append(s.tab, cur), shift |-> shift + PerLimb(radix),
            cur_limb |-> IF shift < 0 THEN over ELSE 0]

\* Mutant: the last limb is left as it is.
DigitLimbs_Unfilled(digits, radix) ==
  LET s == FoldLeft(LAMBDA t, c : AddDigit(t, c, radix),
                    [tab |-> <<>>, cur_limb |-> 0, shift |-> PerLimb(radix)], digits)
  IN  IF s.shift # PerLimb(radix) THEN Append(s.tab, s.cur_limb) ELSE s.tab

\* The last limb is filled up with zero digits.
DigitLimbs(digits, radix) ==
  LET s == FoldLeft(LAMBDA t, c : AddDigit(t, c, radix),
                    [tab |-> <<>>, cur_limb |-> 0, shift |-> PerLimb(radix)], digits)
      last == s.cur_limb * (IF PowerOfTwo(radix) THEN 1 ELSE radix^s.shift)
  IN  IF s.shift # PerLimb(radix) THEN Append(s.tab, last) ELSE s.tab

\* An exponent at p, and whether it is one of two; NoExponent leaves p.
ParseExponent(str, p, radix) ==
  LET c      == CharAt(str, p)
      binary == c = 25 /\ RadixBits(radix) # 0 /\ radix # 10
      marked == IF radix = 10 THEN c = 14 ELSE c = AT \/ binary
      sign   == CharAt(str, p + 1)
      first  == IF sign \in {PLUS, MINUS} THEN p + 2 ELSE p + 1
      end    == DigitsEnd(str, first, 10)
      limit  == (BF_EXP_NAN - 2 - 9) \div 10
      Digit(s, d) == IF s.over THEN s ELSE IF s.e > limit THEN [s EXCEPT !.over = TRUE]
                     ELSE [s EXCEPT !.e = @ * 10 + d, !.p = @ + 1]
      read   == FoldLeft(Digit, [e |-> 0, over |-> FALSE, p |-> first], SubSeq(str, first, end - 1))
  IN  IF ~marked THEN [expn |-> 0, binary |-> FALSE, overflow |-> FALSE, neg |-> FALSE, p |-> p]
      ELSE [expn |-> IF sign = MINUS THEN -read.e ELSE read.e, binary |-> binary,
            overflow |-> read.over, neg |-> sign = MINUS, p |-> read.p]

\* The number of the digits d, int_len of them before the point.
FromDigits(d, int_len, x, sign, radix, prec, flags, opts) ==
  LET tab  == Reverse(DigitLimbs(d, radix))
      l    == Len(tab)
      bits == RadixBits(radix)
      expn == x.expn - (l * digits_per_limb(radix) - int_len)
      T    == [bf_integer_from_radix(tab, radix) EXCEPT !.sign = sign]
      scaled == (IF x.binary THEN x.expn ELSE x.expn * bits) + int_len * bits
  IN  [pexponent |-> IF bits = 0 /\ l > 0 /\ "exponent" \in opts THEN expn ELSE 0] @@
      (IF bits # 0 THEN bf_normalize_and_round(Number(sign, scaled, Max({l, 1}), Value(tab)), prec, flags)
       ELSE IF l = 0 THEN Done(bf_set_zero(sign), {})
       ELSE IF "exponent" \in opts THEN Done(T, {})
       ELSE bf_mul_pow_radix(T, radix, expn, prec, flags))

\* The number at the start of a text, and where it ends.
bf_atof2(str, radix0, prec, flags, opts) ==
  LET names   == "no_nan_inf" \notin opts /\ radix0 <= 16
      sign    == IF CharAt(str, 1) = MINUS THEN 1 ELSE 0
      p_start == IF CharAt(str, 1) \in {PLUS, MINUS} THEN 2 ELSE 1
      base    == RadixPrefix(str, p_start, radix0, opts)
      radix   == base.radix
      p0      == Min({q \in base.p..(Len(str) + 1) : CharAt(str, q) # 0})
      end1    == DigitsEnd(str, p0, radix)
      dotted  == CharAt(str, end1) = DOT /\ (end1 > p_start \/ CharAt(str, end1 + 1) < radix)
      end     == IF dotted THEN DigitsEnd(str, end1 + 1, radix) ELSE end1
      digits  == SubSeq(str, p0, end1 - 1) \o (IF dotted THEN SubSeq(str, end1 + 1, end - 1) ELSE <<>>)
      x       == ParseExponent(str, end, radix)
      Plain(t, p) == [next |-> p, pexponent |-> 0] @@ t
  IN  IF names /\ strcasestart(str, 1, Nan) THEN Plain(Done(bf_set_nan, {}), 4)
      ELSE IF base.given /\ CharAt(str, base.p) >= radix THEN Plain(Done(bf_set_nan, {}), base.p)
      ELSE IF names /\ CharAt(str, p_start) # 0 /\ strcasestart(str, p_start, Inf)
      THEN Plain(Done(bf_set_inf(sign), {}), p_start + 3)
      ELSE IF end = p_start THEN Plain(Done(bf_set_nan, {}), end)
      ELSE IF x.overflow
      THEN Plain(IF x.neg THEN Done(bf_set_zero(sign), {"underflow", "inexact"})
                 ELSE Done(bf_set_inf(sign), {"overflow", "inexact"}), x.p)
      ELSE [next |-> x.p] @@ FromDigits(digits, end1 - p0, x, sign, radix, prec, flags, opts)

bf_atof(str, radix, prec, flags) == bf_atof2(str, radix, prec, flags, {})
-----------------------------------------------------------------------------
\* Writing.  a * log2(radix), or a / log2(radix), of which the code's tables have enough
\* bits: rounded down, and one more when a ceiling is asked for, since it is no integer.
bf_mul_log2_radix(a1, radix, is_inv, is_ceil1) ==
  LET a       == IF a1 < 0 THEN -a1 ELSE a1
      is_ceil == is_ceil1 # (a1 < 0)
      bits    == RadixBits(radix)
      floor   == IF is_inv THEN CHOOSE k \in 0..a : radix^k <= 2^a /\ radix^(k + 1) > 2^a
                 ELSE BitLength(radix^a) - 1
      r       == IF bits # 0 /\ is_inv THEN (a + IF is_ceil THEN bits - 1 ELSE 0) \div bits
                 ELSE IF bits # 0 THEN a * bits
                 ELSE floor + IF is_ceil THEN 1 ELSE 0
  IN  IF a1 < 0 THEN -r ELSE r

\* Mutant: the estimated quotient is taken as it is.
Adjust_None(R, B, q_add) == [R |-> R, q_add |-> q_add]

\* The remainder of an estimated quotient is brought into 0..B - 1.
RECURSIVE Adjust(_, _, _)
Adjust(R, B, q_add) ==
  IF R.sign = 1 /\ R.len # 0 THEN Adjust(InfPrec(bf_add, R, B), B, q_add - 1)
  ELSE IF bf_cmpu(R, B) >= 0 THEN Adjust(InfPrec(bf_sub, R, B), B, q_add + 1)
  ELSE [R |-> R, q_add |-> q_add]

\* An integer as n limbs in base radixl: above two limbs, quotient and remainder by a
\* power of the base, the quotient a product with the inverse of the power.
RECURSIVE bf_integer_to_radix_rec(_, _, _, _, _)
bf_integer_to_radix_rec(a, n, level, n0, radixl) ==
  LET pos   == a.len * LIMB_BITS - a.expn
      t     == get_bits(a.m, pos + LIMB_BITS) * Base + get_bits(a.m, pos)
      bits  == ceil_log2(radixl)
      n2    == Half(n0, level)
      n1    == n - n2
      B     == Exact(bf_pow_ui_ui(radixl, n2, BF_PREC_INF, Mode("Z")))
      B_inv == Exact(bf_div(bf_set_ui(1), B, (n2 + 1) * bits + 2, Mode("N")))
      Q     == Exact(bf_rint(Exact(bf_mul(a, B_inv, n1 * bits, Mode("N"))), "Z"))
      adj   == Adjust(InfPrec(bf_sub, a, InfPrec(bf_mul, Q, B)), B, 0)
      Q1    == IF adj.q_add = 0 THEN Q ELSE Exact(bf_add_si(Q, adj.q_add, BF_PREC_INF, Mode("Z")))
  IN  IF n = 1 THEN <<get_bits(a.m, pos)>>
      ELSE IF n = 2 THEN <<t % radixl, t \div radixl>>
      ELSE bf_integer_to_radix_rec(adj.R, n2, level + 1, n0, radixl)
           \o bf_integer_to_radix_rec(Q1, n1, level + 1, n0, radixl)

bf_integer_to_radix(a, n, radixl) == bf_integer_to_radix_rec(a, n, 0, n, radixl)

\* a * radix^(P - E) as an integer: with Ziv's loop again, here up to the radix point.
RECURSIVE ScaledInteger(_, _, _, _, _, _)
ScaledInteger(a, radix, P, E, rnd, extra) ==
  LET e    == IF P < E THEN E - P ELSE P - E
      prec == bf_mul_log2_radix(P, radix, FALSE, TRUE) + extra
      wide == prec + ceil_log2(e) * 2 + 1
      B    == bf_pow_ui_ui(radix, e, wide, ExtMode("N"))
      t    == IF P < E THEN bf_div(a, B.r, wide, ExtMode("N")) ELSE bf_mul(B.r, a, wide, ExtMode("N"))
  IN  IF "inexact" \in B.ret \cup t.ret /\ ~bf_can_round(t.r, t.r.expn, rnd, prec)
      THEN ScaledInteger(a, radix, P, E, rnd, extra + extra \div 2)
      ELSE Exact(bf_rint(t.r, rnd))

\* P digits of a and the exponent E they have, the least that makes P digits enough.
RECURSIVE WithExponent(_, _, _, _, _)
WithExponent(a, radix, P, E, rnd) ==
  LET r == ScaledInteger(a, radix, P, E, rnd, ZIV_EXTRA_BITS)
      B == Exact(bf_pow_ui_ui(radix, P, BF_PREC_INF, Mode("Z")))
  IN  IF bf_cmpu(r, B) < 0 THEN [r |-> r, E |-> E] ELSE WithExponent(a, radix, P, E + 1, rnd)

\* Mutant: the exponent is not corrected when rounding makes one more digit.
bf_convert_to_radix_Once(a, radix, P, rnd) ==
  LET E == 1 + bf_mul_log2_radix(a.expn - 1, radix, TRUE, FALSE)
  IN  IF a.len = 0 THEN [r |-> a, E |-> 0]
      ELSE [r |-> ScaledInteger(a, radix, P, E, rnd, ZIV_EXTRA_BITS), E |-> E]

bf_convert_to_radix(a, radix, P, rnd) ==
  IF a.len = 0 THEN [r |-> a, E |-> 0]
  ELSE WithExponent(a, radix, P, 1 + bf_mul_log2_radix(a.expn - 1, radix, TRUE, FALSE), rnd)

bf_convert_to_radix_fixed(a, radix, P, E, rnd) ==
  IF a.len = 0 THEN a ELSE ScaledInteger(a, radix, P, E, rnd, ZIV_EXTRA_BITS)

-----------------------------------------------------------------------------
limb_to_a(n, radix, len) == [i \in 1..len |-> (n \div radix^(len - i)) % radix]

\* The bits of a digit of a power of two, counted from the radix point.
BitDigit(a, radix_bits, i) ==
  get_bits(a.m, a.len * LIMB_BITS + ((-a.expn) % radix_bits) - i * radix_bits) % 2^radix_bits

\* So many digits of a, with a point after dot_pos of them unless that is all.
output_digits(a, radix, n_digits, dot_pos) ==
  LET bits == RadixBits(radix)
      dpl  == digits_per_limb(radix)
      n    == (n_digits + dpl - 1) \div dpl
      tab  == bf_integer_to_radix(a, n, get_limb_radix(radix))
      all  == FoldLeft(LAMBDA s, l : limb_to_a(l, radix, dpl) \o s, <<>>, tab)
      digits == IF bits # 0 THEN [i \in 1..n_digits |-> BitDigit(a, bits, i)]
                ELSE High(all, n * dpl - n_digits)
  IN  IF dot_pos >= n_digits THEN digits
      ELSE Low(digits, dot_pos) \o <<DOT>> \o High(digits, dot_pos)

\* prec digits after the point.
FtoaFrac(a2, radix, prec, rnd) ==
  LET bits  == RadixBits(radix)
      a1    == Exact(bf_round(a2, prec * bits, [Mode(rnd) EXCEPT !.radpnt = TRUE]))
      n     == ceil_div(a1.expn, bits)
      n1    == 1 + bf_mul_log2_radix(Max({a2.expn, 0}), radix, TRUE, TRUE)   \* one more, for the rounding
      c     == bf_convert_to_radix_fixed([a2 EXCEPT !.sign = 0], radix, n1 + prec, n1, rnd)
      text  == output_digits(c, radix, n1 + prec, n1)
      zeros == {i \in 0..(n1 - 1) : \A j \in 1..i : text[j] = 0}
  IN  IF bits = 0 THEN High(text, Max(zeros))          \* the leading zeros go, but one
      ELSE IF a1.expn = BF_EXP_ZERO THEN <<0>> \o (IF prec > 0 THEN <<DOT>> \o Zeros(prec) ELSE <<>>)
      ELSE IF n > 0 THEN output_digits(a1, radix, prec + n, n)
      ELSE <<0, DOT>> \o Zeros(-n) \o (IF prec + n > 0 THEN output_digits(a1, radix, prec + n, prec + n) ELSE <<>>)

\* The least number of digits that reads back as a, by dichotomy.
RECURSIVE FewestDigits(_, _, _, _, _, _)
FewestDigits(a, radix, prec, rnd, min, max) ==
  LET mid  == (min + max) \div 2
      c    == bf_convert_to_radix(a, radix, mid, rnd)
      back == bf_mul_pow_radix(c.r, radix, c.E - mid, prec, Mode("N")).r
  IN  IF min >= max THEN max
      ELSE IF bf_cmpu(back, a) = 0 THEN FewestDigits(a, radix, prec, rnd, min, mid)
      ELSE FewestDigits(a, radix, prec, rnd, mid + 1, max)

\* The digits of a number in free or fixed format: their number n_digits, the number n of
\* them before the point, and n_max, from where on an exponent is written.
FreeDigits(a2, radix, prec, rnd, fmt) ==
  LET bits  == RadixBits(radix)
      a     == [a2 EXCEPT !.sign = 0]
      align == (-a2.expn) % bits
      pos   == a2.len * LIMB_BITS + align
      full  == 1 + bf_mul_log2_radix(prec, radix, TRUE, TRUE)
      count == CASE fmt = "fixed" -> prec
                 [] fmt = "free" /\ bits = 0 -> full
                 [] fmt = "free_min" /\ bits = 0 -> FewestDigits(a, radix, prec, rnd, 1, full)
                 [] OTHER -> Max({1} \cup {i \in 1..ceil_div(pos, bits) : BitDigit(a2, bits, i) # 0})
      c     == bf_convert_to_radix(a, radix, count, rnd)
      a1    == IF fmt = "fixed" THEN Exact(bf_round(a2, prec * bits - align, Mode(rnd))) ELSE a2
      n_max == CASE fmt = "fixed" -> prec [] bits = 0 -> full + 4 [] OTHER -> count + 4
  IN  [n_digits |-> count, n_max |-> n_max] @@
      (IF bits = 0 THEN [a1 |-> c.r, n |-> c.E] ELSE [a1 |-> a1, n |-> ceil_div(a1.expn, bits)])

\* A decimal number, as printf writes it.
Decimal(k) ==
  LET v == IF k < 0 THEN -k ELSE k
      len == CHOOSE d \in 1..8 : v < 10^d /\ (d = 1 \/ v >= 10^(d - 1))
  IN  (IF k < 0 THEN <<MINUS>> ELSE <<>>) \o limb_to_a(v, 10, len)

FtoaFree(a2, radix, prec, rnd, fmt) ==
  LET d     == FreeDigits(a2, radix, prec, rnd, fmt)
      zero  == d.a1.expn = BF_EXP_ZERO
      n     == IF zero THEN 1 ELSE d.n
      bits  == RadixBits(radix)
      exponent == IF bits # 0 /\ radix <= 16 THEN <<25>> \o Decimal((n - 1) * bits)
                  ELSE <<IF radix <= 10 THEN 14 ELSE AT>> \o Decimal(n - 1)
      Digits(dot) == output_digits(d.a1, radix, d.n_digits, dot)
  IN  IF zero /\ fmt # "fixed" THEN <<0>>
      ELSE IF n <= -6 \/ n > d.n_max THEN Digits(1) \o exponent
      ELSE IF n <= 0 THEN <<0, DOT>> \o Zeros(-n) \o Digits(d.n_digits)
      ELSE IF d.n_digits <= n THEN Digits(d.n_digits) \o Zeros(n - d.n_digits)
      ELSE Digits(n)

\* kint is written with bf_ftoa in base 10 as "frac" with no digits after the point,
\* kfloat as "free_min" with the precision of its limbs.
bf_ftoa(a, radix, prec, rnd, fmt) ==
  IF bf_is_nan(a) THEN Nan
  ELSE (IF a.sign = 1 THEN <<MINUS>> ELSE <<>>) \o
       (IF a.expn = BF_EXP_INF THEN Inf
        ELSE IF fmt = "frac" THEN FtoaFrac(a, radix, prec, rnd)
        ELSE FtoaFree(a, radix, prec, rnd, fmt))
=============================================================================

------------------------------- MODULE Numbers -------------------------------
(***************************************************************************)
(* A caller of the arithmetic under kata: one call, of which the result is *)
(* compared with a definition over the integers.  The definitions know     *)
(* nothing of limbs: a rounded result is the number of the wanted          *)
(* precision next to the exact one, which is only ever compared with       *)
(* multiples of powers of two.                                             *)
(***************************************************************************)
EXTENDS Knum, Kmem

CONSTANT Args   \* for the name of a call, the arguments it is made with

VARIABLES call, result
vars == <<call, result>>

\* A call about to be made, and one that has returned.
Init == call \in {[op |-> op, state |-> "ready"] : op \in DOMAIN Args} /\ result = <<>>
Returned == call.state = "returned"

Call(op, F(_)) ==
  /\ call = [op |-> op, state |-> "ready"]
  /\ \E x \in Args[op] : call' = [op |-> op, state |-> "returned", x |-> x] /\ result' = F(x)

\* Rounding: a, [b,] prec, flags.
Add     == Call("add", LAMBDA x : bf_add(x.a, x.b, x.prec, x.flags))
Sub     == Call("sub", LAMBDA x : bf_sub(x.a, x.b, x.prec, x.flags))
Mul     == Call("mul", LAMBDA x : bf_mul(x.a, x.b, x.prec, x.flags))
Div     == Call("div", LAMBDA x : bf_div(x.a, x.b, x.prec, x.flags))
Sqrt    == Call("sqrt", LAMBDA x : bf_sqrt(x.a, x.prec, x.flags))
Round   == Call("round", LAMBDA x : bf_round(x.a, x.prec, x.flags))
Mul2exp == Call("mul_2exp", LAMBDA x : bf_mul_2exp(x.a, x.e, x.prec, x.flags))
ToDouble == Call("get_float64", LAMBDA x : bf_get_float64(x.a, x.rnd))
FromDouble == Call("set_float64", LAMBDA x : bf_set_float64(x.d))
CanRound == Call("can_round", LAMBDA x : bf_can_round(x.a, x.prec, x.rnd, x.k))

\* Integers.
Compare == Call("cmp", LAMBDA x : [cmp |-> bf_cmp(x.a, x.b), full |-> bf_cmp_full(x.a, x.b),
                                   least |-> bf_get_exp_min(x.a)])
DivRem  == Call("divrem", LAMBDA x : bf_divrem(x.a, x.b, BF_PREC_INF, Mode("Z"), x.rnd)
                                     @@ [rem |-> bf_rem(x.a, x.b, BF_PREC_INF, Mode("Z"), x.rnd).r,
                                         pq  |-> bf_remquo(x.a, x.b, BF_PREC_INF, Mode("Z"), x.rnd).pq])
Logic   == Call("logic", LAMBDA x : bf_logic_op(x.a, x.b, x.op))
SqrtRem == Call("sqrtrem", LAMBDA x : bf_sqrtrem(x.a))
GetInt  == Call("get_int", LAMBDA x : IF x.bits = LIMB_BITS THEN bf_get_int64(x.a, x.mod) ELSE bf_get_int32(x.a, x.mod))
Power   == Call("pow_ui", LAMBDA x : bf_mul_si(bf_pow_ui(x.a, x.b, BF_PREC_INF, Mode("Z")).r, x.by, BF_PREC_INF, Mode("Z")))

\* Text: reading, and writing.
Read    == Call("atof", LAMBDA x : bf_atof2(x.str, x.radix, x.prec, x.flags, x.opts))
Write   == Call("ftoa", LAMBDA x : bf_ftoa(x.a, x.radix, x.prec, x.rnd, x.fmt))

\* Objects: an operator on two of them, an int or a float made of text, the text of an int.
Operator == Call("kop", LAMBDA x : CASE x.op = "add" -> kop_add(x.a, x.b)
                                     [] x.op = "mul" -> kop_mul(x.a, x.b, TRUE)
                                     [] x.op = "div" -> kop_div(x.a, x.b)
                                     [] x.op = "fdiv" -> kop_fdiv(x.a, x.b))
MakeInt  == Call("kint", LAMBDA x : kint_new(x.str, 10))
MakeFloat == Call("kfloat", LAMBDA x : kfloat_new(x.str, 10, x.prec))
WriteInt == Call("show", LAMBDA x : kint_text(x))

\* The primes of mem/init.c.
Prime   == Call("prime", LAMBDA x : [is |-> kmem_isprime(x), next |-> kmem_nextprime(x)])

Next ==
  \/ Add \/ Sub \/ Mul \/ Div \/ Sqrt \/ Round \/ Mul2exp \/ ToDouble \/ FromDouble \/ CanRound
  \/ Compare \/ DivRem \/ Logic \/ SqrtRem \/ GetInt \/ Power \/ Read \/ Write \/ Operator \/ MakeInt \/ MakeFloat \/ WriteInt \/ Prime

Spec == Init /\ [][Next]_vars

-----------------------------------------------------------------------------
\* x * 2^i <= y, and the reverse, for integers that are not negative.
Below(x, i, y) == IF i >= 0 THEN x <= Shift(y, -i) ELSE (x = 0 \/ Shift(x - 1, i) < y)
Above(x, i, y) == Below(y, -i, x)
Same(x, i, y)  == Below(x, i, y) /\ Above(x, i, y)

\* The power of two a number is a multiple of, and the integer at such a power.
LowExp(a) == IF a.len = 0 THEN 0 ELSE a.expn - a.len * LIMB_BITS
IntAt(a, q) == Shift(a.m, LowExp(a) - q) * (1 - 2 * a.sign)
Common(a, b) == IF a.len = 0 THEN LowExp(b) ELSE IF b.len = 0 THEN LowExp(a) ELSE Min({LowExp(a), LowExp(b)})
Abs(n) == IF n < 0 THEN -n ELSE n
SignOf(a) == IF a.len = 0 THEN 0 ELSE 1 - 2 * a.sign

\* The exact result of a call: (n / d) * 2^q, or its root.
Ratio(n, d, q) == [n |-> Abs(n), d |-> d, q |-> q, neg |-> n < 0, root |-> FALSE]
ExactSum(a, b) == LET q == Common(a, b) IN Ratio(IntAt(a, q) + IntAt(b, q), 1, q)
ExactOf(x) == Ratio(IntAt(x, LowExp(x)), 1, LowExp(x))
ExactResult ==
  LET x == call.x
  IN  CASE call.op = "add" -> ExactSum(x.a, x.b)
        [] call.op = "sub" -> ExactSum(x.a, bf_neg(x.b))
        [] call.op = "mul" -> Ratio(IntAt(x.a, LowExp(x.a)) * IntAt(x.b, LowExp(x.b)), 1, LowExp(x.a) + LowExp(x.b))
        [] call.op = "div" -> Ratio(SignOf(x.b) * IntAt(x.a, LowExp(x.a)), x.b.m, LowExp(x.a) - LowExp(x.b))
        [] call.op = "sqrt" -> [ExactOf(x.a) EXCEPT !.root = TRUE]
        [] call.op \in {"round", "get_float64"} -> ExactOf(x.a)
        [] call.op = "mul_2exp" -> [ExactOf(x.a) EXCEPT !.q = @ + x.e]
        [] call.op = "atof" -> x.value

\* k * 2^u is at most, or at least, the absolute value of x.
AtMost(k, u, x)  == IF x.root THEN Below(k * k, 2 * u - x.q, x.n) ELSE Below(k * x.d, u - x.q, x.n)
AtLeast(k, u, x) == IF x.root THEN Above(k * k, 2 * u - x.q, x.n) ELSE Above(k * x.d, u - x.q, x.n)

\* The exponent of x: 2^(e - 1) <= x < 2^e.
ExponentOf(x) ==
  LET near == BitLength(x.n) - BitLength(x.d) + x.q
      e    == IF x.root THEN near \div 2 ELSE near
  IN  CHOOSE i \in (e - 1)..(e + 1) : AtMost(1, i - 1, x) /\ ~AtMost(1, i, x)

\* The unit that a result of so many bits has.
E_max(flags) == 2^(flags.bits - 1)
E_min(flags) == 3 - E_max(flags)
Unit(x, prec, flags) ==
  IF flags.radpnt THEN -prec
  ELSE IF flags.subnormal THEN Max({ExponentOf(x), E_min(flags)}) - prec
  ELSE ExponentOf(x) - prec

\* x in units of 2^u, rounded.
Rounded(x, u, rnd) ==
  LET k     == IF x.root THEN CHOOSE i \in 0..1024 : AtMost(i, u, x) /\ ~AtMost(i + 1, u, x)
               ELSE IF x.q >= u THEN Shift(x.n, x.q - u) \div x.d ELSE Shift(x.n \div x.d, x.q - u)
      exact == AtLeast(k, u, x)
      tie   == AtMost(2 * k + 1, u - 1, x) /\ AtLeast(2 * k + 1, u - 1, x)
      up    == CASE rnd = "Z" -> FALSE
                 [] rnd = "A" -> ~exact
                 [] rnd = "D" -> ~exact /\ x.neg
                 [] rnd = "U" -> ~exact /\ ~x.neg
                 [] rnd = "NA" -> AtMost(2 * k + 1, u - 1, x)
                 [] rnd = "N" -> AtMost(2 * k + 1, u - 1, x) /\ (tie => k % 2 = 1)
  IN  [k |-> IF up THEN k + 1 ELSE k, exact |-> exact]
-----------------------------------------------------------------------------
\* What a result stands for: m * 2^q, an infinity or NaN.
Outcome(r) == [kind |-> IF bf_is_nan(r) THEN "nan" ELSE IF bf_is_finite(r) THEN "finite" ELSE "inf",
               neg |-> r.sign = 1, m |-> r.m, q |-> LowExp(r)]
OutcomeOfDouble(d) ==
  LET q == Max({d.e, 1}) - double_bias - DOUBLE_BITS + 1
  IN  [kind |-> IF d.e < double_e THEN "finite" ELSE IF d.m = 0 THEN "inf" ELSE "nan",
       neg |-> d.sign = 1, m |-> IF d.e = 0 THEN d.m ELSE 2^(DOUBLE_BITS - 1) + d.m, q |-> q]
Got == IF call.op = "get_float64" THEN OutcomeOfDouble(result.r) ELSE Outcome(result.r)

Roundings == {"add", "sub", "mul", "div", "sqrt", "round", "mul_2exp", "get_float64", "atof"}
WantedFlags == IF call.op = "get_float64" THEN [Mode(call.x.rnd) EXCEPT !.subnormal = TRUE, !.bits = DOUBLE_EXP_BITS]
               ELSE call.x.flags
WantedPrec == IF call.op = "get_float64" THEN DOUBLE_BITS ELSE call.x.prec

Operands == {call.x[f] : f \in DOMAIN call.x \cap {"a", "b"}}
HasExact ==
  /\ Returned /\ call.op \in Roundings
  /\ \A a \in Operands : bf_is_finite(a)
  /\ call.op = "div" => call.x.b.len > 0
  /\ call.op = "sqrt" => call.x.a.sign = 0
  /\ call.op = "atof" => call.x.kind = "number"

\* The result for a rounded value k * 2^u: too large, too small or itself.
TooLarge(k, u) == Above(k, u - E_max(WantedFlags), 1)
TooSmall(k, u) == ~Above(k, u - E_min(WantedFlags) + 1, 1)
Delivers(k, u, x) ==
  LET towards0 == WantedFlags.rnd \in {"Z", "F"} \cup (IF x.neg THEN {"U"} ELSE {"D"})
      Is(m, q) == Got.kind = "finite" /\ (IF m = 0 THEN Got.m = 0 ELSE Got.m > 0 /\ Same(Got.m, Got.q - q, m))
  IN  IF TooLarge(k, u)
      THEN IF towards0 THEN Is(2^WantedPrec - 1, E_max(WantedFlags) - WantedPrec) ELSE Got.kind = "inf"
      ELSE IF TooSmall(k, u) /\ ~WantedFlags.subnormal THEN Is(0, 0) ELSE Is(k, u)

\* Less than two units of 2^u away from x: a product for BF_RNDF, of which bf_mul reads
\* only the high limbs of its operands, is not always next to the exact one.
Near(u, x) ==
  LET q == Min({Got.q, u, x.q})
  IN  Got.kind = "finite" /\ Got.m > 0 /\ Abs(Shift(Got.m, Got.q - q) - Shift(x.n, x.q - q)) < Shift(2, u - q)

\* Every operation returns the number of the precision asked for that its rounding mode
\* picks next to the exact result (one of the two next to it for BF_RNDF, near it for a
\* product), within the range of exponents, subnormals included; so does text that is read.
RoundedRight ==
  HasExact =>
    LET x == ExactResult
        u == Unit(x, WantedPrec, WantedFlags)
        f == Rounded(x, u, "Z")
    IN  IF x.n = 0 THEN Got.kind = "finite" /\ Got.m = 0
        ELSE /\ Got.neg = x.neg
             /\ IF WantedPrec = BF_PREC_INF THEN AtMost(Got.m, Got.q, x) /\ AtLeast(Got.m, Got.q, x)
                ELSE IF WantedFlags.rnd = "F"
                THEN Delivers(f.k, u, x) \/ (~f.exact /\ Delivers(f.k + 1, u, x)) \/ (call.op = "mul" /\ Near(u, x))
                ELSE Delivers(Rounded(x, u, WantedFlags.rnd).k, u, x)

\* The status tells whether the result is the exact one, left the range of exponents, or
\* has no value: bits lost below the limbs that were computed are not forgotten.
StatusRight ==
  Returned /\ call.op \in Roundings =>
    LET x == ExactResult
        u == Unit(x, WantedPrec, WantedFlags)
        r == Rounded(x, u, WantedFlags.rnd)
        Flag(f) == f \in result.ret
    IN  /\ call.op # "atof" => (Flag("invalid") <=> (Got.kind = "nan" /\ \A a \in Operands : ~bf_is_nan(a)))
        /\ Flag("divzero") <=> (call.op = "div" /\ call.x.b.expn = BF_EXP_ZERO /\ bf_is_finite(call.x.a) /\ call.x.a.len > 0)
        /\ HasExact /\ WantedFlags.rnd # "F" =>
             IF x.n = 0 \/ WantedPrec = BF_PREC_INF THEN ~Flag("inexact")
             ELSE /\ Flag("inexact") <=> (~r.exact \/ TooLarge(r.k, u) \/ (TooSmall(r.k, u) /\ ~WantedFlags.subnormal))
                  /\ Flag("overflow") <=> TooLarge(r.k, u)
                  /\ ~WantedFlags.radpnt => (Flag("underflow") <=> (TooSmall(r.k, u) /\ Flag("inexact")))

\* A number has its top bit set and no limb to spare, whatever made it.
Canonical(a) ==
  /\ a.sign \in {0, 1}
  /\ IF a.len = 0 THEN a.m = 0 /\ a.expn \in {BF_EXP_ZERO, BF_EXP_INF, BF_EXP_NAN}
     ELSE a.m \in (Base^a.len \div 2)..(Base^a.len - 1) /\ a.m % Base # 0
NumbersTypeOK ==
  Returned /\ call.op \in (Roundings \ {"get_float64"}) \cup {"divrem", "sqrtrem"} => Canonical(result.r)

-----------------------------------------------------------------------------
\* When bf_can_round says so, every number nearer to a than 2^(EXP(a) - k) is rounded to
\* the same number as a: what both of Ziv's loops stop on.
CanRoundSound ==
  Returned /\ call.op = "can_round" /\ result =>
    LET x == call.x
        q == Min({LowExp(x.a), x.a.expn - x.k}) - 2
        n == Shift(x.a.m, LowExp(x.a) - q)
        step == 2^(x.a.expn - x.k - q)
        At(d) == [ExactOf(x.a) EXCEPT !.n = n + d, !.q = q]
        RoundedAt(d) == LET u == Unit(At(d), x.prec, Mode(x.rnd)) IN [k |-> Rounded(At(d), u, x.rnd).k, u |-> u]
        Agree(s, t) == IF s.u >= t.u THEN Same(s.k, s.u - t.u, t.k) ELSE Same(t.k, t.u - s.u, s.k)
    IN  x.rnd # "F" => \A d \in {1 - step, -(step \div 2), -1, 1, step \div 2, step - 1} : Agree(RoundedAt(d), RoundedAt(0))

\* bits of an integer in two's complement
Bit(v, i) == (v \div 2^i) % 2
LogicBit(p, q, op) == CASE op = "or" -> p = 1 \/ q = 1 [] op = "xor" -> p # q [] op = "and" -> p = 1 /\ q = 1

\* The quotient and the remainder that a rounding mode asks for, in units of 2^q.
DivisionRight(x, r) ==
  LET q == Common(x.a, x.b)
      A == IntAt(x.a, q)
      B == IntAt(x.b, q)
      Q == IntAt(r.q, 0)
      R == IntAt(r.r, q)
      Opposite(v, w) == (v < 0) # (w < 0)
  IN  /\ A = Q * B + R /\ Abs(R) < Abs(B)
      /\ r.rem = r.r /\ (r.pq - Q) % Base = 0
      /\ CASE x.rnd = "N"  -> 2 * Abs(R) <= Abs(B) /\ (2 * Abs(R) = Abs(B) => Q % 2 = 0)
           [] x.rnd = "NA" -> 2 * Abs(R) <= Abs(B) /\ (2 * Abs(R) = Abs(B) => Opposite(R, A))
           [] OTHER -> R # 0 =>
                CASE x.rnd = "Z" -> ~Opposite(R, A) [] x.rnd = "A" -> Opposite(R, A)
                  [] x.rnd = "D" -> ~Opposite(R, B) [] x.rnd = "U" -> Opposite(R, B)
                  [] x.rnd = "E" -> R > 0

\* What has an exact result gets it: order, division with remainder in every rounding mode,
\* logic on two's complement, roots with remainder, powers, machine integers; and a text is
\* read up to its end.
ExactRight ==
  Returned =>
  LET x == call.x
  IN  /\ call.op = "divrem" => DivisionRight(x, result)
      /\ call.op = "logic" => \A i \in 0..12 :
            (Bit(IntAt(result, 0), i) = 1) = LogicBit(Bit(IntAt(x.a, 0), i), Bit(IntAt(x.b, 0), i), x.op)
      /\ call.op = "sqrtrem" =>
            LET s == IntAt(result.r, 0)
                rem == IntAt(result.rem, 0)
            IN  IntAt(x.a, 0) = s * s + rem /\ rem \in 0..(2 * s) /\ (rem = 0) = (result.ret = {})
      /\ call.op = "pow_ui" => IntAt(result.r, 0) = x.by * IntAt(x.a, 0)^x.b
      /\ call.op = "set_float64" => LET d == OutcomeOfDouble(x.d) IN
            d.kind = Outcome(result).kind /\ (d.m > 0 /\ d.kind = "finite" => d.neg = (result.sign = 1) /\ Same(result.m, LowExp(result) - d.q, d.m))
      /\ call.op = "atof" => /\ result.next = x.next
                            /\ x.kind \in {"number", IF Got.kind = "finite" /\ Got.m = 0 THEN "zero" ELSE Got.kind}
      /\ call.op = "get_int" =>
            LET v == IntAt(x.a, 0)
                over == v < -2^(x.bits - 1) \/ v >= 2^(x.bits - 1)
            IN  /\ result.r \in -2^(x.bits - 1)..(2^(x.bits - 1) - 1)
                /\ IF x.mod THEN (result.r - v) % 2^x.bits = 0 /\ result.ret = {}
                   ELSE (result.ret # {}) = over /\ (IF over THEN (result.r < 0) = (v < 0) /\ Abs(2 * result.r + 1) = 2^x.bits - 1
                                                      ELSE result.r = v)
      /\ call.op = "cmp" /\ bf_is_finite(x.a) /\ bf_is_finite(x.b) =>
            LET q == Common(x.a, x.b)
                d == IntAt(x.a, q) - IntAt(x.b, q)
            IN  /\ result.cmp = (IF d = 0 THEN 0 ELSE IF d < 0 THEN -1 ELSE 1)
                /\ result.full = (IF d = 0 THEN x.b.sign - x.a.sign ELSE result.cmp)
                /\ x.a.len > 0 => Shift(x.a.m, LowExp(x.a) - result.least) % 2 = 1

-----------------------------------------------------------------------------
\* What a text spells: [-] digits [. digits] [mark exponent].
Horner(digits, base) == FoldLeft(LAMBDA v, d : v * base + d, 0, digits)
Digits(text) == SelectSeq(text, LAMBDA c : c < NoDigit)
Spelled(text, radix) ==
  LET mark  == IF RadixBits(radix) # 0 THEN 25 ELSE 14
      neg   == text[1] = MINUS
      body  == IF neg THEN Tail(text) ELSE text
      marks == {i \in DOMAIN body : body[i] = mark /\ radix <= mark}
      end   == Min(marks \cup {Len(body) + 1}) - 1
      dots  == {i \in 1..end : body[i] = DOT}
      power == IF marks = {} THEN 0
               ELSE Horner(Digits(High(body, end + 1)), 10) * (IF body[end + 2] = MINUS THEN -1 ELSE 1)
      e     == (IF RadixBits(radix) # 0 THEN 0 ELSE power) - (IF dots = {} THEN 0 ELSE end - Min(dots))
      n     == Horner(Digits(Low(body, end)), radix)
  IN  [neg |-> neg, n |-> n, e |-> e, digits |-> Digits(Low(body, end)),
       value |-> [Ratio(IF e > 0 THEN n * radix^e ELSE n, IF e < 0 THEN radix^(-e) ELSE 1,
                        IF RadixBits(radix) # 0 THEN power ELSE 0) EXCEPT !.neg = neg]]

\* Significant digits of a text, and whether a value is read back as a.
Significant(digits) ==
  LET nz == {i \in DOMAIN digits : digits[i] # 0} IN IF nz = {} THEN 0 ELSE Max(nz) - Min(nz) + 1
ReadsBack(value, a, prec) ==
  /\ value.n > 0
  /\ LET u == Unit(value, prec, Mode("N")) IN Same(Rounded(value, u, "N").k, u - LowExp(a), a.m)

\* A text written with a number of digits after the point is the number rounded there, as
\* the mode says (of the absolute value, in a base that is no power of two); one in free
\* format is read back as the number, and in the shortest format no text of fewer
\* digits, rounded by the same mode, would be.
PrintedRight ==
  Returned /\ call.op = "ftoa" /\ bf_is_finite(call.x.a) =>
    LET x == call.x
        s == Spelled(result, x.radix)
        a == [ExactOf(x.a) EXCEPT !.neg = @ /\ RadixBits(x.radix) # 0]
        P == Significant(s.digits)
        Scaled(k) == [a EXCEPT !.n = @ * x.radix^Max({k, 0}), !.d = x.radix^Max({-k, 0})]
        Fewer == LET E == Min({i \in -4..6 : ~AtMost(1, 0, Scaled(-i))})
                     up == E - P + 1
                 IN  Ratio(Rounded(Scaled(-up), 0, x.rnd).k * x.radix^Max({up, 0}), x.radix^Max({-up, 0}), 0)
    IN  /\ s.neg = (x.a.sign = 1)
        /\ x.fmt = "frac" => s.e = -x.prec /\ s.n = Rounded(Scaled(x.prec), 0, x.rnd).k
        /\ x.fmt \in {"free", "free_min"} =>
             IF x.a.len = 0 THEN s.n = 0
             ELSE IF RadixBits(x.radix) # 0 THEN Same(s.n, s.value.q - LowExp(x.a), x.a.m * x.radix^(-s.e))
             ELSE ReadsBack(s.value, x.a, x.prec)
        /\ x.fmt = "free_min" /\ RadixBits(x.radix) = 0 /\ P > 1 => ~ReadsBack(Fewer, x.a, x.prec)

-----------------------------------------------------------------------------
\* The integer an operator on ints should give.
ExactInt(x) == IF x.op = "add" THEN IntAt(x.a, 0) + IntAt(x.b, 0) ELSE IntAt(x.a, 0) * IntAt(x.b, 0)
Ops == {"add", "mul"}

\* The whole number nearest to i * 2^u, the larger of two.
NearestInt(i, u) == IF u >= 0 THEN i * 2^u ELSE (2 * i + 2^(-u)) \div 2^(1 - u)

\* Operators on ints: a sum or a product that fits the limbs of the longer operand is exact;
\* a quotient is a float of those limbs next to the exact one; `//` makes the whole number
\* nearest to such a float, but an error of a quotient below one (bf_rint reports an underflow);
\* and a division by zero is an error.  An int is made of text exactly, or not at all when the
\* text spells a fraction; an int is written as the digits of its value.  A float made of text
\* is the nearest number of a few limbs.
ObjectsRight ==
  Returned =>
    LET x     == call.x
        prec  == Max({x.a.len, x.b.len, 1}) * LIMB_BITS
        ratio == Ratio(IntAt(x.a, 0) * SignOf(x.b), Abs(IntAt(x.b, 0)), 0)
        u     == ExponentOf(ratio) - prec
        k     == Rounded(ratio, u, "Z").k
    IN  /\ call.op = "kop" =>
             CASE x.op \in Ops -> Abs(ExactInt(x)) < 2^prec => IntAt(result, 0) = ExactInt(x)
               [] x.op \notin Ops /\ x.b.len = 0 -> result = Error
               [] x.op \notin Ops /\ x.b.len > 0 /\ x.a.len = 0 -> result.m = 0
               [] x.op = "fdiv" /\ x.b.len > 0 /\ x.a.len > 0 ->
                    IF Abs(IntAt(x.a, 0)) < Abs(IntAt(x.b, 0)) THEN result = Error
                    ELSE /\ SignOf(result) = (IF ratio.neg THEN -1 ELSE 1)
                         /\ \E i \in {k, k + 1} : Abs(IntAt(result, 0)) = NearestInt(i, u)
               [] x.op = "div" /\ x.b.len > 0 /\ x.a.len > 0 ->
                    result.sign = (IF ratio.neg THEN 1 ELSE 0) /\ \E i \in {k, k + 1} : Same(result.m, LowExp(result) - u, i)
        /\ call.op = "kint" =>
             IF x.value.n % x.value.d # 0 THEN result = Exit
             ELSE Abs(IntAt(result, 0)) = x.value.n \div x.value.d
        /\ call.op = "kfloat" =>
             IF x.value.n = 0 THEN result.m = 0
             ELSE \E limbs \in 1..4 : ReadsBack(x.value, result, limbs * LIMB_BITS)
        /\ call.op = "show" => LET s == Spelled(result, 10) IN s.e = 0 /\ IntAt(x, 0) = (IF s.neg THEN -s.n ELSE s.n)

\* An int is "an arbitrary precision whole number" (src/include/kata/api.h:202): sums and
\* products are exact.
IntsExact == Returned /\ call.op = "kop" /\ call.x.op \in Ops => IntAt(result, 0) = ExactInt(call.x)

\* `//` is floor division (KS_AST_FLOORDIV, src/include/kata/ks.h:233): of two ints it is
\* the greatest whole number that is not above the quotient, unless it reports an error.
FloorDivides ==
  Returned /\ call.op = "kop" /\ call.x.op = "fdiv" /\ result # Error =>
    LET b == Abs(IntAt(call.x.b, 0))
        a == IntAt(call.x.a, 0) * SignOf(call.x.b)
    IN  IntAt(result, 0) * b <= a /\ a < (IntAt(result, 0) + 1) * b

\* kmem_isprime answers exactly the primes, across the switch from trial division to
\* Miller-Rabin at 4096; from 2 on, kmem_nextprime returns the least prime above its
\* argument.  my_resize relies on both (a prime length, and no more than it asked for).
IsPrime(n) == n > 1 /\ \A d \in 2..(n - 1) : d * d <= n => n % d # 0
PrimesRight ==
  Returned /\ call.op = "prime" =>
    /\ result.is = IsPrime(call.x)
    /\ call.x >= 2 => /\ result.next > call.x /\ IsPrime(result.next)
                      /\ \A q \in (call.x + 1)..(result.next - 1) : ~IsPrime(q)
=============================================================================

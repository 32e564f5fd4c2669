-------------------------------- MODULE Limbs --------------------------------
(***************************************************************************)
(* The integer core of bf/libbf.c: numbers as arrays of limbs, the least   *)
(* significant first, and the loops that carry, borrow and estimate        *)
(* quotient digits.  Arrays have the length their place in memory has; a   *)
(* function that writes into an array returns it, with what it returns.    *)
(***************************************************************************)
EXTENDS Integers, SequencesExt

CONSTANTS
  LIMB_BITS,               \* 64 in the code
  UDIV1NORM_THRESHOLD,     \* 3: divide by multiplication from this length on
  DIVNORM_LARGE_THRESHOLD, \* 50: divide with an approximate inverse from this length on
  TABLE_BITS               \* 8: the bits of a root found in sqrt_table

ASSUME LimbsAssumption ==
  /\ TABLE_BITS \in 2..LIMB_BITS /\ \E j \in 1..LIMB_BITS : LIMB_BITS = TABLE_BITS * 2^j
  /\ UDIV1NORM_THRESHOLD \in Nat /\ DIVNORM_LARGE_THRESHOLD > 2   \* mp_recip divides 2 n + 1 limbs by n <= 2

Base == 2^LIMB_BITS

\* The number an array stands for, and the array of n limbs of a number.
Value(tab) == FoldRight(LAMBDA d, v : v * Base + d, tab, 0)
Array(v, n) == [i \in 1..n |-> (v \div Base^(i - 1)) % Base]

Low(tab, n)  == SubSeq(tab, 1, n)
High(tab, n) == SubSeq(tab, n + 1, Len(tab))
Zeros(n)     == [i \in 1..n |-> 0]

-----------------------------------------------------------------------------
\* A loop from the least significant limb up.  Step gives what is to be stored in a
\* limb, which keeps its low half; the high half goes on as the carry (-1 is a borrow).
Ripple(n, Step(_, _), carry) ==
  FoldLeft(LAMBDA s, i : LET t == Step(i, s.k)
                         IN  [tab |-> Append(s.tab, t % Base), k |-> t \div Base],
           [tab |-> <<>>, k |-> carry], [i \in 1..n |-> i])
Borrowed(s) == [s EXCEPT !.k = -@]

mp_add(op1, op2, carry) == Ripple(Len(op2), LAMBDA i, k : op1[i] + op2[i] + k, carry)
mp_sub(op1, op2, carry) == Borrowed(Ripple(Len(op2), LAMBDA i, k : op1[i] - op2[i] + k, -carry))
mp_neg(op2, carry)      == Borrowed(Ripple(Len(op2), LAMBDA i, k : -op2[i] + k, -carry))
mp_add_ui(tab, b)       == Ripple(Len(tab), LAMBDA i, k : tab[i] + k, b)
mp_sub_ui(tab, b)       == Borrowed(Ripple(Len(tab), LAMBDA i, k : tab[i] + k, -b))
mp_mul1(taba, b, l)     == Ripple(Len(taba), LAMBDA i, k : taba[i] * b + k, l)
mp_add_mul1(tabr, taba, b) == Ripple(Len(taba), LAMBDA i, k : taba[i] * b + k + tabr[i], 0)
mp_sub_mul1(tabr, taba, b) == Borrowed(Ripple(Len(taba), LAMBDA i, k : tabr[i] - taba[i] * b + k, 0))

\* From the most significant limb down: the shifted array and the bits that fall out.
mp_shr(tab, shift, high) ==
  [tab |-> [i \in 1..Len(tab) |->
              LET l == IF i = Len(tab) THEN high ELSE tab[i + 1]
              IN  (tab[i] \div 2^shift) + ((l * 2^(LIMB_BITS - shift)) % Base)],
   k |-> tab[1] % 2^shift]

mp_mul_basecase(op1, op2) ==
  LET first == mp_mul1(op1, op2[1], 0)
  IN  FoldLeft(LAMBDA res, i : LET s == mp_add_mul1(High(res, i - 1), op1, op2[i])
                               IN  Low(res, i - 1) \o s.tab \o <<s.k>>,
               first.tab \o <<first.k>>, [i \in 1..(Len(op2) - 1) |-> i + 1])

mp_scan_nz(tab) == \E i \in DOMAIN tab : tab[i] # 0

mp_cmp(taba, tabb) ==
  LET diff == {i \in DOMAIN tabb : taba[i] # tabb[i]}
      top  == CHOOSE i \in diff : \A j \in diff : j <= i
  IN  IF diff = {} THEN 0 ELSE IF taba[top] < tabb[top] THEN -1 ELSE 1

-----------------------------------------------------------------------------
\* Division of two limbs by a normalized one through the inverse of the divisor.  The
\* estimate is right or one too small, told by the sign of what is left over.
udiv1norm_init(d) == ((Base - 1 - d) * Base + Base - 1) \div d

udiv1norm(a1, a0, d, d_inv) ==
  LET n1m   == IF a0 >= Base \div 2 THEN 1 ELSE 0     \* negated in the code, as a mask
      n_adj == (a0 + n1m * d) % Base
      q     == ((d_inv * (a1 + n1m) + n_adj) % Base^2) \div Base + a1
      left  == (a1 * Base + a0 - q * d - d) % Base^2
      ah    == left \div Base                         \* 0 or all ones
  IN  [q |-> (q + 1 + ah) % Base, r |-> (left + IF ah = 0 THEN 0 ELSE d) % Base]

\* Schoolbook division by one limb, r the limb above.
mp_div1norm(taba, b, r) ==
  LET inv == udiv1norm_init(b)
      Digit(a, rem) == IF Len(taba) >= UDIV1NORM_THRESHOLD THEN udiv1norm(rem, a, b, inv)
                       ELSE [q |-> (rem * Base + a) \div b, r |-> (rem * Base + a) % b]
  IN  FoldRight(LAMBDA a, s : LET t == Digit(a, s.r)
                              IN  [q |-> <<t.q>> \o s.q, r |-> t.r],
                taba, [q |-> <<>>, r |-> r])

\* A digit that was too large: the divisor is added back until the number is not
\* negative any more, that is until its top limb wraps.
RECURSIVE AddBack(_, _, _)
AddBack(tab, tabb, q) ==
  LET nb  == Len(tabb)
      s   == mp_add(tab, tabb, 0)
      top == (tab[nb + 1] + s.k) % Base
  IN  IF s.k # 0 /\ top = 0 THEN [q |-> q - 1, tab |-> s.tab \o <<0>>]
      ELSE AddBack(s.tab \o <<top>>, tabb, q - 1)

\* Mutant: an estimate that was too large is corrected once.
QuotientDigit_Once(tab, tabb, estimate) ==
  LET nb   == Len(tabb)
      s    == mp_sub_mul1(tab, tabb, estimate)
      back == mp_add(s.tab, tabb, 0)
  IN  IF s.k > tab[nb + 1] THEN [q |-> estimate - 1, tab |-> back.tab \o <<0>>]
      ELSE [q |-> estimate, tab |-> s.tab \o <<(tab[nb + 1] - s.k) % Base>>]

\* One quotient digit: tab is the nb + 1 limbs it is taken from.
QuotientDigit(tab, tabb, estimate) ==
  LET nb   == Len(tabb)
      s    == mp_sub_mul1(tab, tabb, estimate)
      left == s.tab \o <<(tab[nb + 1] - s.k) % Base>>
  IN  IF s.k > tab[nb + 1] THEN AddBack(left, tabb, estimate) ELSE [q |-> estimate, tab |-> left]

\* The digit estimated from the top limbs: at most two too large.
Estimate(tab, tabb, inverse) ==
  LET nb == Len(tabb)
      b1 == tabb[nb]
  IN  IF tab[nb + 1] >= b1 THEN Base - 1
      ELSE IF inverse THEN udiv1norm(tab[nb + 1], tab[nb], b1, udiv1norm_init(b1)).q
      ELSE (tab[nb + 1] * Base + tab[nb]) \div b1

RECURSIVE mp_divnorm(_, _), mp_divnorm_large(_, _), mp_recip(_), Reduce(_, _, _)

\* The quotient, of na - nb + 1 limbs, and the remainder, of nb limbs.
mp_divnorm(taba, tabb) ==
  LET nb    == Len(tabb)
      n     == Len(taba) - nb
      fits  == mp_cmp(High(taba, n), tabb) >= 0      \* the first digit: 0 or 1
      start == IF fits THEN Low(taba, n) \o mp_sub(High(taba, n), tabb, 0).tab ELSE taba
      done  == FoldLeft(LAMBDA s, i :
                          LET part == High(s.tab, i)
                              d    == QuotientDigit(part, tabb, Estimate(part, tabb, n >= UDIV1NORM_THRESHOLD))
                          IN  [q |-> <<d.q>> \o s.q, tab |-> Low(s.tab, i) \o Low(d.tab, nb)],
                        [q |-> <<IF fits THEN 1 ELSE 0>>, tab |-> start], [i \in 1..n |-> n - i])
  IN  IF nb = 1 THEN LET s == mp_div1norm(taba, tabb[1], 0) IN [q |-> s.q, r |-> <<s.r>>]
      ELSE IF n >= DIVNORM_LARGE_THRESHOLD /\ nb >= DIVNORM_LARGE_THRESHOLD THEN mp_divnorm_large(taba, tabb)
      ELSE [q |-> done.q, r |-> done.tab]

\* The loop that corrects a quotient estimated too small; tab has nb + 1 limbs.
Reduce(tab, tabb, tabq) ==
  LET nb == Len(tabb)
      s  == mp_sub(tab, tabb, 0)
  IN  IF tab[nb + 1] = 0 /\ mp_cmp(tab, tabb) < 0 THEN [q |-> tabq, r |-> Low(tab, nb)]
      ELSE Reduce(s.tab \o <<(tab[nb + 1] - s.k) % Base>>, tabb, mp_add_ui(tabq, 1).tab)

\* The quotient is the product with an inverse of the divisor, of n limbs; a divisor that
\* is cut is incremented first, so that the inverse is too small.
mp_divnorm_large(taba, tabb) ==
  LET na  == Len(taba)
      nb  == Len(tabb)
      nq  == na - nb
      n   == IF nq < nb THEN nq + 1 ELSE nq
      cut == mp_add_ui(High(tabb, nb - n), 1)
      inv == IF n >= nb THEN mp_recip(Zeros(n - nb) \o tabb)
             ELSE IF cut.k # 0 THEN Append(Zeros(n), 1)
             ELSE mp_recip(cut.tab)
      q   == High(mp_mul_basecase(inv, High(taba, na - (n + 1))), 2 * (n + 1) - (nq + 1))
      t   == mp_mul_basecase(q, tabb)
  IN  Reduce(mp_sub(taba, Low(t, nb + 1), 0).tab, tabb, q)

\* The inverse of h high limbs, lowered until its product fits, then one step of Newton.
RECURSIVE Lower(_, _, _)
Lower(xh, tabt, taba) ==
  LET n == Len(taba)
      s == mp_sub(tabt, taba, 0)
  IN  IF tabt[Len(tabt)] = 0 THEN [xh |-> xh, tabt |-> tabt]
      ELSE Lower(mp_sub_ui(xh, 1).tab, s.tab \o mp_sub_ui(High(tabt, n), s.k).tab, taba)

\* B^(2n) / a, of n + 1 limbs, too small by less than 2 / a.
mp_recip(taba) ==
  LET n    == Len(taba)
      l    == (n - 1) \div 2
      h    == n - l
      d    == mp_divnorm(Append(Zeros(2 * n), 1), taba)
      low  == mp_recip(High(taba, l))
      s    == Lower(low, mp_mul_basecase(taba, low), taba)
      rest == [mp_neg(s.tabt, 0).tab EXCEPT ![n + h + 1] = (@ + 1) % Base]
      tabu == mp_mul_basecase(High(rest, l), s.xh)
      sum  == mp_add(s.xh, SubSeq(tabu, 2 * h + 1, 3 * h), 0)
  IN  IF n <= 2
      THEN IF mp_scan_nz(d.r) THEN Low(d.q, n + 1) ELSE mp_sub_ui(Low(d.q, n + 1), 1).tab
      ELSE SubSeq(tabu, 2 * h - l + 1, 2 * h) \o sum.tab \o <<s.xh[h + 1]>>
-----------------------------------------------------------------------------
\* Square roots.  The table has the root of its index, shifted to twice its bits.
sqrt_table(i) == CHOOSE s \in 0..(2^TABLE_BITS - 1) : s * s <= i * 2^TABLE_BITS /\ (s + 1) * (s + 1) > i * 2^TABLE_BITS

\* Bits of a, from bit `from` up.
Bits(a, from, width) == (a \div 2^from) % 2^width

\* The root of the top bits of a, doubled in width by one step of Newton's method.
Doubled(a, p, w) ==
  LET num == p.r * 2^w + Bits(a, LIMB_BITS - 3 * w, w)
      q   == num \div (2 * p.s)
      s   == p.s * 2^w + q
      r   == (num % (2 * p.s)) * 2^w + Bits(a, LIMB_BITS - 4 * w, w) - q * q
  IN  IF r < 0 THEN [s |-> s - 1, r |-> r + 2 * (s - 1) + 1] ELSE [s |-> s, r |-> r]

\* The root of a limb, whose top two bits are not both clear, and what it leaves.
mp_sqrtrem1(a) ==
  LET s1    == sqrt_table(Bits(a, LIMB_BITS - TABLE_BITS, TABLE_BITS))
      r1    == Bits(a, LIMB_BITS - 2 * TABLE_BITS, 2 * TABLE_BITS) - s1 * s1
      first == IF r1 > 2 * s1 THEN [s |-> s1 + 1, r |-> r1 - (2 * s1 + 1)] ELSE [s |-> s1, r |-> r1]
      steps == CHOOSE j \in 0..LIMB_BITS : 2 * TABLE_BITS * 2^j = LIMB_BITS
  IN  FoldLeft(LAMBDA p, j : Doubled(a, p, TABLE_BITS * 2^(j - 1)), first, [j \in 1..steps |-> j])

\* The root of two limbs; s may wrap when the digit is 2^l, and is then lowered.
mp_sqrtrem2(taba) ==
  LET l   == LIMB_BITS \div 2
      p   == mp_sqrtrem1(taba[2])
      num == p.r * 2^l + taba[1] \div 2^l
      q   == num \div (2 * p.s)
      s   == p.s * 2^l + q
      r   == (num % (2 * p.s)) * 2^l + (taba[1] % 2^l) - (IF q \div 2^l # 0 THEN Base ELSE q * q)
      low == r < 0
      s0  == (IF low THEN s - 1 ELSE s) % Base
      r0  == IF low THEN r + 2 * s0 + 1 ELSE r
  IN  [s |-> <<s0>>, r |-> <<r0 % Base>>, k |-> r0 \div Base]

\* "Karatsuba Square Root": the root of the high part, a division by it for the low part
\* q, then q^2 is taken off, and the root lowered by one when that was too much.
RECURSIVE mp_sqrtrem_rec(_)
mp_sqrtrem_rec(taba) ==
  LET n   == Len(taba) \div 2
      l   == n \div 2
      h   == n - l
      top == mp_sqrtrem_rec(High(taba, 2 * l))
      rem == IF top.k # 0 THEN mp_sub(top.r, top.s, 0).tab ELSE top.r
      d   == mp_divnorm(SubSeq(taba, l + 1, 2 * l) \o rem, top.s)
      qh  == top.k + d.q[l + 1]
      q   == mp_shr(Low(d.q, l), 1, qh % 2)      \* divided by s, not by 2 s
      u   == IF q.k # 0 THEN mp_add(d.r, top.s, 0) ELSE [tab |-> d.r, k |-> 0]
      s   == q.tab \o mp_add_ui(top.s, qh \div 2).tab
      r   == Low(taba, l) \o u.tab
      off == IF qh \div 2 # 0 THEN [tab |-> Low(r, 2 * l), k |-> qh \div 2]
             ELSE mp_sub(Low(r, 2 * l), mp_mul_basecase(q.tab, q.tab), 0)
      end == mp_sub_ui(High(r, 2 * l), off.k)
      left == off.tab \o end.tab
      s0  == mp_sub_ui(s, 1).tab
      r0  == mp_add_mul1(left, s0, 2)
      r1  == mp_add_ui(r0.tab, 1)
  IN  IF n = 1 THEN mp_sqrtrem2(taba)
      ELSE IF u.k - end.k >= 0 THEN [s |-> s, r |-> left, k |-> u.k - end.k]
      ELSE [s |-> s0, r |-> r1.tab, k |-> u.k - end.k + r0.k + r1.k]

mp_sqrtrem(taba) == LET p == mp_sqrtrem_rec(taba) IN [s |-> p.s, r |-> Append(p.r, p.k)]
=============================================================================

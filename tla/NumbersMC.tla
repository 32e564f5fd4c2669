------------------------------ MODULE NumbersMC ------------------------------
(***************************************************************************)
(* The calls made.  Numbers have one to three limbs of four bits; their    *)
(* bits are runs of ones, of zeros and single bits, next to the places     *)
(* where a carry, a borrow, a tie or a cancellation happens.               *)
(***************************************************************************)
EXTENDS Numbers

Rnds == {"N", "Z", "D", "U", "NA", "A", "F"}

\* Mantissas: all of one limb, and longer ones with runs of ones, of zeros and single bits.
One   == {<<1, m>> : m \in 8..15}
Two   == {<<2, m>> : m \in {129, 136 + 1, 143, 144 + 7, 170 + 1, 191, 193, 239, 241, 247, 254, 255}}
Three == {<<3, m>> : m \in {2049, 2175, 2303, 2817, 3071, 3585, 4081, 4095}}
Num(sign, expn, t) == Number(sign, expn, t[1], t[2])
Specials == {bf_set_zero(0), bf_set_zero(1), bf_set_inf(0), bf_set_inf(1), bf_set_nan}

Range3 == [rnd : Rnds, radpnt : {FALSE}, subnormal : BOOLEAN, bits : {3}]
Modes  == {Mode(rnd) : rnd \in Rnds}
Few    == {<<1, 8>>, <<1, 13>>, <<2, 129>>, <<2, 247>>, <<3, 4095>>}
Signs  == {0, 1}

Some  == {<<1, 8>>, <<1, 13>>, <<1, 15>>, <<2, 129>>, <<2, 191>>, <<2, 255>>}
Sums ==
  [a : {Num(0, 0, t) : t \in Some}, b : {Num(s, e, t) : s \in Signs, e \in -6..1, t \in One \cup Two},
   prec : {2, 5}, flags : Modes]
  \cup [a : {Num(s, 0, t) : s \in Signs, t \in Few}, b : {Num(s, e, t) : s \in Signs, e \in {-16, -13, -9, -8, -4, -2, -1, 0}, t \in Few},
        prec : {3, 8, BF_PREC_INF}, flags : Modes]
  \cup [a : {Num(s, e, t) : s \in Signs, e \in {-1, 4}, t \in Few}, b : {Num(s, e, t) : s \in Signs, e \in {-1, 2}, t \in Few},
        prec : {3}, flags : Range3]
Differences == [a : {Num(s, 0, t) : s \in Signs, t \in Few}, b : {Num(s, e, t) : s \in Signs, e \in -3..1, t \in Few}, prec : {3, 8}, flags : Modes]
WithSpecials(prec) ==
  [a : Specials \cup {Num(1, 0, <<1, 9>>)}, b : Specials \cup {Num(0, 0, <<1, 9>>), Num(1, 0, <<1, 9>>)}, prec : {prec}, flags : Modes]

Products == [a : {Num(s, 1, t) : s \in Signs, t \in One \cup Two \cup Three}, b : {Num(0, 0, t) : t \in One \cup Two \cup Three},
             prec : {2, 6, BF_PREC_INF}, flags : Modes]
  \cup [a : {Num(s, e, t) : s \in Signs, e \in {-2, 2}, t \in Few}, b : {Num(0, e, t) : e \in {-1, 1}, t \in Few}, prec : {4}, flags : Range3]
Quotients == [a : {Num(s, 1, t) : s \in Signs, t \in One \cup Two \cup Three}, b : {Num(0, 0, t) : t \in One \cup Two \cup Three},
             prec : {2, 6, 9}, flags : Modes]
  \cup [a : {Num(s, e, t) : s \in Signs, e \in {-2, 2}, t \in Few}, b : {Num(0, e, t) : e \in {-1, 1}, t \in Few}, prec : {4}, flags : Range3]
Whole(v) == bf_normalize_and_round(Number(IF v < 0 THEN 1 ELSE 0, 12, 3, Abs(v)), BF_PREC_INF, Mode("Z")).r
Ints == {Whole(v) : v \in -40..40}
Chosen == {Whole(v) : v \in {-40, -39, -17, -16, -15, -8, -3, -2, -1, 0, 1, 2, 3, 5, 7, 8, 15, 16, 17, 31, 33, 39, 40}}
Halves == {IF a.len = 0 THEN a ELSE [a EXCEPT !.expn = @ - 1] : a \in Ints}

\* A text of digits, and the number it spells; and texts with a fate of their own.
Text(neg, int, frac, mark, e, radix, prec, flags) ==
  LET k == (IF mark = 25 THEN 0 ELSE e) - Len(frac)
      str == (IF neg THEN <<MINUS>> ELSE <<>>) \o int \o (IF frac # <<>> THEN <<DOT>> \o frac ELSE <<>>)
             \o (IF mark # 0 THEN <<mark>> \o Decimal(e) ELSE <<>>)
  IN  [str |-> str, next |-> Len(str) + 1, kind |-> "number", radix |-> radix, prec |-> prec, flags |-> flags, opts |-> {},
       value |-> [Ratio(Horner(int \o frac, radix) * radix^Max({k, 0}), radix^Max({-k, 0}), IF mark = 25 THEN e ELSE 0)
                  EXCEPT !.neg = neg]]
Odd(str, next, kind, n) ==
  [str |-> str, next |-> next, kind |-> kind, radix |-> 0, prec |-> 5, flags |-> Mode("N"), opts |-> {"bin_oct"},
   value |-> Ratio(n, 1, 0)]

Texts ==
  {Text(neg, int, frac, 14, e, 10, prec, mode) : neg \in BOOLEAN, int \in {<<1>>, <<9, 9>>, <<0, 0, 1, 2, 5>>},
     frac \in {<<>>, <<5>>}, e \in -1..3, prec \in {3, 5}, mode \in Modes}
  \cup {Text(FALSE, int, <<>>, 14, e, 10, 3, mode) : int \in {<<1>>, <<3>>, <<7>>}, e \in {-3, -2, 5, 6}, mode \in Modes}
  \cup {Text(neg, int, frac, AT, e, 3, prec, mode) : neg \in BOOLEAN, int \in {<<2>>, <<2, 1, 2>>, <<2, 2, 2, 2, 1>>},
           frac \in {<<>>, <<0, 1>>}, e \in {-4, -1, 2, 6}, prec \in {3, 5}, mode \in Modes}
  \cup {Text(neg, int, frac, IF e = 0 THEN 0 ELSE 25, e, radix, prec, mode) : neg \in BOOLEAN, radix \in {2, 4, 8, 16},
           int \in {<<1>>, <<1, 1, 0, 1>>, <<0, 1, 1, 1, 1>>}, frac \in {<<>>, <<0, 1>>}, e \in {-3, 0, 2}, prec \in {3, 5},
           mode \in Modes \cup Range3}
  \cup {Odd(Nan, 4, "nan", 0), Odd(<<MINUS>> \o Inf, 5, "inf", 0), Odd(<<MINUS>>, 2, "nan", 0), Odd(<<DOT>>, 1, "nan", 0),
        Odd(<<0, 33>>, 3, "nan", 0), Odd(<<0, 33, 1, 15, 16>>, 5, "number", 31), Odd(<<0, 11, 1, 0, 1, 2>>, 6, "number", 5),
        Odd(<<0, 24, 1, 7, 8>>, 5, "number", 15), Odd(<<1, 14, 9, 9, 9, 9, 9, 9, 9, 3>>, 9, "inf", 0),
        Odd(<<1, 14, MINUS, 9, 9, 9, 9, 9, 9, 9, 3>>, 10, "zero", 0), Odd(<<0, DOT, 0, 0, AT>>, 5, "number", 0)}

Printed ==
  [a : {Num(s, e, t) : s \in Signs, e \in -3..3, t \in One}, radix : {10, 3}, prec : {0, 2}, rnd : Rnds \ {"F"}, fmt : {"frac"}]
  \cup [a : {Num(0, e, t) : e \in 4..9, t \in One}, radix : {10, 3}, prec : {0}, rnd : {"N", "U"}, fmt : {"frac"}]
  \cup [a : {Num(s, e, t) : s \in Signs, e \in -2..6, t \in One}, radix : {2, 8}, prec : {0, 3}, rnd : Rnds \ {"F"}, fmt : {"frac"}]
  \cup [a : {Num(1, e, t) : e \in -2..5, t \in One}, radix : {10}, prec : {4}, rnd : {"N", "U"}, fmt : {"free", "free_min"}]
  \cup [a : {Num(0, e, t) : e \in 2..4, t \in Two}, radix : {10}, prec : {8}, rnd : {"N"}, fmt : {"free_min"}]
  \cup [a : {Num(0, e, t) : e \in -4..6, t \in One}, radix : {3}, prec : {4}, rnd : {"N", "U"}, fmt : {"free", "free_min"}]
  \cup [a : {Num(0, e, t) : e \in {-2, 1, 6}, t \in {<<2, 129>>, <<2, 171>>, <<2, 247>>}}, radix : {3}, prec : {8}, rnd : {"N"}, fmt : {"free_min"}]
  \cup [a : {Num(s, e, t) : s \in Signs, e \in -8..8, t \in One}, radix : {2, 4, 8, 16}, prec : {4}, rnd : {"N"}, fmt : {"free", "free_min"}]
  \cup [a : {bf_set_zero(0)}, radix : {2, 10}, prec : {0, 4}, rnd : {"N"}, fmt : {"frac", "free", "free_min"}]
  \cup [a : {Num(0, e, t) : e \in {-2, 3, 6}, t \in One}, radix : {2, 10}, prec : {2}, rnd : {"N"}, fmt : {"fixed"}]

All ==
  [add |-> Sums \cup WithSpecials(4),
   sub |-> Differences \cup WithSpecials(4),
   mul |-> Products \cup WithSpecials(4),
   div |-> Quotients \cup WithSpecials(4),
   sqrt |-> [a : {Num(0, e, t) : e \in {-3, 0, 1, 4}, t \in One \cup {<<2, 2 * m + 1>> : m \in 64..127} \cup Three}, prec : {2, 5, 9}, flags : Modes]
            \cup [a : Specials \cup {Num(1, 0, <<1, 9>>)}, prec : {4}, flags : Modes],
   round |-> [a : {Num(s, e, t) : s \in Signs, e \in -7..5, t \in One \cup Two}, prec : {2, 3}, flags : Range3]
             \cup [a : {Num(s, e, t) : s \in Signs, e \in {-3, -1, 0, 1, 2, 5, 9}, t \in One \cup Two}, prec : {0, 2},
                  flags : {[Mode(rnd) EXCEPT !.radpnt = TRUE] : rnd \in Rnds}],
   mul_2exp |-> [a : {Num(s, e, t) : s \in Signs, e \in -1..1, t \in Few}, e : -5..5, prec : {4}, flags : Range3],
   get_float64 |-> [a : {Num(s, e, t) : s \in Signs, e \in -5..6, t \in One \cup Two} \cup Specials, rnd : Rnds],
   set_float64 |-> [d : [sign : Signs, e : 0..double_e, m : 0..(2^(DOUBLE_BITS - 1) - 1)]],
   can_round |-> [a : {Num(s, 0, t) : s \in Signs, t \in {<<2, 4 * m + 1>> : m \in 32..63} \cup One}, prec : {2, 3, 5}, rnd : Rnds, k : 3..10],
   cmp |-> [a : Ints \cup Specials \cup Halves, b : Chosen \cup Specials],
   divrem |-> [a : Ints \cup Halves, b : Chosen \ {Whole(0)}, rnd : (Rnds \ {"F"}) \cup {"E"}],
   logic |-> [a : Ints, b : Chosen, op : {"and", "or", "xor"}],
   sqrtrem |-> [a : {Whole(v) : v \in 1..300}],
   get_int |-> [a : Ints \cup Halves, bits : {LIMB_BITS, LIMB_BITS \div 2}, mod : BOOLEAN],
   pow_ui |-> [a : {a \in Ints : a.len = 1}, b : 0..4, by : {-3, 0, 5}],
   atof |-> Texts,
   ftoa |-> Printed,
   kop |-> [op : {"add", "mul", "div", "fdiv"}, a : Ints, b : Chosen],
   kint |-> {Text(neg, int, frac, 14, e, 10, 3, Mode("N")) : neg \in BOOLEAN, frac \in {<<>>, <<0>>, <<5>>}, e \in -2..2,
               int \in {<<1>>, <<0>>, <<1, 0, 0>>, <<1, 2, 5>>, <<1, 9, 2>>}},
   kfloat |-> {Text(neg, int, frac, 14, e, 10, 3, Mode("F")) : neg \in BOOLEAN, frac \in {<<>>, <<0>>, <<5>>, <<3, 3>>}, e \in -2..2,
                 int \in {<<1>>, <<0>>, <<7, 7>>, <<1, 2, 5>>}},
   show |-> Ints \cup {[a EXCEPT !.expn = @ + 3] : a \in Ints \ {Whole(0)}},
   prime |-> 0..5200]

\* Of the operators only the sum and the product of ints.
OnInts == [kop |-> [op : Ops, a : Ints, b : Chosen]]

\* And only `//`, of those that are not negative.
OnFloor == [kop |-> [op : {"fdiv"}, a : {Whole(v) : v \in 0..40}, b : {Whole(v) : v \in 1..8}]]
=============================================================================

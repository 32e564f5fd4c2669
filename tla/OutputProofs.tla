----------------------------- MODULE OutputProofs -----------------------------
(***************************************************************************)
(* Proofs about bytes in and out: whatever clients push, write, read and   *)
(* print, however often, the bytes stored stay in their places (FileKept), *)
(* none is stored outside the block but in the two known cases             *)
(* (WritesInside), a reader gets them in order (ReadsInOrder), and the     *)
(* size a writer returns is what has arrived (SizeRight).                  *)
(***************************************************************************)
EXTENDS Output, Counting

(***************************************************************************)
(* The pieces of a writer are bytes, objects and failing assertions.       *)
(***************************************************************************)

\* The characters there are.  (The provers do not know a literal for a string: the literals
\* of the writers are named.)
Chars ==
  STRING \cup {Stale} \cup
  {"0", "1", "2", "3", "4", "5", "6", "7", "8", "9", "A", "B", "C", "D", "E", "F", "a", "d", "f", "n", "t", "x",
   ",", " ", "-", "(", ")", "[", "]", "{", "}", ":", "%", "<", "@", "\"", "\\"}
String == Seq(Chars)
Pieces ==
  [do : {"write", "abort"}, bytes : String, obj : {0}] \cup [do : {"repr"}, bytes : {<<>>}, obj : Objects]

\* Sequences of characters, put together.
LEMMA Strings ==
  /\ <<>> \in String
  /\ \A c \in Chars : <<c>> \in String
  /\ \A s, t \in String : s \o t \in String
  /\ \A s \in String, c \in Chars : Append(s, c) \in String
  /\ \A s \in String : IsSeq(s)
<1> HIDE DEF Chars
<1> QED
  BY DEF String, IsSeq

LEMMA Wider ==
  ASSUME NEW S, NEW T, S \subseteq T, NEW s \in Seq(S)
  PROVE  s \in Seq(T)
OBVIOUS

LEMMA TextTypes ==
  /\ \A s \in Seq(STRING) : s \in String
  /\ \A c \in STRING : <<c>> \in String
<1>1. STRING \subseteq Chars
  BY DEF Chars
<1> HIDE DEF Chars
<1>2. \A s \in Seq(STRING) : s \in Seq(Chars)
  BY <1>1, Wider
<1>3. \A c \in STRING : <<c>> \in String
  BY <1>1, Strings
<1> QED
  BY <1>2, <1>3 DEF String

\* The literals of the writers.
LEMMA Literals ==
  /\ <<",", " ">> \in String /\ <<"-">> \in String /\ <<"(">> \in String /\ <<")">> \in String
  /\ <<"[">> \in String /\ <<"]">> \in String /\ <<"{">> \in String /\ <<"}">> \in String
  /\ <<":", " ">> \in String /\ <<"a", "d", "d", "(">> \in String /\ <<"t", "(">> \in String
  /\ <<"%">> \in String /\ <<"0", "x">> \in String /\ <<"<">> \in String
  /\ <<" ", "@", " ", "0", "x">> \in String /\ <<"\"">> \in String /\ <<"\\", "n">> \in String
  /\ <<"\\", "\"">> \in String /\ <<"\\", "x", "f", "f">> \in String
<1> USE DEF Chars
<1>1. /\ "," \in Chars /\ " " \in Chars /\ "-" \in Chars /\ "(" \in Chars /\ ")" \in Chars
      /\ "[" \in Chars /\ "]" \in Chars /\ "{" \in Chars /\ "}" \in Chars
  OBVIOUS
<1>2. /\ ":" \in Chars /\ "a" \in Chars /\ "d" \in Chars /\ "t" \in Chars /\ "%" \in Chars
      /\ "0" \in Chars /\ "x" \in Chars /\ "<" \in Chars
  OBVIOUS
<1>3. /\ "@" \in Chars /\ "\"" \in Chars /\ "\\" \in Chars /\ "n" \in Chars /\ "f" \in Chars
  OBVIOUS
<1> HIDE DEF Chars
<1>4. /\ \A a \in Chars : <<a>> \in String
      /\ \A a, b \in Chars : <<a, b>> \in String
      /\ \A a, b, c, d \in Chars : <<a, b, c, d>> \in String
      /\ \A a, b, c, d, e \in Chars : <<a, b, c, d, e>> \in String
  BY DEF String
<1>5. /\ <<",", " ">> \in String /\ <<"-">> \in String /\ <<"(">> \in String /\ <<")">> \in String
      /\ <<"[">> \in String /\ <<"]">> \in String /\ <<"{">> \in String /\ <<"}">> \in String
  BY <1>1, <1>4
<1>6. /\ <<":", " ">> \in String /\ <<"a", "d", "d", "(">> \in String /\ <<"t", "(">> \in String
      /\ <<"%">> \in String /\ <<"0", "x">> \in String /\ <<"<">> \in String
  BY <1>1, <1>2, <1>4
<1>7. /\ <<" ", "@", " ", "0", "x">> \in String /\ <<"\"">> \in String /\ <<"\\", "n">> \in String
      /\ <<"\\", "\"">> \in String /\ <<"\\", "x", "f", "f">> \in String
  BY <1>1, <1>2, <1>3, <1>4
<1> QED
  BY <1>5, <1>6, <1>7

LEMMA PieceTypes ==
  /\ \A b \in String : Bytes(b) \in Pieces
  /\ \A o \in Objects : Repr(o) \in Pieces
  /\ Fails \in Pieces
  /\ Comma \in Pieces
<1>1. <<>> \in String /\ <<",", " ">> \in String
  BY Strings, Literals
<1> QED
  BY <1>1 DEF Pieces, Bytes, Repr, Fails, Comma

\* One piece, and one after the other.
LEMMA PieceLists ==
  /\ <<>> \in Seq(Pieces)
  /\ \A p \in Pieces : <<p>> \in Seq(Pieces)
  /\ \A p, q \in Seq(Pieces) : p \o q \in Seq(Pieces)
  /\ \A p \in Seq(Pieces), q \in Pieces : Append(p, q) \in Seq(Pieces)
OBVIOUS

LEMMA DigitType ==
  ASSUME NEW v \in Int, NEW b \in {10, 16}
  PROVE  <<Digit(v, b)>> \in String
<1>1. Rem(v, b) \in 0..15
  BY DEF Rem
<1>2. /\ Kdigits[1] \in Chars /\ Kdigits[2] \in Chars /\ Kdigits[3] \in Chars /\ Kdigits[4] \in Chars
      /\ Kdigits[5] \in Chars /\ Kdigits[6] \in Chars /\ Kdigits[7] \in Chars /\ Kdigits[8] \in Chars
  BY DEF Kdigits, Chars
<1>3. /\ Kdigits[9] \in Chars /\ Kdigits[10] \in Chars /\ Kdigits[11] \in Chars /\ Kdigits[12] \in Chars
      /\ Kdigits[13] \in Chars /\ Kdigits[14] \in Chars /\ Kdigits[15] \in Chars /\ Kdigits[16] \in Chars
  BY DEF Kdigits, Chars
<1> HIDE DEF Chars
<1> DEFINE r == Rem(v, b)
<1> HIDE DEF r
<1>4. \A k \in 0..15 : Kdigits[k + 1] \in Chars
  BY <1>2, <1>3
<1> QED
  BY <1>1, <1>4, Strings DEF Digit, r

LEMMA QuotLess ==
  ASSUME NEW v \in Int, NEW b \in {10, 16}, Quot(v, b) > 0
  PROVE  v > 0 /\ Quot(v, b) \in 1..(v - 1)
BY DEF Quot

\* The digits of a number: the loop ends, and its digits are characters.
Numeral(d, v, b) == IF Quot(v, b) > 0 THEN d[Quot(v, b)] \o <<Digit(v, b)>> ELSE <<Digit(v, b)>>

LEMMA NumDigitsType ==
  ASSUME NEW val \in Int, NEW b \in {10, 16}
  PROVE  NumDigits(val, b) \in String
<1> DEFINE D == {val} \cup 0..val
           Low(n) == {v \in D : v <= n}
           Upto(n, d) == d \in [Low(n) -> String] /\ \A v \in Low(n) : d[v] = Numeral(d, v, b)
           Bad == {n \in Nat : ~ \E d : Upto(n, d)}
<1>a. \A v \in D : v \in Int
  OBVIOUS
<1>b. \A v \in D : Quot(v, b) > 0 => Quot(v, b) \in D /\ Quot(v, b) < v /\ v > 0
  BY <1>a, QuotLess
<1>1. 0 \notin Bad
  <2> DEFINE d == [v \in Low(0) |-> <<Digit(v, b)>>]
  <2>1. \A v \in Low(0) : v \in Int /\ ~(Quot(v, b) > 0)
    BY <1>a, <1>b
  <2>2. d \in [Low(0) -> String]
    BY <1>a, DigitType
  <2>3. Upto(0, d)
    BY <2>1, <2>2 DEF Numeral
  <2> HIDE DEF Upto, d
  <2> QED
    BY <2>3
<1>2. ASSUME NEW n \in Nat, NEW d, Upto(n, d)
      PROVE  \E e : Upto(n + 1, e)
  <2> DEFINE e == [v \in Low(n + 1) |-> IF v \in Low(n) THEN d[v] ELSE Numeral(d, v, b)]
  <2>1. ASSUME NEW v \in Low(n + 1), Quot(v, b) > 0
        PROVE  Quot(v, b) \in Low(n)
    <3>1. v \in Int /\ v <= n + 1 /\ Quot(v, b) \in D /\ Quot(v, b) < v /\ Quot(v, b) \in Int
      BY <1>a, <1>b, <2>1
    <3> QED
      BY <3>1
  <2>2. \A v \in Low(n) : v \in Low(n + 1)
    BY <1>a
  <2>3. \A v \in Low(n + 1) : v \in Int
    BY <1>a
  <2> HIDE DEF Low
  <2>4. \A v \in Low(n + 1) : Numeral(e, v, b) = Numeral(d, v, b)
    BY <2>1, <2>2 DEF Numeral
  <2>5. \A v \in Low(n + 1) : e[v] = Numeral(d, v, b)
    BY <1>2
  <2>6. ASSUME NEW v \in Low(n + 1)
        PROVE  Numeral(d, v, b) \in String
    <3>1. <<Digit(v, b)>> \in String
      BY <2>3, DigitType
    <3>2. Quot(v, b) > 0 => d[Quot(v, b)] \in String
      BY <1>2, <2>1
    <3> QED
      BY <3>1, <3>2, Strings DEF Numeral
  <2>7. e \in [Low(n + 1) -> String]
    BY <2>5, <2>6
  <2>8. Upto(n + 1, e)
    BY <2>4, <2>5, <2>7
  <2> HIDE DEF Upto, e
  <2> QED
    BY <2>8
<1>3. Bad = {}
  <2>1. SUFFICES ASSUME Bad # {} PROVE FALSE
    OBVIOUS
  <2>2. Bad \in SUBSET Nat
    OBVIOUS
  <2> HIDE DEF Upto
  <2>3. PICK n \in Bad : \A k \in Bad : n <= k
    <3> HIDE DEF Bad
    <3> QED
      BY <2>1, <2>2, LeastNat
  <2>4. n # 0 /\ n \in Nat
    BY <1>1
  <2>5. n - 1 \in Nat /\ n - 1 \notin Bad /\ (n - 1) + 1 = n
    BY <2>3, <2>4
  <2>6. PICK d : Upto(n - 1, d)
    BY <2>5
  <2>7. \E e : Upto((n - 1) + 1, e)
    <3> DEFINE p == n - 1
    <3>1. p \in Nat /\ Upto(p, d)
      BY <2>5, <2>6
    <3> HIDE DEF p
    <3>2. \E e : Upto(p + 1, e)
      BY <1>2, <3>1
    <3> QED
      BY <3>2 DEF p
  <2> QED
    BY <2>5, <2>7
<1> DEFINE top == IF val < 0 THEN 0 ELSE val
           Eq(d) == d = [v \in D |-> Numeral(d, v, b)]
<1>4. top \in Nat /\ Low(top) = D
  OBVIOUS
<1>5. PICK d : Upto(top, d)
  <2> HIDE DEF Upto, top
  <2> QED
    BY <1>3, <1>4
<1>6. Eq(d)
  <2> HIDE DEF top
  <2> QED
    BY <1>4, <1>5
<1> DEFINE c == CHOOSE e : Eq(e)
<1>7. Eq(c)
  <2> HIDE DEF Eq
  <2> QED
    BY <1>6
<1>8. NumDigits(val, b) = c[val]
  BY DEF NumDigits, Numeral
<1>9. \A v \in D : c[v] = Numeral(c, v, b)
  BY <1>7
<1> HIDE DEF c
<1>10. c[val] \in String
  <2> DEFINE Wrong == {v \in 0..top : v \in D /\ c[v] \notin String}
  <2>1. ASSUME NEW v \in D, Quot(v, b) > 0 => c[Quot(v, b)] \in String
        PROVE  c[v] \in String
    <3>1. <<Digit(v, b)>> \in String
      BY <1>a, DigitType
    <3>2. Numeral(c, v, b) \in String
      BY <2>1, <3>1, Strings DEF Numeral
    <3> QED
      BY <1>9, <3>2
  <2>2. Wrong = {}
    <3>1. SUFFICES ASSUME Wrong # {} PROVE FALSE
      OBVIOUS
    <3>2. Wrong \in SUBSET Nat
      OBVIOUS
    <3>3. PICK v \in Wrong : \A k \in Wrong : v <= k
      <4> HIDE DEF Wrong
      <4> QED
        BY <3>1, <3>2, LeastNat
    <3>4. v \in D /\ v \in 0..top /\ v \in Int
      BY <1>a
    <3>5. PICK u : u = Quot(v, b)
      OBVIOUS
    <3>6. u > 0 => u \in D /\ u < v /\ u \in Int
      BY <1>a, <1>b, <3>4, <3>5
    <3>7. u > 0 => u \in 0..top /\ u \notin Wrong
      BY <3>3, <3>4, <3>6
    <3>8. u > 0 => c[u] \in String
      BY <3>6, <3>7
    <3> QED
      BY <2>1, <3>4, <3>5, <3>8
  <2>3. CASE val < 0
    <3>1. val \in D /\ ~(Quot(val, b) > 0)
      BY <1>b, <2>3
    <3> QED
      BY <2>1, <3>1
  <2>4. CASE ~(val < 0)
    BY <2>2, <2>4
  <2> QED
    BY <2>3, <2>4
<1> QED
  BY <1>8, <1>10


LEMMA NumberPieces ==
  ASSUME NEW v \in Int, NEW b \in {10, 16}
  PROVE  kwriteu(v, b) \in Seq(Pieces) /\ kwrites(v, b) \in Seq(Pieces)
<1> DEFINE d == NumDigits(v, b)
           s == IF v < 0 THEN <<"-">> ELSE <<>>
<1>1. d \in String /\ s \in String
  BY NumDigitsType, Strings, Literals
<1> HIDE DEF d, s
<1>2. s \o d \in String
  BY <1>1, Strings
<1>3. Bytes(d) \in Pieces /\ Bytes(s \o d) \in Pieces
  BY <1>1, <1>2, PieceTypes
<1>4. <<Bytes(d)>> \in Seq(Pieces) /\ <<Bytes(s \o d)>> \in Seq(Pieces)
  BY <1>3, PieceLists
<1> QED
  BY <1>4 DEF kwriteu, kwrites, d, s

LEMMA FloatPieces ==
  ASSUME NEW s \in Seq(STRING), s # <<>>
  PROVE  kwritef(s) \in Seq(Pieces)
<1> DEFINE Kept == {n \in 1..Len(s) : \A k \in (n + 1)..Len(s) : s[k] = "0" /\ s[k - 1] # "."}
           least == CHOOSE n \in Kept : \A m \in Kept : n <= m
<1>1. Len(s) \in Kept /\ Kept \in SUBSET Nat
  OBVIOUS
<1>2. \E n \in Kept : \A m \in Kept : n <= m
  <2> HIDE DEF Kept
  <2> QED
    BY <1>1, LeastNat
<1>3. least \in Kept
  <2> HIDE DEF Kept
  <2> QED
    BY <1>2
<1>4. least \in 1..Len(s)
  <2> HIDE DEF least
  <2> QED
    BY <1>3
<1>5. kwritef(s) = <<Bytes(SubSeq(s, 1, least))>>
  BY DEF kwritef
<1> HIDE DEF least
<1>6. SubSeq(s, 1, least) \in Seq(STRING)
  BY <1>4
<1>7. Bytes(SubSeq(s, 1, least)) \in Pieces
  BY <1>6, TextTypes, PieceTypes
<1> QED
  BY <1>5, <1>7, PieceLists

(***************************************************************************)
(* Loops over a sequence: the folds of the writers go by the largest index *)
(* to the ones before it.                                                  *)
(***************************************************************************)

LEMMA LargestIn ==
  ASSUME NEW n \in Nat, NEW s \in SUBSET (1..n), s # {}
  PROVE  Max(s) \in s
<1> DEFINE X == {n - x : x \in s}
<1>1. X \in SUBSET Nat /\ X # {}
  OBVIOUS
<1>2. PICK y \in X : \A k \in X : y <= k
  <2> HIDE DEF X
  <2> QED
    BY <1>1, LeastNat
<1>3. PICK x \in s : y = n - x
  BY <1>2
<1>4. \A z \in s : n - x <= n - z
  BY <1>2, <1>3
<1>5. \A z \in s : x >= z
  BY <1>4
<1> QED
  BY <1>5 DEF Max

\* There is a loop whose every step stays in A.
IsLoop(n, base, g, h) ==
  \A s \in SUBSET (1..n) : h[s] = IF s = {} THEN base ELSE g[<<Max(s), h[s \ {Max(s)}]>>]

LEMMA LoopExists ==
  ASSUME NEW n \in Nat, NEW A, NEW base \in A, NEW g, \A k \in 1..n : \A a \in A : g[<<k, a>>] \in A
  PROVE  \E h \in [SUBSET (1..n) -> A] : IsLoop(n, base, g, h)
<1> DEFINE T == 1..n
           m == [s \in SUBSET T |-> Max(s)]
<1>1. IsFiniteSet(T)
  BY FS_Interval
<1>2. \A s \in SUBSET T : m[s] = Max(s)
  OBVIOUS
<1>3. \A s \in SUBSET T : s # {} => m[s] \in s
  BY LargestIn
<1>4. \A k \in T : \A a \in A : g[<<k, a>>] \in A
  OBVIOUS
<1> HIDE DEF T, m
<1>5. PICK h \in [SUBSET T -> A] : IsFold(g, m, base, T, h)
  BY <1>1, <1>3, <1>4, FoldExists
<1>6. \A s \in SUBSET T : h[s] = Folds(g, m, base, h, s)
  BY <1>5 DEF IsFold
<1>7. \A s \in SUBSET T : h[s] = IF s = {} THEN base ELSE g[<<Max(s), h[s \ {Max(s)}]>>]
  BY <1>2, <1>6 DEF Folds
<1> QED
  BY <1>7 DEF T, IsLoop

\* What each step of a loop keeps, its end has.
LEMMA LoopKeeps ==
  ASSUME NEW n \in Nat, NEW A, NEW h, h[{}] \in A,
         \A s \in SUBSET (1..n) : s # {} /\ Max(s) \in s /\ h[s \ {Max(s)}] \in A => h[s] \in A
  PROVE  h[1..n] \in A
<1> DEFINE T == 1..n
           m == [s \in SUBSET T |-> Max(s)]
<1>1. IsFiniteSet(T)
  BY FS_Interval
<1>2. \A s \in SUBSET T : m[s] = Max(s)
  OBVIOUS
<1>3. \A s \in SUBSET T : s # {} => m[s] \in s
  BY LargestIn
<1>4. \A s \in SUBSET T : s # {} /\ h[s \ {m[s]}] \in A => h[s] \in A
  BY <1>2, <1>3
<1> HIDE DEF T, m
<1>5. h[T] \in A
  BY <1>1, <1>3, <1>4, FoldKeeps
<1> QED
  BY <1>5 DEF T

\* Separated.
Sep(acc, p) == IF acc = <<>> THEN p ELSE acc \o <<Comma>> \o p
SepLoop(ps, h) ==
  h = [s \in SUBSET (DOMAIN ps) |-> IF s = {} THEN <<>> ELSE Sep(h[s \ {Max(s)}], ps[Max(s)])]

LEMMA SeparatedLoop ==
  ASSUME NEW ps
  PROVE  Separated(ps) = (CHOOSE h : SepLoop(ps, h))[DOMAIN ps]
BY DEF Separated, FoldLeft, MapThenFoldSet, SepLoop, Sep

LEMMA SeparatedType ==
  ASSUME NEW n \in Nat, NEW ps \in [1..n -> Seq(Pieces)]
  PROVE  Separated(ps) \in Seq(Pieces)
<1> DEFINE A == Seq(Pieces)
           g == [x \in (1..n) \X A |-> Sep(x[2], ps[x[1]])]
<1>1. \A a, b \in A : Sep(a, b) \in A
  BY PieceTypes, PieceLists DEF Sep
<1>2. <<>> \in A /\ \A k \in 1..n : ps[k] \in A
  BY PieceLists
<1> HIDE DEF A
<1>3. \A k \in 1..n : \A a \in A : g[<<k, a>>] = Sep(a, ps[k]) /\ g[<<k, a>>] \in A
  BY <1>1, <1>2
<1> DEFINE e == <<>>
<1> HIDE DEF g, e
<1>4. PICK h \in [SUBSET (1..n) -> A] : IsLoop(n, e, g, h)
  <2>1. e \in A
    BY <1>2 DEF e
  <2>2. \A k \in 1..n : \A a \in A : g[<<k, a>>] \in A
    BY <1>3
  <2> QED
    BY <2>1, <2>2, LoopExists
<1>5. ASSUME NEW s \in SUBSET (1..n), s # {}
      PROVE  h[s] = Sep(h[s \ {Max(s)}], ps[Max(s)])
  <2>1. h[s] = g[<<Max(s), h[s \ {Max(s)}]>>]
    BY <1>4, <1>5 DEF IsLoop
  <2>2. Max(s) \in 1..n /\ h[s \ {Max(s)}] \in A
    BY <1>4, <1>5, LargestIn
  <2> QED
    BY <1>3, <2>1, <2>2
<1>6. DOMAIN ps = 1..n
  OBVIOUS
<1>7. SepLoop(ps, h)
  <2>1. h = [s \in SUBSET (1..n) |-> IF s = {} THEN <<>> ELSE Sep(h[s \ {Max(s)}], ps[Max(s)])]
    BY <1>4, <1>5 DEF e, IsLoop
  <2> QED
    BY <1>6, <2>1 DEF SepLoop
<1> DEFINE c == CHOOSE f : SepLoop(ps, f)
<1>8. SepLoop(ps, c)
  BY <1>7
<1> HIDE DEF c
<1>9. \A s \in SUBSET (1..n) : c[s] = IF s = {} THEN <<>> ELSE Sep(c[s \ {Max(s)}], ps[Max(s)])
  BY <1>6, <1>8 DEF SepLoop
<1>10. c[{}] \in A
  BY <1>2, <1>9
<1>11. ASSUME NEW s \in SUBSET (1..n), s # {}, Max(s) \in s, c[s \ {Max(s)}] \in A
       PROVE  c[s] \in A
  <2>1. ps[Max(s)] \in A
    BY <1>2, <1>11
  <2>2. Sep(c[s \ {Max(s)}], ps[Max(s)]) \in A
    BY <1>1, <1>11, <2>1
  <2> QED
    BY <1>9, <1>11, <2>2
<1>12. c[1..n] \in A
  BY <1>10, <1>11, LoopKeeps
<1> QED
  BY <1>6, <1>12, SeparatedLoop DEF A, c


LEMMA StringCat ==
  ASSUME NEW s \in String, NEW t \in String
  PROVE  /\ s \o t \in String /\ Len(s) \in Nat /\ Len(t) \in Nat /\ Len(s \o t) = Len(s) + Len(t)
         /\ \A k \in 1..Len(s) : (s \o t)[k] = s[k]
         /\ \A k \in 1..Len(t) : (s \o t)[Len(s) + k] = t[k]
<1> HIDE DEF Chars
<1> QED
  BY DEF String

\* mywrite_stresc.
LEMMA EscapeType ==
  ASSUME NEW b \in STRING
  PROVE  Kescstr(b) \in String /\ Len(Kescstr(b)) \in 1..4
<1>1. /\ <<"\\", "n">> \in String /\ <<"\\", "\"">> \in String
      /\ <<"\\", "x", "f", "f">> \in String /\ <<b>> \in String
  BY Literals, TextTypes
<1>2. /\ Len(<<"\\", "n">>) = 2 /\ Len(<<"\\", "\"">>) = 2
      /\ Len(<<"\\", "x", "f", "f">>) = 4 /\ Len(<<b>>) = 1
  OBVIOUS
<1> DEFINE e == Kescstr(b)
<1>e. SUFFICES e \in String /\ Len(e) \in 1..4
  OBVIOUS
<1>3. CASE b = "\n"
  <2>1. e = <<"\\", "n">>
    BY <1>3 DEF Kescstr
  <2> HIDE DEF e
  <2>2. Len(e) = 2 /\ e \in String
    BY <1>1, <1>2, <2>1, Zenon
  <2> QED
    BY <2>2
<1>4. CASE b = "\"" /\ b # "\n"
  <2>1. e = <<"\\", "\"">>
    BY <1>4 DEF Kescstr
  <2> HIDE DEF e
  <2>2. Len(e) = 2 /\ e \in String
    BY <1>1, <1>2, <2>1, Zenon
  <2> QED
    BY <2>2
<1>5. CASE b = "HIGH" /\ b # "\"" /\ b # "\n"
  <2>1. e = <<"\\", "x", "f", "f">>
    BY <1>5 DEF Kescstr
  <2> HIDE DEF e
  <2>2. Len(e) = 4 /\ e \in String
    BY <1>1, <1>2, <2>1, Zenon
  <2> QED
    BY <2>2
<1>6. CASE b # "HIGH" /\ b # "\"" /\ b # "\n"
  <2>1. e = <<b>>
    BY <1>6 DEF Kescstr
  <2> HIDE DEF e
  <2>2. Len(e) = 1 /\ e \in String
    BY <1>1, <1>2, <2>1, Zenon
  <2> QED
    BY <2>2
<1> QED
  BY <1>3, <1>4, <1>5, <1>6

Escaped(acc, b) ==
  IF Full(acc.tmp) THEN [sent |-> Append(acc.sent, Bytes(acc.tmp)), tmp |-> Kescstr(b)]
  ELSE [acc EXCEPT !.tmp = @ \o Kescstr(b)]
Unescaped == [sent |-> <<>>, tmp |-> <<"\"">>]
EscapeLoop(s, h) ==
  h = [u \in SUBSET (DOMAIN s) |-> IF u = {} THEN Unescaped ELSE Escaped(h[u \ {Max(u)}], s[Max(u)])]

LEMMA EscapedLoop ==
  ASSUME NEW s
  PROVE  LET end == (CHOOSE h : EscapeLoop(s, h))[DOMAIN s]
         IN  mywrite_stresc(s) = Append(end.sent, Bytes(Append(end.tmp, "\"")))
BY DEF mywrite_stresc, FoldLeft, MapThenFoldSet, EscapeLoop, Escaped, Unescaped

\* Every portion fits into the array.
Portions == {p \in Pieces : Len(p.bytes) <= TMP_LEN}

LEMMA RoomForOne ==
  ASSUME NEW k \in Nat, NEW a \in 0..k, NEW b \in 1..4
  PROVE  b <= k + 4 /\ a + b <= k + 4
OBVIOUS

LEMMA EscapedType ==
  ASSUME NEW s \in Seq(STRING)
  PROVE  mywrite_stresc(s) \in Seq(Portions)
<1> DEFINE n == Len(s)
           B == {t \in String : Len(t) <= TMP_EVERY + 4}
           A == [sent : Seq(Portions), tmp : B]
           g == [x \in (1..n) \X A |-> Escaped(x[2], s[x[1]])]
<1>0. TMP_EVERY \in Nat /\ TMP_EVERY >= 1 /\ TMP_LEN = TMP_EVERY + 16
  BY OutputAssumption DEF TMP_LEN
<1>a. ASSUME NEW t \in String, Len(t) <= TMP_EVERY + 5
      PROVE  Bytes(t) \in Portions
  <2>1. Bytes(t) \in Pieces /\ Bytes(t).bytes = t
    BY PieceTypes DEF Bytes
  <2>2. Len(t) \in Nat
    BY Strings DEF IsSeq
  <2>3. Len(t) <= TMP_LEN
    BY <1>0, <1>a, <2>2
  <2> QED
    BY <2>1, <2>3 DEF Portions
<1>b. ASSUME NEW t \in String, Len(t) <= TMP_EVERY + 4
      PROVE  t \in B
  BY <1>b
<1>1. ASSUME NEW acc \in A, NEW b \in STRING
      PROVE  Escaped(acc, b) \in A
  <2> DEFINE t == acc.tmp
             e == Kescstr(b)
  <2>1. e \in String /\ Len(e) \in 1..4 /\ t \in String /\ Len(t) <= TMP_EVERY + 4 /\ acc.sent \in Seq(Portions)
    BY EscapeType
  <2>2. Len(t) \in Nat /\ t \o e \in String /\ Len(t \o e) = Len(t) + Len(e)
    BY <2>1, StringCat
  <2>3. CASE Full(t)
    <3>1. Bytes(t) \in Portions
      BY <1>0, <1>a, <2>1, <2>2
    <3>2. Append(acc.sent, Bytes(t)) \in Seq(Portions)
      BY <2>1, <3>1
    <3>3. e \in B
      <4> HIDE DEF A, B, e, t
      <4>1. Len(e) <= TMP_EVERY + 4
        <5>1. TMP_EVERY \in Nat /\ 0 \in 0..TMP_EVERY
          BY <1>0
        <5>2. Len(e) \in 1..4
          BY <2>1
        <5> QED
          BY <5>1, <5>2, RoomForOne, Zenon
      <4> QED
        BY <1>b, <2>1, <4>1
    <3>4. Escaped(acc, b) = [sent |-> Append(acc.sent, Bytes(t)), tmp |-> e]
      BY <2>3 DEF Escaped
    <3> HIDE DEF B, e, t
    <3> QED
      BY <3>2, <3>3, <3>4
  <2>4. CASE ~Full(t)
    <3>1. Len(t) <= TMP_EVERY
      BY <1>0, <2>2, <2>4 DEF Full
    <3>2. t \o e \in B
      <4> DEFINE u == t \o e
      <4>1. u \in String /\ Len(u) = Len(t) + Len(e)
        BY <2>2
      <4> HIDE DEF A, B, e, t, u
      <4>2. Len(u) <= TMP_EVERY + 4
        <5>1. TMP_EVERY \in Nat
          BY <1>0
        <5>2. Len(t) \in 0..TMP_EVERY
          BY <2>2, <3>1, <5>1
        <5>3. Len(e) \in 1..4
          BY <2>1
        <5>4. Len(t) + Len(e) <= TMP_EVERY + 4
          BY <5>1, <5>2, <5>3, RoomForOne, Zenon
        <5> QED
          BY <4>1, <5>4, Zenon
      <4>3. u \in B
        BY <1>b, <4>1, <4>2
      <4> QED
        BY <4>3 DEF u
    <3>3. Escaped(acc, b) = [acc EXCEPT !.tmp = t \o e]
      BY <2>4 DEF Escaped
    <3> HIDE DEF B, e, t
    <3> QED
      BY <3>2, <3>3
  <2> QED
    BY <2>3, <2>4
<1>2. Unescaped \in A
  <2> DEFINE q == <<"\"">>
  <2>1. q \in String /\ Len(q) = 1
    BY Literals
  <2>2. q \in B
    <3> HIDE DEF B, q
    <3>1. Len(q) <= TMP_EVERY + 4
      BY <1>0, <2>1
    <3> QED
      BY <1>b, <2>1, <3>1
  <2>3. <<>> \in Seq(Portions)
    OBVIOUS
  <2> HIDE DEF B
  <2> QED
    BY <2>2, <2>3 DEF Unescaped
<1>3. n \in Nat /\ DOMAIN s = 1..n /\ \A k \in 1..n : s[k] \in STRING
  OBVIOUS
<1> HIDE DEF A, n
<1>4. \A k \in 1..n : \A a \in A : g[<<k, a>>] = Escaped(a, s[k])
  OBVIOUS
<1>5. \A k \in 1..n : \A a \in A : g[<<k, a>>] \in A
  BY <1>1, <1>3, <1>4
<1> HIDE DEF g
<1>6. PICK h \in [SUBSET (1..n) -> A] : IsLoop(n, Unescaped, g, h)
  BY <1>2, <1>3, <1>5, LoopExists
<1>7. ASSUME NEW u \in SUBSET (1..n), u # {}
      PROVE  h[u] = Escaped(h[u \ {Max(u)}], s[Max(u)])
  <2>1. h[u] = g[<<Max(u), h[u \ {Max(u)}]>>]
    BY <1>6, <1>7 DEF IsLoop
  <2>2. Max(u) \in 1..n /\ h[u \ {Max(u)}] \in A
    BY <1>3, <1>6, <1>7, LargestIn
  <2> QED
    BY <1>4, <2>1, <2>2
<1>8. EscapeLoop(s, h)
  <2>1. h = [u \in SUBSET (1..n) |-> IF u = {} THEN Unescaped ELSE Escaped(h[u \ {Max(u)}], s[Max(u)])]
    BY <1>6, <1>7 DEF IsLoop
  <2> QED
    BY <1>3, <2>1 DEF EscapeLoop
<1> DEFINE c == CHOOSE f : EscapeLoop(s, f)
<1>9. EscapeLoop(s, c)
  BY <1>8
<1> HIDE DEF c
<1>10. \A u \in SUBSET (1..n) : c[u] = IF u = {} THEN Unescaped ELSE Escaped(c[u \ {Max(u)}], s[Max(u)])
  BY <1>3, <1>9 DEF EscapeLoop
<1>11. c[{}] \in A
  BY <1>2, <1>10
<1>12. ASSUME NEW u \in SUBSET (1..n), u # {}, Max(u) \in u, c[u \ {Max(u)}] \in A
       PROVE  c[u] \in A
  <2>1. Escaped(c[u \ {Max(u)}], s[Max(u)]) \in A
    BY <1>1, <1>3, <1>12
  <2> QED
    BY <1>10, <1>12, <2>1
<1>13. c[1..n] \in A
  BY <1>3, <1>11, <1>12, LoopKeeps
<1> DEFINE end == c[1..n]
<1>14. mywrite_stresc(s) = Append(end.sent, Bytes(Append(end.tmp, "\"")))
  BY <1>3, EscapedLoop DEF c
<1>15. end.sent \in Seq(Portions) /\ end.tmp \in String /\ Len(end.tmp) <= TMP_EVERY + 4
  BY <1>13 DEF A
<1> HIDE DEF end
<1>16. "\"" \in Chars
  BY DEF Chars
<1>17. Bytes(Append(end.tmp, "\"")) \in Portions
  <2> DEFINE t == end.tmp
             u == Append(t, "\"")
  <2>1. u \in String
    BY <1>15, <1>16, Strings
  <2>2. Len(u) = Len(t) + 1 /\ Len(t) \in Nat
    <3> HIDE DEF t
    <3>1. IsSeq(t)
      BY <1>15, Strings DEF t
    <3> QED
      BY <3>1, Longer
  <2>3. Len(u) <= TMP_EVERY + 5
    BY <1>0, <1>15, <2>2
  <2> HIDE DEF u
  <2> QED
    BY <1>a, <2>1, <2>3 DEF u
<1> DEFINE last == Bytes(Append(end.tmp, "\""))
           sent == end.sent
<1> HIDE DEF last, sent
<1>18. sent \in Seq(Portions) /\ last \in Portions
  BY <1>15, <1>17 DEF sent, last
<1>19. Append(sent, last) \in Seq(Portions)
  BY <1>18
<1> QED
  BY <1>14, <1>19 DEF sent, last

\* kwriteR and the others that write an object.
LEMMA ReprsType ==
  ASSUME NEW els \in Seq(Objects)
  PROVE  Reprs(els) \in Seq(Pieces)
<1> DEFINE ps == [k \in DOMAIN els |-> <<Repr(els[k])>>]
<1>1. Len(els) \in Nat /\ DOMAIN els = 1..Len(els) /\ \A k \in 1..Len(els) : els[k] \in Objects
  OBVIOUS
<1>2. \A k \in 1..Len(els) : <<Repr(els[k])>> \in Seq(Pieces)
  BY <1>1, PieceTypes, PieceLists
<1>3. ps \in [1..Len(els) -> Seq(Pieces)]
  BY <1>1, <1>2
<1> HIDE DEF ps
<1>4. Separated(ps) \in Seq(Pieces)
  BY <1>1, <1>3, SeparatedType
<1> QED
  BY <1>4 DEF Reprs, ps

LEMMA EntriesType ==
  ASSUME NEW entries \in Seq(Objects \X Objects)
  PROVE  Separated([k \in DOMAIN entries |-> <<Repr(entries[k][1]), Bytes(<<":", " ">>), Repr(entries[k][2])>>])
           \in Seq(Pieces)
<1> DEFINE ps == [k \in DOMAIN entries |-> <<Repr(entries[k][1]), Bytes(<<":", " ">>), Repr(entries[k][2])>>]
           n == Len(entries)
<1>1. /\ n \in Nat /\ DOMAIN entries = 1..n
      /\ \A k \in 1..n : entries[k][1] \in Objects /\ entries[k][2] \in Objects
  OBVIOUS
<1>2. Bytes(<<":", " ">>) \in Pieces
  BY Literals, PieceTypes
<1>3. \A k \in 1..n : Repr(entries[k][1]) \in Pieces /\ Repr(entries[k][2]) \in Pieces
  BY <1>1, PieceTypes
<1>4. \A p, q, r \in Pieces : <<p, q, r>> \in Seq(Pieces)
  OBVIOUS
<1>5. ps \in [1..n -> Seq(Pieces)]
  <2>1. \A k \in 1..n : <<Repr(entries[k][1]), Bytes(<<":", " ">>), Repr(entries[k][2])>> \in Seq(Pieces)
    BY <1>2, <1>3, <1>4
  <2> QED
    BY <1>1, <2>1
<1> HIDE DEF ps, n
<1>6. Separated(ps) \in Seq(Pieces)
  BY <1>1, <1>5, SeparatedType
<1> QED
  BY <1>6 DEF ps

LEMMA kwriteRType ==
  ASSUME NEW o \in Objects
  PROVE  kwriteR(o) \in Seq(Pieces)
<1>1. /\ o.type \in {"str", "int", "float"} => o.val \in Seq(STRING)
      /\ o.type \in {"tuple", "list", "ast"} => o.val \in Seq(Objects)
      /\ o.type = "dict" => o.val \in Seq(Objects \X Objects)
      /\ o.type = "tok" => o.val \in Int \X Int
  BY OutputAssumption DEF ObjectsOK
<1>2. /\ Bytes(<<"(">>) \in Pieces /\ Bytes(<<")">>) \in Pieces /\ Bytes(<<"[">>) \in Pieces
      /\ Bytes(<<"]">>) \in Pieces /\ Bytes(<<"{">>) \in Pieces /\ Bytes(<<"}">>) \in Pieces
      /\ Bytes(<<"a", "d", "d", "(">>) \in Pieces /\ Bytes(<<"t", "(">>) \in Pieces
      /\ Comma \in Pieces /\ Fails \in Pieces
  BY Literals, PieceTypes
<1>3. /\ <<Bytes(<<"(">>)>> \in Seq(Pieces) /\ <<Bytes(<<")">>)>> \in Seq(Pieces) /\ <<Bytes(<<"[">>)>> \in Seq(Pieces)
      /\ <<Bytes(<<"]">>)>> \in Seq(Pieces) /\ <<Bytes(<<"{">>)>> \in Seq(Pieces) /\ <<Bytes(<<"}">>)>> \in Seq(Pieces)
      /\ <<Bytes(<<"a", "d", "d", "(">>)>> \in Seq(Pieces) /\ <<Bytes(<<"t", "(">>)>> \in Seq(Pieces)
      /\ <<Comma>> \in Seq(Pieces) /\ <<Fails>> \in Seq(Pieces) /\ <<>> \in Seq(Pieces)
  BY <1>2, PieceLists
<1>4. \A p, q \in Seq(Pieces) : p \o q \in Seq(Pieces)
  BY PieceLists
<1>5. CASE o.type = "str"
  <2>1. mywrite_stresc(o.val) \in Seq(Pieces)
    <3>1. mywrite_stresc(o.val) \in Seq(Portions)
      BY <1>1, <1>5, EscapedType
    <3>2. Portions \subseteq Pieces
      BY DEF Portions
    <3> QED
      BY <3>1, <3>2, Wider
  <2> QED
    BY <1>5, <2>1 DEF kwriteR
<1>6. CASE o.type \in {"int", "float"}
  <2>1. <<Bytes(o.val)>> \in Seq(Pieces)
    BY <1>1, <1>6, TextTypes, PieceTypes, PieceLists
  <2> QED
    BY <1>6, <2>1 DEF kwriteR
<1>7. CASE o.type \in {"tuple", "list", "ast"}
  <2>1. Reprs(o.val) \in Seq(Pieces)
    BY <1>1, <1>7, ReprsType
  <2>2. /\ <<Bytes(<<"(">>)>> \o Reprs(o.val) \o (IF Len(o.val) = 1 THEN <<Comma>> ELSE <<>>) \o <<Bytes(<<")">>)>>
             \in Seq(Pieces)
        /\ <<Bytes(<<"[">>)>> \o Reprs(o.val) \o <<Bytes(<<"]">>)>> \in Seq(Pieces)
        /\ <<Bytes(<<"a", "d", "d", "(">>)>> \o Reprs(o.val) \o <<Bytes(<<")">>)>> \in Seq(Pieces)
    BY <1>3, <1>4, <2>1
  <2> QED
    BY <1>7, <2>2 DEF kwriteR
<1>8. CASE o.type = "dict"
  <2> DEFINE body == Separated([k \in DOMAIN o.val |-> <<Repr(o.val[k][1]), Bytes(<<":", " ">>), Repr(o.val[k][2])>>])
  <2>1. body \in Seq(Pieces)
    BY <1>1, <1>8, EntriesType
  <2>2. kwriteR(o) = <<Bytes(<<"{">>)>> \o body \o <<Bytes(<<"}">>)>>
    BY <1>8 DEF kwriteR
  <2> HIDE DEF body
  <2>3. <<Bytes(<<"{">>)>> \o body \o <<Bytes(<<"}">>)>> \in Seq(Pieces)
    BY <1>3, <1>4, <2>1
  <2> QED
    BY <2>2, <2>3
<1>9. CASE o.type = "tok"
  <2>1. o.val[1] \in Int /\ o.val[2] \in Int
    BY <1>1, <1>9
  <2>2. kwrites(o.val[1], 10) \in Seq(Pieces) /\ kwrites(o.val[2], 10) \in Seq(Pieces)
    BY <2>1, NumberPieces
  <2>3. <<Bytes(<<"t", "(">>)>> \o kwrites(o.val[1], 10) \o <<Comma>> \o kwrites(o.val[2], 10) \o <<Bytes(<<")">>)>>
          \in Seq(Pieces)
    BY <1>3, <1>4, <2>2
  <2> QED
    BY <1>9, <2>3 DEF kwriteR
<1>10. CASE o.type \notin {"str", "int", "float", "tuple", "list", "ast", "dict", "tok"}
  BY <1>3, <1>10 DEF kwriteR
<1> QED
  BY <1>5, <1>6, <1>7, <1>8, <1>9, <1>10


LEMMA WidthType ==
  ASSUME NEW w
  PROVE  Width(w) \in Seq(Pieces)
<1>1. <<Fails>> \in Seq(Pieces) /\ <<>> \in Seq(Pieces)
  BY PieceTypes, PieceLists
<1> QED
  BY <1>1 DEF Width

\* A directive.
LEMMA ConvertedType ==
  ASSUME NEW d \in Directives, NEW arg, ArgumentOK(d.conv, arg)
  PROVE  Converted(d, arg) \in Seq(Pieces)
<1> DEFINE P == Seq(Pieces)
<1>1. <<>> \in P /\ (\A p \in Pieces : <<p>> \in P) /\ (\A p, q \in P : p \o q \in P) /\ (\A p, q \in Pieces : <<p, q>> \in P)
      /\ \A p, q, r \in Pieces : <<p, q, r>> \in P
  OBVIOUS
<1> HIDE DEF P
<1>2. /\ <<Fails>> \in P /\ Comma \in Pieces /\ <<Bytes(<<"%">>)>> \in P /\ <<Bytes(<<"0", "x">>)>> \in P
      /\ Bytes(<<"<">>) \in Pieces /\ Bytes(<<" ", "@", " ", "0", "x">>) \in Pieces
      /\ \A w : Width(w) \in P
  BY <1>1, Literals, PieceTypes, WidthType DEF P
<1>3. CASE d.conv = "" \/ ~d.flags
  BY <1>1, <1>2, <1>3 DEF Converted, P
<1>4. CASE d.conv \in {"i", "v", "u", "p"} /\ d.flags
  <2>1. arg \in Int
    BY <1>4 DEF ArgumentOK
  <2>2. kwrites(arg, 10) \in P /\ kwriteu(arg, 10) \in P /\ kwriteu(arg, 16) \in P
    BY <2>1, NumberPieces DEF P
  <2>3. /\ Width(d.width) \o kwrites(arg, 10) \in P /\ Width(d.width) \o kwriteu(arg, 10) \in P
        /\ <<Bytes(<<"0", "x">>)>> \o Width(d.prec) \o kwriteu(arg, 16) \in P
    BY <1>1, <1>2, <2>2
  <2> QED
    BY <1>4, <2>3 DEF Converted, P
<1>5. CASE d.conv \in {"s", "f"} /\ d.flags
  <2>1. arg \in Seq(STRING) /\ (d.conv = "f" => arg # <<>>)
    BY <1>5 DEF ArgumentOK
  <2>2. <<Bytes(arg)>> \in P
    BY <1>1, <2>1, TextTypes, PieceTypes
  <2>3. d.conv = "f" => Width(d.width) \o kwritef(arg) \in P
    BY <1>1, <1>2, <2>1, FloatPieces DEF P
  <2> QED
    BY <1>5, <2>2, <2>3 DEF Converted, P
<1>6. CASE d.conv = "O" /\ d.flags
  <2>1. <<arg.type>> \in String
    BY <1>6, TextTypes DEF ArgumentOK
  <2>2. <<Bytes(<<"<">>), Bytes(<<arg.type>>), Bytes(<<" ", "@", " ", "0", "x">>)>> \in P
    BY <1>1, <1>2, <2>1, PieceTypes
  <2>3. <<Bytes(<<"<">>), Bytes(<<arg.type>>), Bytes(<<" ", "@", " ", "0", "x">>)>> \o Width(-1) \in P
    BY <1>1, <1>2, <2>2
  <2> QED
    BY <1>6, <2>3 DEF Converted, P
<1>7. CASE d.conv \in {"R", "S", "B", "Y", "J"} /\ d.flags
  <2>1. arg \in Objects /\ (d.conv = "J" => arg.val \in Seq(Objects))
    BY <1>7 DEF ArgumentOK
  <2>2. arg.type \in {"str"} => <<Bytes(arg.val)>> \in P
    <3>1. arg.type = "str" => arg.val \in Seq(STRING)
      BY <2>1, OutputAssumption DEF ObjectsOK
    <3> QED
      BY <1>1, <3>1, TextTypes, PieceTypes
  <2>3. <<Repr(arg)>> \in P /\ <<Comma, Repr(arg)>> \in P
    BY <1>1, <1>2, <2>1, PieceTypes
  <2>4. kwriteB(arg) \in P
    BY <1>2, <2>2 DEF kwriteB
  <2>5. kwriteS(arg) \in P
    BY <1>2, <2>2, <2>3 DEF kwriteS
  <2>6. d.conv = "J" => Reprs(arg.val) \in P
    BY <2>1, ReprsType DEF P
  <2> QED
    BY <1>1, <1>7, <2>3, <2>4, <2>5, <2>6 DEF Converted, P
<1>8. CASE d.conv = "%" /\ d.flags
  BY <1>2, <1>8 DEF Converted, P
<1>9. CASE d.conv \notin {"", "%", "i", "v", "u", "f", "s", "p", "O", "B", "S", "R", "J", "Y"} /\ d.flags
  BY <1>2, <1>9 DEF Converted, P
<1> QED
  BY <1>3, <1>4, <1>5, <1>6, <1>7, <1>8, <1>9

\* kprintfv.
Printed(acc, d, arg) == acc \o <<Bytes(d.text)>> \o Converted(d, arg)
PrintLoop(fmt, args, h) ==
  h = [s \in SUBSET (DOMAIN fmt) |-> IF s = {} THEN <<>> ELSE Printed(h[s \ {Max(s)}], fmt[Max(s)], args[Max(s)])]

LEMMA PrintedLoop ==
  ASSUME NEW n \in Nat, NEW fmt, DOMAIN fmt = 1..n, NEW args
  PROVE  kprintfv(fmt, args) = (CHOOSE h : PrintLoop(fmt, args, h))[1..n]
<1> DEFINE T == 1..n
           ids == [k \in DOMAIN fmt |-> k]
           Loop(h) ==
             h = [s \in SUBSET (DOMAIN ids) |->
                    IF s = {} THEN <<>> ELSE Printed(h[s \ {Max(s)}], fmt[ids[Max(s)]], args[ids[Max(s)]])]
<1>1. kprintfv(fmt, args) = (CHOOSE h : Loop(h))[DOMAIN ids]
  BY DEF kprintfv, FoldLeft, MapThenFoldSet, Printed
<1>2. DOMAIN ids = T /\ DOMAIN fmt = T /\ \A s \in SUBSET T : s # {} => ids[Max(s)] = Max(s)
  BY LargestIn
<1> HIDE DEF ids, T
<1>3. \A h : [s \in SUBSET T |->
               IF s = {} THEN <<>> ELSE Printed(h[s \ {Max(s)}], fmt[ids[Max(s)]], args[ids[Max(s)]])]
             = [s \in SUBSET T |-> IF s = {} THEN <<>> ELSE Printed(h[s \ {Max(s)}], fmt[Max(s)], args[Max(s)])]
  BY <1>2
<1>4. \A h : Loop(h) <=> PrintLoop(fmt, args, h)
  BY <1>2, <1>3 DEF PrintLoop
<1> HIDE DEF Loop
<1>5. (CHOOSE h : Loop(h)) = (CHOOSE h : PrintLoop(fmt, args, h))
  BY <1>4
<1> QED
  BY <1>1, <1>2, <1>5 DEF T

LEMMA kprintfvType ==
  ASSUME NEW c \in DOMAIN Calls
  PROVE  kprintfv(Calls[c].fmt, Calls[c].args) \in Seq(Pieces)
<1> DEFINE fmt == Calls[c].fmt
           args == Calls[c].args
           n == Len(fmt)
           A == Seq(Pieces)
           g == [x \in (1..n) \X A |-> Printed(x[2], fmt[x[1]], args[x[1]])]
           e == <<>>
<1>1. fmt \in Seq(Directives) /\ \A k \in DOMAIN fmt : ArgumentOK(fmt[k].conv, args[k])
  BY OutputAssumption DEF CallsOK
<1>2. n \in Nat /\ DOMAIN fmt = 1..n /\ \A k \in 1..n : fmt[k] \in Directives /\ ArgumentOK(fmt[k].conv, args[k])
  BY <1>1
<1> HIDE DEF fmt, args, n
<1>3. ASSUME NEW k \in 1..n, NEW acc \in A
      PROVE  Printed(acc, fmt[k], args[k]) \in A
  <2>1. Converted(fmt[k], args[k]) \in A
    BY <1>2, ConvertedType
  <2>2. fmt[k].text \in Seq(STRING)
    BY <1>2 DEF Directives
  <2>3. <<Bytes(fmt[k].text)>> \in A
    BY <2>2, TextTypes, PieceTypes, PieceLists
  <2> QED
    BY <2>1, <2>3, PieceLists DEF Printed
<1>4. e \in A
  BY PieceLists
<1> HIDE DEF A
<1>5. \A k \in 1..n : \A a \in A : g[<<k, a>>] = Printed(a, fmt[k], args[k])
  OBVIOUS
<1>6. \A k \in 1..n : \A a \in A : g[<<k, a>>] \in A
  BY <1>3, <1>5
<1> HIDE DEF g, e
<1>7. PICK h \in [SUBSET (1..n) -> A] : IsLoop(n, e, g, h)
  BY <1>2, <1>4, <1>6, LoopExists
<1>8. ASSUME NEW s \in SUBSET (1..n), s # {}
      PROVE  h[s] = Printed(h[s \ {Max(s)}], fmt[Max(s)], args[Max(s)])
  <2>1. h[s] = g[<<Max(s), h[s \ {Max(s)}]>>]
    BY <1>7, <1>8 DEF IsLoop
  <2>2. Max(s) \in 1..n /\ h[s \ {Max(s)}] \in A
    BY <1>2, <1>7, <1>8, LargestIn
  <2> QED
    BY <1>5, <2>1, <2>2
<1>9. PrintLoop(fmt, args, h)
  <2>1. h = [s \in SUBSET (1..n) |-> IF s = {} THEN <<>> ELSE Printed(h[s \ {Max(s)}], fmt[Max(s)], args[Max(s)])]
    BY <1>7, <1>8 DEF IsLoop, e
  <2> QED
    BY <1>2, <2>1 DEF PrintLoop
<1> DEFINE l == CHOOSE f : PrintLoop(fmt, args, f)
<1>10. PrintLoop(fmt, args, l)
  BY <1>9
<1> HIDE DEF l
<1>11. \A s \in SUBSET (1..n) : l[s] = IF s = {} THEN e ELSE Printed(l[s \ {Max(s)}], fmt[Max(s)], args[Max(s)])
  BY <1>2, <1>10 DEF PrintLoop, e
<1>12. l[{}] \in A
  BY <1>4, <1>11
<1>13. ASSUME NEW s \in SUBSET (1..n), s # {}, Max(s) \in s, l[s \ {Max(s)}] \in A
       PROVE  l[s] \in A
  <2>1. Printed(l[s \ {Max(s)}], fmt[Max(s)], args[Max(s)]) \in A
    BY <1>3, <1>13
  <2> QED
    BY <1>11, <1>13, <2>1
<1>14. l[1..n] \in A
  BY <1>2, <1>12, <1>13, LoopKeeps
<1>15. kprintfv(fmt, args) = l[1..n]
  BY <1>2, PrintedLoop DEF l
<1> QED
  BY <1>14, <1>15 DEF A, fmt, args


(***************************************************************************)
(* Storing bytes.                                                          *)
(***************************************************************************)

IoObjects == [type : {"buffer", "rawio", "other"}, len : Nat, cap : Nat, pos : Nat, data : String]

LEMMA StringParts ==
  ASSUME NEW s \in String, NEW m \in Nat, NEW n \in Nat, m <= n, n <= Len(s)
  PROVE  /\ SubSeq(s, m + 1, n) \in String
         /\ Len(SubSeq(s, m + 1, n)) = n - m
         /\ \A k \in 1..(n - m) : SubSeq(s, m + 1, n)[k] = s[m + k]
<1>1. IsSeq(s)
  BY Strings
<1> HIDE DEF Chars
<1>2. SubSeq(s, m + 1, n) \in String
  <2>1. \A k \in (m + 1)..n : s[k] \in Chars
    BY DEF String
  <2> QED
    BY <2>1, SubSeqProperties DEF String
<1> QED
  BY <1>1, <1>2, Part

LEMMA StringsSame ==
  ASSUME NEW s \in String, NEW t \in String, Len(s) = Len(t), \A k \in 1..Len(s) : s[k] = t[k]
  PROVE  s = t
<1> HIDE DEF Chars
<1> QED
  BY DEF String

\* s with Stale up to n.
LEMMA PaddedType ==
  ASSUME NEW s \in String, NEW n \in Nat
  PROVE  /\ Padded(s, n) \in String
         /\ Len(Padded(s, n)) = IF n <= Len(s) THEN Len(s) ELSE n
         /\ \A k \in 1..Len(s) : Padded(s, n)[k] = s[k]
         /\ \A k \in (Len(s) + 1)..n : Padded(s, n)[k] = Stale
<1> DEFINE m == IF n <= Len(s) THEN 0 ELSE n - Len(s)
           t == [k \in 1..(n - Len(s)) |-> Stale]
<1>1. Len(s) \in Nat
  BY DEF String
<1>2. Stale \in Chars
  BY DEF Chars
<1> HIDE DEF Chars
<1>3. m \in Nat /\ 1..(n - Len(s)) = 1..m
  BY <1>1
<1> HIDE DEF m
<1>4. t = [k \in 1..m |-> Stale]
  BY <1>3
<1> HIDE DEF t
<1>5. t \in String /\ Len(t) = m /\ \A k \in 1..m : t[k] = Stale
  BY <1>2, <1>3, <1>4 DEF String
<1>6. Padded(s, n) = s \o t
  BY DEF Padded, t
<1> DEFINE p == s \o t
<1>7. /\ p \in String /\ Len(p) = Len(s) + m
      /\ (\A k \in 1..Len(s) : p[k] = s[k]) /\ \A k \in 1..m : p[Len(s) + k] = Stale
  <2>1. t \in String
    BY <1>5
  <2>2. /\ p \in String /\ Len(p) = Len(s) + Len(t)
        /\ (\A k \in 1..Len(s) : p[k] = s[k]) /\ \A k \in 1..Len(t) : p[Len(s) + k] = t[k]
    BY <2>1, StringCat
  <2> HIDE DEF p
  <2> QED
    BY <1>5, <2>2
<1> HIDE DEF p
<1>8. Len(p) = IF n <= Len(s) THEN Len(s) ELSE n
  <2>1. Len(p) = Len(s) + m
    BY <1>7
  <2> QED
    BY <1>1, <2>1 DEF m
<1>9. ASSUME NEW k \in (Len(s) + 1)..n
      PROVE  p[k] = Stale
  <2> DEFINE j == k - Len(s)
  <2>1. j \in 1..m /\ Len(s) + j = k
    BY <1>1, <1>9 DEF m
  <2> HIDE DEF j
  <2> QED
    BY <1>7, <2>1
<1> QED
  BY <1>6, <1>7, <1>8, <1>9 DEF p

\* b stored from at on: elsewhere nothing changes, and a gap is Stale.
LEMMA StoreType ==
  ASSUME NEW s \in String, NEW at \in Nat, NEW b \in String, b # <<>>
  PROVE  LET t == Store(s, at, b)
         IN  /\ t \in String
             /\ Len(t) = IF at + Len(b) <= Len(s) THEN Len(s) ELSE at + Len(b)
             /\ \A k \in 1..Len(t) :
                  t[k] = IF at < k /\ k <= at + Len(b) THEN b[k - at] ELSE IF k <= Len(s) THEN s[k] ELSE Stale
<1> DEFINE p == Padded(s, at)
           l == Len(s)
           m == Len(b)
           from == at + m
           head == SubSeq(p, 1, at)
           tail == SubSeq(s, from + 1, l)
           n == IF from <= l THEN l ELSE from
<1>1. l \in Nat /\ m \in Nat
  BY DEF String
<1>2. /\ p \in String /\ Len(p) \in Nat /\ at <= Len(p)
      /\ \A k \in 1..at : p[k] = IF k <= l THEN s[k] ELSE Stale
  <2>1. /\ p \in String /\ Len(p) = (IF at <= l THEN l ELSE at) /\ (\A k \in 1..l : p[k] = s[k])
        /\ \A k \in (l + 1)..at : p[k] = Stale
    BY PaddedType
  <2> HIDE DEF p, l
  <2>2. ASSUME NEW k \in 1..at
        PROVE  p[k] = IF k <= l THEN s[k] ELSE Stale
    BY <1>1, <2>1, <2>2
  <2> QED
    BY <1>1, <2>1, <2>2
<1>3. Store(s, at, b) = head \o b \o tail
  BY DEF Store
<1> HIDE DEF p
<1>4. head \in String /\ Len(head) = at /\ \A k \in 1..at : head[k] = p[k]
  <2>1. 0 \in Nat /\ 0 <= at
    OBVIOUS
  <2>2. /\ SubSeq(p, 0 + 1, at) \in String /\ Len(SubSeq(p, 0 + 1, at)) = at - 0
        /\ \A k \in 1..(at - 0) : SubSeq(p, 0 + 1, at)[k] = p[0 + k]
    BY <1>2, <2>1, StringParts
  <2>3. 0 + 1 = 1 /\ at - 0 = at /\ \A k \in 1..at : 0 + k = k
    OBVIOUS
  <2> QED
    BY <2>2, <2>3
<1> HIDE DEF head, l, m, from
<1>5. from \in Nat /\ n \in Nat /\ at <= from /\ from <= n
  BY <1>1 DEF from
<1>6. tail \in String /\ Len(tail) = n - from /\ \A k \in 1..(n - from) : tail[k] = s[from + k]
  <2>1. CASE from <= l
    <3>1. /\ SubSeq(s, from + 1, l) \in String /\ Len(SubSeq(s, from + 1, l)) = l - from
          /\ \A k \in 1..(l - from) : SubSeq(s, from + 1, l)[k] = s[from + k]
      BY <1>1, <1>5, <2>1, StringParts DEF l
    <3> QED
      BY <2>1, <3>1
  <2>2. CASE ~(from <= l)
    <3> DEFINE i == from + 1
    <3>1. i \in Int /\ l \in Int /\ ~(i <= l)
      BY <1>1, <1>5, <2>2
    <3> HIDE DEF i, Chars
    <3>2. s \in Seq(Chars) /\ \A k \in i..l : s[k] \in Chars
      BY <3>1 DEF String
    <3>3. SubSeq(s, i, l) \in Seq(Chars) /\ Len(SubSeq(s, i, l)) = 0
      BY <3>1, <3>2, SubSeqProperties
    <3>4. n - from = 0 /\ 1..(n - from) = {}
      BY <1>5, <2>2
    <3> QED
      BY <3>3, <3>4 DEF String, i
  <2> QED
    BY <2>1, <2>2
<1> HIDE DEF tail, n
<1> DEFINE u == head \o b
           t == u \o tail
<1>7. /\ u \in String /\ Len(u) = from
      /\ (\A k \in 1..at : u[k] = head[k]) /\ \A k \in 1..m : u[at + k] = b[k]
  BY <1>4, StringCat DEF from, m
<1> HIDE DEF u
<1> DEFINE r == n - from
<1>8. /\ t \in String /\ Len(t) = from + r
      /\ (\A k \in 1..from : t[k] = u[k]) /\ \A k \in 1..r : t[from + k] = tail[k]
  <2>1. tail \in String /\ Len(tail) = r
    BY <1>6
  <2> HIDE DEF r
  <2>2. u \in String /\ Len(u) = from
    BY <1>7
  <2> QED
    BY <2>1, <2>2, StringCat
<1> HIDE DEF t
<1>9. Len(t) = n
  BY <1>5, <1>8
<1>10. ASSUME NEW k \in 1..n
       PROVE  t[k] = IF at < k /\ k <= from THEN b[k - at] ELSE IF k <= l THEN s[k] ELSE Stale
  <2>1. CASE k <= at
    <3>1. k \in 1..at /\ k \in 1..from
      BY <1>5, <2>1
    <3>2. t[k] = IF k <= l THEN s[k] ELSE Stale
      BY <1>2, <1>4, <1>7, <1>8, <3>1
    <3> QED
      BY <2>1, <3>2
  <2>2. CASE at < k /\ k <= from
    <3> DEFINE j == k - at
    <3>1. j \in 1..m /\ at + j = k /\ k \in 1..from
      BY <1>1, <1>5, <2>2 DEF from
    <3> HIDE DEF j
    <3>2. t[k] = b[j]
      BY <1>7, <1>8, <3>1
    <3> QED
      BY <2>2, <3>2 DEF j
  <2>3. CASE from < k
    <3> DEFINE j == k - from
    <3>1. j \in 1..(n - from) /\ from + j = k
      BY <1>5, <2>3
    <3> HIDE DEF j
    <3>2. t[k] = s[k]
      BY <1>6, <1>8, <3>1
    <3>3. k <= l /\ ~(k <= from)
      BY <1>1, <1>5, <2>3 DEF n
    <3> QED
      BY <3>2, <3>3
  <2> QED
    BY <1>5, <2>1, <2>2, <2>3
<1>11. Store(s, at, b) = t
  BY <1>3 DEF t, u
<1>12. /\ t \in String /\ Len(t) = IF at + Len(b) <= Len(s) THEN Len(s) ELSE at + Len(b)
       /\ \A k \in 1..Len(t) :
            t[k] = IF at < k /\ k <= at + Len(b) THEN b[k - at] ELSE IF k <= Len(s) THEN s[k] ELSE Stale
  BY <1>8, <1>9, <1>10 DEF n, from, m, l
<1> QED
  BY <1>11, <1>12


(***************************************************************************)
(* What a buffer o holds when f is what has been stored: all of it in its  *)
(* place, and nothing else; and what it says of its block.                 *)
(***************************************************************************)

Holds(o, f) ==
  /\ o.len <= Len(f) /\ Len(f) <= Len(o.data)
  /\ \A k \in 1..Len(f) : f[k] = o.data[k]
  /\ \A k \in (Len(f) + 1)..Len(o.data) : o.data[k] = Stale
Room(o) == o.len <= o.cap /\ (o.type = "buffer" => Len(o.data) <= o.cap)
IsBuffer(o) == o \in IoObjects /\ o.type = "buffer" /\ Room(o)

\* kmem_growx: there is room for what is asked, or realloc has failed.
LEMMA GrownType ==
  ASSUME NEW o, IsBuffer(o), NEW sz \in Nat, NEW q \in Grown(o, sz)
  PROVE  /\ IsBuffer(q) /\ q.len = o.len /\ q.pos = o.pos
         /\ sz <= q.cap /\ (sz <= Len(q.data) \/ Len(q.data) < q.cap)
         /\ \A f \in String : Holds(o, f) => Holds(q, f)
<1>1. /\ o \in IoObjects /\ o.type = "buffer" /\ o.len \in Nat /\ o.cap \in Nat /\ o.pos \in Nat /\ o.data \in String
      /\ Len(o.data) \in Nat /\ o.len <= o.cap /\ Len(o.data) <= o.cap
  <2>1. o \in IoObjects /\ o.type = "buffer" /\ o.data \in String /\ Room(o)
    BY DEF IsBuffer, IoObjects
  <2>2. Len(o.data) \in Nat
    BY <2>1, Strings DEF IsSeq
  <2> QED
    BY <2>1, <2>2 DEF IoObjects, Room
<1>2. CASE o.cap >= sz
  <2>1. q = o
    BY <1>2 DEF Grown
  <2> QED
    BY <1>1, <1>2, <2>1 DEF IsBuffer, Room
<1>3. CASE ~(o.cap >= sz)
  <2> DEFINE cap == kmem_nextcap(o.cap, sz)
  <2>1. cap \in Nat /\ sz < cap /\ o.cap < cap
    BY <1>1, <1>3 DEF kmem_nextcap
  <2>2. q \in {[o EXCEPT !.cap = cap], [o EXCEPT !.cap = cap, !.data = Padded(@, cap)]}
    BY <1>3 DEF Grown
  <2> HIDE DEF cap
  <2> DEFINE d == Padded(o.data, cap)
  <2>3. d \in String /\ Len(d) = cap /\ (\A k \in 1..Len(o.data) : d[k] = o.data[k])
        /\ \A k \in (Len(o.data) + 1)..cap : d[k] = Stale
    <3>1. /\ d \in String /\ Len(d) = (IF cap <= Len(o.data) THEN Len(o.data) ELSE cap)
          /\ (\A k \in 1..Len(o.data) : d[k] = o.data[k]) /\ \A k \in (Len(o.data) + 1)..cap : d[k] = Stale
      BY <1>1, <2>1, PaddedType
    <3> HIDE DEF d
    <3>2. (IF cap <= Len(o.data) THEN Len(o.data) ELSE cap) = cap
      BY <1>1, <2>1
    <3> QED
      BY <3>1, <3>2
  <2> HIDE DEF d
  <2>4. CASE q = [o EXCEPT !.cap = cap]
    <3>1. /\ q \in IoObjects /\ q.type = "buffer" /\ q.len = o.len /\ q.pos = o.pos /\ q.cap = cap
          /\ q.data = o.data
      BY <1>1, <2>1, <2>4 DEF IoObjects
    <3> QED
      BY <1>1, <2>1, <3>1 DEF IsBuffer, Room, Holds
  <2>5. CASE q = [o EXCEPT !.cap = cap, !.data = Padded(@, cap)]
    <3>1. /\ q \in IoObjects /\ q.type = "buffer" /\ q.len = o.len /\ q.pos = o.pos /\ q.cap = cap
          /\ q.data = d
      BY <1>1, <2>1, <2>3, <2>5 DEF IoObjects, d
    <3>2. IsBuffer(q) /\ sz <= q.cap /\ sz <= Len(q.data)
      BY <1>1, <2>1, <2>3, <3>1 DEF IsBuffer, Room
    <3>3. ASSUME NEW f \in String, Holds(o, f)
          PROVE  Holds(q, f)
      <4>1. /\ Len(f) \in Nat /\ o.len <= Len(f) /\ Len(f) <= Len(o.data)
            /\ (\A k \in 1..Len(f) : f[k] = o.data[k])
            /\ \A k \in (Len(f) + 1)..Len(o.data) : o.data[k] = Stale
        BY <3>3, Strings DEF Holds, IsSeq
      <4>2. \A k \in 1..Len(f) : f[k] = d[k]
        BY <1>1, <2>3, <4>1
      <4>3. ASSUME NEW k \in (Len(f) + 1)..cap
            PROVE  d[k] = Stale
        <5>1. CASE k <= Len(o.data)
          BY <1>1, <2>3, <4>1, <4>3, <5>1
        <5>2. CASE ~(k <= Len(o.data))
          <6>1. k \in (Len(o.data) + 1)..cap
            BY <1>1, <2>1, <4>1, <4>3, <5>2
          <6> QED
            BY <2>3, <6>1
        <5> QED
          BY <5>1, <5>2
      <4>4. Len(f) <= cap
        BY <1>1, <2>1, <4>1
      <4> QED
        BY <2>3, <3>1, <4>1, <4>2, <4>3, <4>4 DEF Holds
    <3> QED
      BY <3>1, <3>2, <3>3
  <2> QED
    BY <2>2, <2>4, <2>5
<1> QED
  BY <1>2, <1>3

\* r is the outcome of a copy of b to index at of q, as next, where f is the file so far: the
\* bytes are in the block and in the file, or the copy leaves the block.
CopyOf(r, q, next, at, b, f) ==
  /\ r.pc \in {"returns", "wild"}
  /\ r.pc = "returns" =>
       /\ r.ret = Len(b) /\ r.io \in IoObjects /\ r.io.type = "buffer" /\ r.io.cap = q.cap
       /\ r.io.len = next.len /\ r.io.pos = next.pos /\ Len(r.io.data) = Len(q.data)
       /\ (next.len <= Len(Store(f, at, b)) => Holds(r.io, Store(f, at, b)))
  /\ r.pc = "wild" => r.io = q /\ r.ret = -1 /\ at + Len(b) > Len(q.data)
  /\ Store(f, at, b) \in String
  /\ Len(f) <= Len(Store(f, at, b)) /\ (at <= Len(f) => at + Len(b) <= Len(Store(f, at, b)))
  /\ \A k \in 1..Len(f) : k <= at => Store(f, at, b)[k] = f[k]

\* memcpy.
LEMMA CopiedType ==
  ASSUME NEW q, IsBuffer(q), NEW at \in Nat, NEW b \in String, NEW f \in String, Holds(q, f),
         NEW next \in IoObjects, next.type = "buffer", next.data = q.data, next.cap = q.cap,
         NEW r, r = Copied(q, at, b, next)
  PROVE  CopyOf(r, q, next, at, b, f)
<1> USE DEF CopyOf
<1> DEFINE n == Len(b)
           d == q.data
           g == Store(f, at, b)
           e == Store(d, at, b)
<1>1. /\ d \in String /\ Len(d) \in Nat /\ n \in Nat /\ Len(f) \in Nat /\ Len(f) <= Len(d)
      /\ (\A k \in 1..Len(f) : f[k] = d[k]) /\ \A k \in (Len(f) + 1)..Len(d) : d[k] = Stale
  <2>1. d \in String
    BY DEF IsBuffer, IoObjects
  <2>2. \A s \in String : Len(s) \in Nat
    BY Strings DEF IsSeq
  <2> QED
    BY <2>1, <2>2 DEF Holds
<1>2. CASE b = <<>>
  <2>1. g = f /\ e = d /\ n = 0
    BY <1>2 DEF Store
  <2>2. r = [io |-> [next EXCEPT !.data = d], ret |-> n, pc |-> "returns"]
    BY <1>2, <2>1 DEF Copied, Ret
  <2>3. [next EXCEPT !.data = d] = next
    BY DEF IoObjects
  <2> HIDE DEF g, e, d, n
  <2>4. r.pc = "returns" /\ r.ret = n /\ r.io = next
    BY <2>2, <2>3
  <2>5. next.len <= Len(f) => Holds(next, f)
    BY DEF Holds
  <2> QED
    BY <1>1, <1>2, <2>1, <2>4, <2>5 DEF n, d, g
<1>3. CASE b # <<>>
  <2>1. /\ g \in String /\ Len(g) = (IF at + n <= Len(f) THEN Len(f) ELSE at + n)
        /\ \A k \in 1..Len(g) :
             g[k] = IF at < k /\ k <= at + n THEN b[k - at] ELSE IF k <= Len(f) THEN f[k] ELSE Stale
    BY <1>3, StoreType
  <2>2. /\ e \in String /\ Len(e) = (IF at + n <= Len(d) THEN Len(d) ELSE at + n)
        /\ \A k \in 1..Len(e) :
             e[k] = IF at < k /\ k <= at + n THEN b[k - at] ELSE IF k <= Len(d) THEN d[k] ELSE Stale
    BY <1>1, <1>3, StoreType
  <2>3. r = IF at + n <= Len(d) THEN Ret([next EXCEPT !.data = e], n) ELSE Stop(q, "wild")
    BY <1>3 DEF Copied
  <2> HIDE DEF g, e, n, d
  <2>4. Len(f) <= Len(g) /\ at + n <= Len(g)
    BY <1>1, <2>1
  <2>5. \A k \in 1..Len(f) : k <= at => g[k] = f[k]
    BY <1>1, <2>1, <2>4
  <2>6. CASE at + n <= Len(d)
    <3>1. Len(e) = Len(d)
      BY <2>2, <2>6
    <3>2. r.pc = "returns" /\ r.ret = n /\ r.io = [next EXCEPT !.data = e]
      BY <2>3, <2>6 DEF Ret
    <3>3. /\ r.io \in IoObjects /\ r.io.type = "buffer" /\ r.io.cap = q.cap /\ r.io.len = next.len
          /\ r.io.pos = next.pos /\ r.io.data = e
      BY <2>2, <3>2 DEF IoObjects
    <3>4. Len(g) <= Len(d)
      BY <1>1, <2>1, <2>6
    <3>5. ASSUME NEW k \in 1..Len(g)
          PROVE  g[k] = e[k]
      <4>1. k \in 1..Len(e)
        BY <1>1, <2>4, <3>1, <3>4
      <4>2. CASE at < k /\ k <= at + n
        BY <2>1, <2>2, <4>1, <4>2
      <4>3. CASE ~(at < k /\ k <= at + n)
        <5>1. k <= Len(d) /\ e[k] = d[k]
          BY <1>1, <2>2, <3>1, <4>1, <4>3
        <5>2. CASE k <= Len(f)
          BY <1>1, <2>1, <4>3, <5>1, <5>2
        <5>3. CASE ~(k <= Len(f))
          <6>1. k \in (Len(f) + 1)..Len(d)
            BY <1>1, <5>1, <5>3
          <6> QED
            BY <1>1, <2>1, <4>3, <5>1, <5>3, <6>1
        <5> QED
          BY <5>2, <5>3
      <4> QED
        BY <4>2, <4>3
    <3>6. ASSUME NEW k \in (Len(g) + 1)..Len(e)
          PROVE  e[k] = Stale
      <4>1. Len(g) \in Nat
        BY <1>1, <2>1
      <4>2. k \in 1..Len(e) /\ ~(k <= at + n) /\ k <= Len(d) /\ k \in (Len(f) + 1)..Len(d)
        BY <1>1, <2>4, <3>1, <4>1
      <4> QED
        BY <1>1, <2>2, <4>2
    <3>7. next.len <= Len(g) => Holds(r.io, g)
      BY <3>1, <3>3, <3>4, <3>5, <3>6 DEF Holds
    <3> QED
      BY <2>1, <2>4, <2>5, <3>1, <3>2, <3>3, <3>7 DEF n, d, g
  <2>7. CASE ~(at + n <= Len(d))
    <3>1. r.pc = "wild" /\ r.io = q /\ r.ret = -1
      BY <2>3, <2>7 DEF Stop
    <3>2. at + n > Len(d)
      BY <1>1, <2>7
    <3> QED
      BY <2>1, <2>5, <3>1, <3>2 DEF n, d, g
  <2> QED
    BY <2>6, <2>7
<1> QED
  BY <1>2, <1>3


\* kbuffer_push.
LEMMA PushType ==
  ASSUME NEW o, IsBuffer(o), NEW f \in String, Holds(o, f), NEW b \in String, NEW r \in kbuffer_push(o, b)
  PROVE  /\ r.pc \in {"returns", "wild"} /\ IsBuffer(r.io) /\ r.io.pos = o.pos
         /\ r.pc = "returns" => Holds(r.io, Store(f, o.len, b)) /\ r.io.len = o.len + Len(b)
         /\ r.pc = "wild" => Len(r.io.data) < r.io.cap
         /\ Store(f, o.len, b) \in String
         /\ Len(f) <= Len(Store(f, o.len, b))
         /\ \A k \in 1..Len(f) : k <= o.len => Store(f, o.len, b)[k] = f[k]
<1> DEFINE n == Len(b)
           at == o.len
           sz == at + n
           g == Store(f, at, b)
<1>1. at \in Nat /\ n \in Nat /\ sz \in Nat /\ at <= Len(f) /\ Len(f) \in Nat
  BY Strings DEF IsBuffer, IoObjects, IsSeq, Holds
<1>2. PICK q \in Grown(o, sz) : r = Copied(q, q.len, b, [q EXCEPT !.len = @ + n])
  BY DEF kbuffer_push
<1> HIDE DEF sz
<1>3. /\ IsBuffer(q) /\ q.len = at /\ q.pos = o.pos /\ sz <= q.cap
      /\ (sz <= Len(q.data) \/ Len(q.data) < q.cap) /\ Holds(q, f)
  BY <1>1, <1>2, GrownType
<1> DEFINE next == [q EXCEPT !.len = @ + n]
<1>4. /\ next \in IoObjects /\ next.type = "buffer" /\ next.data = q.data /\ next.cap = q.cap
      /\ next.len = sz /\ next.pos = o.pos
  BY <1>1, <1>3 DEF IsBuffer, IoObjects, sz
<1>5. r = Copied(q, at, b, next)
  BY <1>2, <1>3
<1> HIDE DEF next, at
<1>6. /\ r.pc \in {"returns", "wild"}
      /\ r.pc = "returns" =>
           /\ r.ret = Len(b) /\ r.io \in IoObjects /\ r.io.type = "buffer" /\ r.io.cap = q.cap
           /\ r.io.len = next.len /\ r.io.pos = next.pos /\ Len(r.io.data) = Len(q.data)
           /\ (next.len <= Len(Store(f, at, b)) => Holds(r.io, Store(f, at, b)))
      /\ r.pc = "wild" => r.io = q /\ r.ret = -1 /\ at + Len(b) > Len(q.data)
      /\ Store(f, at, b) \in String
      /\ Len(f) <= Len(Store(f, at, b)) /\ (at <= Len(f) => at + Len(b) <= Len(Store(f, at, b)))
      /\ \A k \in 1..Len(f) : k <= at => Store(f, at, b)[k] = f[k]
  <2>1. IsBuffer(q) /\ at \in Nat /\ Holds(q, f)
    BY <1>1, <1>3
  <2>2. next \in IoObjects /\ next.type = "buffer" /\ next.data = q.data /\ next.cap = q.cap
    BY <1>4
  <2>3. CopyOf(r, q, next, at, b, f)
    BY <1>5, <2>1, <2>2, CopiedType
  <2> QED
    BY <2>3 DEF CopyOf
<1> HIDE DEF g, n
<1>7. g \in String /\ Len(f) <= Len(g) /\ sz <= Len(g) /\ \A k \in 1..Len(f) : k <= at => g[k] = f[k]
  BY <1>1, <1>6 DEF g, sz, n
<1>8. CASE r.pc = "returns"
  <2>1. /\ r.io \in IoObjects /\ r.io.type = "buffer" /\ r.io.cap = q.cap /\ r.io.len = sz
        /\ r.io.pos = o.pos /\ Len(r.io.data) = Len(q.data) /\ Holds(r.io, g)
    BY <1>4, <1>6, <1>7, <1>8 DEF g
  <2>2. IsBuffer(r.io)
    BY <1>3, <2>1 DEF IsBuffer, Room
  <2> QED
    BY <1>7, <1>8, <2>1, <2>2 DEF g, at, sz, n
<1>9. CASE r.pc = "wild"
  <2>1. r.io = q /\ at + n > Len(q.data)
    BY <1>6, <1>9 DEF n
  <2>2. Len(q.data) \in Nat /\ q.cap \in Nat
    BY <1>3, Strings DEF IsBuffer, IoObjects, IsSeq
  <2>3. Len(q.data) < q.cap
    BY <1>1, <1>3, <2>1, <2>2 DEF sz
  <2> QED
    BY <1>3, <1>7, <1>9, <2>1, <2>3 DEF g, at, n
<1> QED
  BY <1>6, <1>8, <1>9

\* kwrite to a buffer: pos may lie anywhere.
LEMMA BufferWriteType ==
  ASSUME NEW o, IsBuffer(o), NEW f \in String, Holds(o, f), NEW b \in String, NEW r \in BufferWrite(o, b)
  PROVE  /\ r.pc \in {"returns", "wild"} /\ IsBuffer(r.io)
         /\ r.pc = "returns" => r.ret = Len(b) /\ Holds(r.io, Store(f, o.pos, b))
         /\ r.pc = "wild" => Len(r.io.data) < r.io.cap \/ r.io.pos > r.io.cap
         /\ Store(f, o.pos, b) \in String
<1> DEFINE n == Len(b)
           at == o.pos
           sz == at + n
           g == Store(f, at, b)
<1>1. at \in Nat /\ n \in Nat /\ sz \in Nat /\ o.cap \in Nat /\ o.len <= Len(f) /\ o.len \in Nat /\ Len(f) \in Nat
  BY Strings DEF IsBuffer, IoObjects, IsSeq, Holds
<1>2. PICK q \in IF at > o.cap \/ o.cap - at >= n THEN {o} ELSE Grown(o, sz) :
        r = Copied(q, q.pos, b, [q EXCEPT !.pos = @ + n])
  BY DEF BufferWrite
<1>3. /\ IsBuffer(q) /\ q.len = o.len /\ q.pos = at /\ (at > q.cap \/ sz <= q.cap) /\ Holds(q, f)
  <2>1. CASE at > o.cap \/ o.cap - at >= n
    <3>1. q = o
      BY <1>2, <2>1
    <3>2. at > o.cap \/ sz <= o.cap
      BY <1>1, <2>1
    <3> QED
      BY <3>1, <3>2
  <2>2. CASE ~(at > o.cap \/ o.cap - at >= n)
    <3>1. q \in Grown(o, sz)
      BY <1>2, <2>2
    <3> HIDE DEF sz
    <3> QED
      BY <1>1, <3>1, GrownType
  <2> QED
    BY <2>1, <2>2
<1> HIDE DEF sz
<1> DEFINE next == [q EXCEPT !.pos = @ + n]
<1>4. /\ next \in IoObjects /\ next.type = "buffer" /\ next.data = q.data /\ next.cap = q.cap
      /\ next.len = o.len /\ next.pos = sz
  BY <1>1, <1>3 DEF IsBuffer, IoObjects, sz
<1>5. r = Copied(q, at, b, next)
  BY <1>2, <1>3
<1> HIDE DEF next, at
<1>6. /\ r.pc \in {"returns", "wild"}
      /\ r.pc = "returns" =>
           /\ r.ret = Len(b) /\ r.io \in IoObjects /\ r.io.type = "buffer" /\ r.io.cap = q.cap
           /\ r.io.len = next.len /\ r.io.pos = next.pos /\ Len(r.io.data) = Len(q.data)
           /\ (next.len <= Len(Store(f, at, b)) => Holds(r.io, Store(f, at, b)))
      /\ r.pc = "wild" => r.io = q /\ r.ret = -1 /\ at + Len(b) > Len(q.data)
      /\ Store(f, at, b) \in String
      /\ Len(f) <= Len(Store(f, at, b)) /\ (at <= Len(f) => at + Len(b) <= Len(Store(f, at, b)))
      /\ \A k \in 1..Len(f) : k <= at => Store(f, at, b)[k] = f[k]
  <2>1. IsBuffer(q) /\ at \in Nat /\ Holds(q, f)
    BY <1>1, <1>3
  <2>2. next \in IoObjects /\ next.type = "buffer" /\ next.data = q.data /\ next.cap = q.cap
    BY <1>4
  <2>3. CopyOf(r, q, next, at, b, f)
    BY <1>5, <2>1, <2>2, CopiedType
  <2> QED
    BY <2>3 DEF CopyOf
<1> HIDE DEF g, n
<1>7. g \in String /\ o.len <= Len(g)
  <2>1. g \in String /\ Len(f) <= Len(g)
    BY <1>6 DEF g
  <2>2. Len(g) \in Nat
    BY <2>1, Strings DEF IsSeq
  <2> QED
    BY <1>1, <2>1, <2>2
<1>8. CASE r.pc = "returns"
  <2>1. /\ r.ret = n /\ r.io \in IoObjects /\ r.io.type = "buffer" /\ r.io.cap = q.cap /\ r.io.len = o.len
        /\ Len(r.io.data) = Len(q.data) /\ Holds(r.io, g)
    BY <1>4, <1>6, <1>7, <1>8 DEF g, n
  <2>2. IsBuffer(r.io)
    BY <1>3, <2>1 DEF IsBuffer, Room
  <2> QED
    BY <1>7, <1>8, <2>1, <2>2 DEF g, at, n
<1>9. CASE r.pc = "wild"
  <2>1. r.io = q /\ at + n > Len(q.data)
    BY <1>6, <1>9 DEF n
  <2>2. Len(q.data) \in Nat /\ q.cap \in Nat /\ Len(q.data) <= q.cap
    BY <1>3, Strings DEF IsBuffer, IoObjects, IsSeq, Room
  <2>3. Len(q.data) < q.cap \/ q.pos > q.cap
    BY <1>1, <1>3, <2>1, <2>2 DEF sz
  <2> QED
    BY <1>3, <1>7, <1>9, <2>1, <2>3 DEF g, at
<1> QED
  BY <1>6, <1>8, <1>9

\* kwrite: what it returns, and what becomes of the object.
LEMMA kwriteType ==
  ASSUME NEW o \in IoObjects, Room(o), NEW f \in String, o.type = "buffer" => Holds(o, f),
         NEW b \in String, NEW r \in kwrite(o, b)
  PROVE  /\ r.pc \in {"returns", "wild", "abort"} /\ r.io \in IoObjects /\ Room(r.io) /\ r.io.type = o.type
         /\ r.pc = "returns" => r.ret \in -1..Len(b)
         /\ o.type = "buffer" /\ r.pc = "returns" => Holds(r.io, Store(f, o.pos, b)) /\ r.ret >= 0
         /\ r.pc = "wild" => Len(r.io.data) < r.io.cap \/ r.io.pos > r.io.cap
         /\ o.type # "buffer" => r.io = o
         /\ o.type = "buffer" => Store(f, o.pos, b) \in String
<1>1. Len(b) \in Nat
  BY Strings DEF IsSeq
<1>2. CASE o.type = "buffer"
  <2>1. r \in BufferWrite(o, b)
    BY <1>2 DEF kwrite
  <2>2. IsBuffer(o)
    BY <1>2 DEF IsBuffer
  <2>3. /\ r.pc \in {"returns", "wild"} /\ IsBuffer(r.io)
        /\ r.pc = "returns" => r.ret = Len(b) /\ Holds(r.io, Store(f, o.pos, b))
        /\ r.pc = "wild" => Len(r.io.data) < r.io.cap \/ r.io.pos > r.io.cap
        /\ Store(f, o.pos, b) \in String
    BY <1>2, <2>1, <2>2, BufferWriteType
  <2> QED
    BY <1>1, <1>2, <2>3 DEF IsBuffer
<1>3. CASE o.type = "rawio"
  <2>1. PICK n \in {Len(b), Len(b) \div 2, -1} : r = [io |-> o, ret |-> n, pc |-> "returns"]
    BY <1>3 DEF kwrite, Ret
  <2>2. n \in -1..Len(b)
    BY <1>1
  <2> QED
    BY <1>3, <2>1, <2>2
<1>4. CASE o.type = "other"
  <2>1. r = [io |-> o, ret |-> -1, pc |-> "abort"]
    BY <1>4 DEF kwrite, Stop
  <2> QED
    BY <1>4, <2>1
<1> QED
  BY <1>2, <1>3, <1>4 DEF IoObjects


(***************************************************************************)
(* The invariant of the bytes.  While a writer is at work a buffer holds   *)
(* what it held: print is as good as ready.                                *)
(***************************************************************************)

Alive == pc \in {"ready", "print"}
ReadSoFar ==
  ~mixed => /\ pc # "overread"
            /\ Alive => io.pos <= io.len /\ Len(got) = io.pos /\ \A k \in 1..io.pos : got[k] = file[k]
IoInv ==
  /\ io \in IoObjects /\ Room(io) /\ file \in String /\ got \in String /\ mixed \in BOOLEAN
  /\ Alive /\ io.type = "buffer" => Holds(io, file)
  /\ WritesInside
  /\ ReadSoFar
  /\ io.type # "buffer" => io.len = 0 /\ io.pos = 0 /\ file = <<>> /\ got = <<>>

LEMMA IoInitInv ==
  ASSUME IoInit
  PROVE  IoInv /\ pc \in {"ready", "wild"} /\ ops = 0
<1>1. <<>> \in String /\ \A b \in Texts : b \in String
  BY IoAssumption, Strings, TextTypes
<1> DEFINE e == <<>>
<1>2. e \in String /\ Len(e) = 0 /\ IsSeq(e)
  BY Strings
<1>3. CASE /\ \E b \in Texts : \E q \in kbuffer_init(b) :
                io = q.io /\ file = b /\ pc = (IF q.pc = "returns" THEN "ready" ELSE q.pc)
           /\ mixed = (io.pos # 0) /\ got = e /\ ops = 0
  <2>1. PICK b \in Texts : \E q \in kbuffer_init(b) :
          io = q.io /\ file = b /\ pc = (IF q.pc = "returns" THEN "ready" ELSE q.pc)
    BY <1>3
  <2>2. PICK q \in kbuffer_init(b) :
          io = q.io /\ file = b /\ pc = (IF q.pc = "returns" THEN "ready" ELSE q.pc)
    BY <2>1
  <2>3. PICK p \in Positions : q \in kbuffer_push(Buffer(p), b)
    BY <2>2 DEF kbuffer_init
  <2> DEFINE o == Buffer(p)
  <2>4. /\ o \in IoObjects /\ o.type = "buffer" /\ o.len = 0 /\ o.cap = 0 /\ o.pos = p /\ o.data = e /\ p \in Nat
    BY <1>1, IoAssumption DEF Buffer, IoObjects
  <2> HIDE DEF o, e
  <2>5. IsBuffer(o) /\ Holds(o, e)
    BY <1>2, <2>4 DEF IsBuffer, Room, Holds
  <2>6. b \in String /\ q \in kbuffer_push(o, b)
    BY <1>1, <2>3 DEF o
  <2>7. /\ q.pc \in {"returns", "wild"} /\ IsBuffer(q.io) /\ q.io.pos = o.pos
        /\ q.pc = "returns" => Holds(q.io, Store(e, o.len, b)) /\ q.io.len = o.len + Len(b)
        /\ q.pc = "wild" => Len(q.io.data) < q.io.cap
    BY <1>2, <2>5, <2>6, PushType
  <2>8. Store(e, o.len, b) = b
    <3>1. CASE b = <<>>
      BY <2>4, <3>1 DEF Store, e
    <3>2. CASE b # <<>>
      <4> DEFINE t == Store(e, 0, b)
      <4>1. /\ t \in String
            /\ Len(t) = (IF 0 + Len(b) <= Len(e) THEN Len(e) ELSE 0 + Len(b))
            /\ \A k \in 1..Len(t) :
                 t[k] = IF 0 < k /\ k <= 0 + Len(b) THEN b[k - 0] ELSE IF k <= Len(e) THEN e[k] ELSE Stale
        BY <1>2, <2>6, <3>2, StoreType
      <4> HIDE DEF t
      <4>2. Len(b) \in Nat
        BY <2>6, Strings DEF IsSeq
      <4>3. Len(t) = Len(b) /\ \A k \in 1..Len(t) : t[k] = b[k]
        BY <1>2, <4>1, <4>2
      <4>4. t = b
        BY <2>6, <4>1, <4>3, StringsSame
      <4> QED
        BY <2>4, <4>4 DEF t
    <3> QED
      BY <3>1, <3>2
  <2>9. pc \in {"ready", "wild"} /\ (pc = "ready" => Holds(io, file)) /\ (pc = "wild" => Len(io.data) < io.cap)
    BY <2>2, <2>7, <2>8
  <2>10. io \in IoObjects /\ Room(io) /\ io.type = "buffer" /\ io.pos = p /\ io.len \in Nat
    BY <2>2, <2>4, <2>7 DEF IsBuffer, IoObjects
  <2>11. ReadSoFar
    <3>1. got = e /\ (~mixed => io.pos = 0)
      BY <1>3
    <3>2. io.pos = 0 => io.pos <= io.len /\ Len(got) = io.pos /\ \A k \in 1..io.pos : got[k] = file[k]
      BY <1>2, <2>10, <3>1
    <3>3. pc # "overread"
      BY <2>9
    <3> QED
      BY <3>1, <3>2, <3>3 DEF ReadSoFar
  <2> QED
    BY <1>2, <1>3, <2>2, <2>6, <2>9, <2>10, <2>11 DEF IoInv, WritesInside, Alive
<1>4. CASE /\ io \in {RawIo, [RawIo EXCEPT !.type = "other"]}
           /\ file = <<>> /\ got = <<>> /\ mixed = FALSE /\ ops = 0 /\ pc = "ready"
  <2>1. io \in IoObjects /\ Room(io) /\ io.type # "buffer" /\ io.len = 0 /\ io.pos = 0
    BY <1>1, <1>4 DEF RawIo, IoObjects, Room
  <2>2. got = e /\ file = e /\ pc = "ready" /\ ops = 0 /\ mixed = FALSE
    BY <1>4
  <2> HIDE DEF e
  <2>3. ReadSoFar
    <3>1. io.pos <= io.len /\ Len(got) = io.pos /\ \A k \in 1..io.pos : got[k] = file[k]
      BY <1>2, <2>1, <2>2
    <3>2. pc # "overread"
      BY <2>2
    <3> QED
      BY <3>1, <3>2 DEF ReadSoFar
  <2>4. pc # "wild" /\ mixed \in BOOLEAN
    BY <2>2
  <2>5. IoInv
    BY <1>2, <2>1, <2>2, <2>3, <2>4 DEF IoInv, WritesInside, e
  <2> QED
    BY <2>2, <2>5
<1> QED
  BY <1>3, <1>4 DEF IoInit

\* The state of the object before a call of the client.
LEMMA BufferState ==
  ASSUME IoInv, io.type = "buffer", pc = "ready"
  PROVE  /\ IsBuffer(io) /\ Holds(io, file) /\ file \in String /\ got \in String /\ io.data \in String
         /\ io.len \in Nat /\ io.pos \in Nat /\ io.cap \in Nat
         /\ Len(file) \in Nat /\ Len(io.data) \in Nat /\ Len(got) \in Nat /\ io.len <= Len(file) /\ Len(file) <= Len(io.data)
<1>1. IsBuffer(io) /\ Holds(io, file) /\ file \in String /\ got \in String /\ io.data \in String
  BY DEF IoInv, Alive, IsBuffer, IoObjects
<1>2. io.len \in Nat /\ io.pos \in Nat /\ io.cap \in Nat
  BY <1>1 DEF IsBuffer, IoObjects
<1>3. Len(file) \in Nat /\ Len(io.data) \in Nat /\ Len(got) \in Nat
  BY <1>1, Strings DEF IsSeq
<1>4. io.len <= Len(file) /\ Len(file) <= Len(io.data)
  BY <1>1 DEF Holds
<1> QED
  BY <1>1, <1>2, <1>3, <1>4

LEMMA PushInv ==
  ASSUME IoInv, NEW b \in Texts, Push(b)
  PROVE  IoInv' /\ pc' \in {"ready", "wild"} /\ io'.type = "buffer"
<1>1. pc = "ready" /\ io.type = "buffer" /\ b \in String
  BY IoAssumption, TextTypes DEF Push, Op
<1>2. /\ IsBuffer(io) /\ Holds(io, file) /\ file \in String /\ got \in String /\ io.len \in Nat /\ io.pos \in Nat
      /\ Len(file) \in Nat /\ io.len <= Len(file)
  BY <1>1, BufferState
<1>3. PICK q \in kbuffer_push(io, b) : io' = q.io /\ pc' = (IF q.pc = "returns" THEN pc ELSE q.pc)
  BY DEF Push, Returned
<1> DEFINE g == Store(file, io.len, b)
<1>4. file' = g /\ got' = got /\ mixed' = mixed
  BY DEF Push
<1>5. /\ q.pc \in {"returns", "wild"} /\ IsBuffer(q.io) /\ q.io.pos = io.pos
      /\ q.pc = "returns" => Holds(q.io, g) /\ q.io.len = io.len + Len(b)
      /\ q.pc = "wild" => Len(q.io.data) < q.io.cap
      /\ g \in String /\ \A k \in 1..Len(file) : k <= io.len => g[k] = file[k]
  BY <1>1, <1>2, <1>3, PushType
<1> HIDE DEF g
<1>6. /\ pc' \in {"ready", "wild"} /\ IsBuffer(io') /\ io'.pos = io.pos
      /\ pc' = "ready" => Holds(io', file') /\ io'.len = io.len + Len(b)
      /\ pc' = "wild" => Len(io'.data) < io'.cap
  BY <1>1, <1>3, <1>4, <1>5
<1>7. ReadSoFar'
  <2>1. SUFFICES ASSUME ~mixed, pc' = "ready"
                 PROVE  io'.pos <= io'.len /\ Len(got) = io.pos /\ \A k \in 1..io.pos : got[k] = g[k]
    BY <1>4, <1>6 DEF ReadSoFar, Alive
  <2>2. io.pos <= io.len /\ Len(got) = io.pos /\ \A k \in 1..io.pos : got[k] = file[k]
    BY <1>1, <2>1 DEF IoInv, ReadSoFar, Alive
  <2>3. Len(b) \in Nat
    BY <1>1, Strings DEF IsSeq
  <2>4. io'.pos <= io'.len
    BY <1>2, <1>6, <2>1, <2>2, <2>3
  <2>5. ASSUME NEW k \in 1..io.pos
        PROVE  got[k] = g[k]
    <3>1. k \in 1..Len(file) /\ k <= io.len
      BY <1>2, <2>2
    <3> QED
      BY <1>5, <2>2, <3>1
  <2> QED
    BY <2>2, <2>4, <2>5
<1>8. mixed \in BOOLEAN
  BY DEF IoInv
<1> QED
  BY <1>2, <1>4, <1>5, <1>6, <1>7, <1>8 DEF IoInv, WritesInside, Alive, IsBuffer

LEMMA PopInv ==
  ASSUME IoInv, NEW n \in 1..2, Pop(n)
  PROVE  IoInv' /\ pc' = "ready" /\ io'.type = "buffer"
<1>1. pc = "ready" /\ io.type = "buffer"
  BY DEF Pop, Op
<1>2. /\ IsBuffer(io) /\ Holds(io, file) /\ file \in String /\ got \in String /\ io.len \in Nat /\ io.pos \in Nat
      /\ Len(file) \in Nat /\ io.len <= Len(file) /\ io.cap \in Nat
  BY <1>1, BufferState
<1>3. file' = file /\ got' = got /\ mixed' = (mixed \/ io.len - n < io.pos)
  BY DEF Pop
<1>4. pc' = pc /\ io' = IF io.len < n THEN io ELSE [io EXCEPT !.len = @ - n]
  BY <1>1 DEF Pop, Returned, kbuffer_pop, Ret
<1>5. /\ IsBuffer(io') /\ Holds(io', file) /\ io'.pos = io.pos /\ io'.len \in Nat /\ (io'.len = io.len \/ io'.len = io.len - n)
  <2>1. CASE io.len < n
    BY <1>2, <1>4, <2>1
  <2>2. CASE ~(io.len < n)
    <3>1. io' = [io EXCEPT !.len = @ - n]
      BY <1>4, <2>2
    <3>2. io.len - n \in Nat
      BY <1>2, <2>2
    <3>3. /\ io' \in IoObjects /\ io'.type = "buffer" /\ io'.len = io.len - n /\ io'.cap = io.cap /\ io'.pos = io.pos
          /\ io'.data = io.data
      BY <1>2, <3>1, <3>2 DEF IsBuffer, IoObjects
    <3>4. io'.len <= io'.cap /\ io'.len <= Len(file)
      BY <1>2, <3>3 DEF IsBuffer, Room
    <3> QED
      BY <1>2, <3>2, <3>3, <3>4 DEF IsBuffer, Room, Holds
  <2> QED
    BY <2>1, <2>2
<1>6. ReadSoFar'
  <2>1. SUFFICES ASSUME ~mixed, ~(io.len - n < io.pos)
                 PROVE  io'.pos <= io'.len /\ Len(got) = io.pos /\ \A k \in 1..io.pos : got[k] = file[k]
    BY <1>1, <1>3, <1>4, <1>5 DEF ReadSoFar, Alive
  <2>2. io.pos <= io.len /\ Len(got) = io.pos /\ \A k \in 1..io.pos : got[k] = file[k]
    BY <1>1, <2>1 DEF IoInv, ReadSoFar, Alive
  <2>3. io'.pos <= io'.len
    BY <1>2, <1>5, <2>1, <2>2
  <2> QED
    BY <2>2, <2>3
<1>7. mixed' \in BOOLEAN
  BY <1>3
<1> QED
  BY <1>1, <1>2, <1>3, <1>4, <1>5, <1>6, <1>7 DEF IoInv, WritesInside, Alive, IsBuffer

LEMMA ReadInv ==
  ASSUME IoInv, NEW n \in 1..2, Read(n)
  PROVE  IoInv' /\ pc' \in {"ready", "overread"} /\ io'.type = "buffer"
<1>1. pc = "ready" /\ io.type = "buffer"
  BY DEF Read, Op
<1>2. /\ IsBuffer(io) /\ Holds(io, file) /\ file \in String /\ got \in String /\ io.len \in Nat /\ io.pos \in Nat
      /\ Len(file) \in Nat /\ io.len <= Len(file) /\ io.data \in String /\ Len(io.data) \in Nat /\ Len(got) \in Nat
      /\ Len(file) <= Len(io.data)
  BY <1>1, BufferState
<1> DEFINE k == Available(io, n)
           piece == SubSeq(io.data, io.pos + 1, io.pos + k)
<1>3. file' = file /\ mixed' = mixed /\ mixed \in BOOLEAN
  BY DEF Read, IoInv
<1>4. k \in Nat /\ (io.pos <= io.len => io.pos + k <= io.len)
  BY <1>2 DEF Available
<1>5. \/ /\ k = 0 \/ io.pos + k <= Len(io.data)
         /\ io' = [io EXCEPT !.pos = @ + k] /\ pc' = "ready" /\ got' = got \o piece
      \/ /\ ~(k = 0 \/ io.pos + k <= Len(io.data)) /\ pc' = "overread" /\ io' = io /\ got' = got
  BY <1>1 DEF Read
<1> HIDE DEF k, piece
<1>6. ~mixed => io.pos <= io.len /\ Len(got) = io.pos /\ \A j \in 1..io.pos : got[j] = file[j]
  BY <1>1 DEF IoInv, ReadSoFar, Alive
<1>7. CASE /\ k = 0 \/ io.pos + k <= Len(io.data)
           /\ io' = [io EXCEPT !.pos = @ + k] /\ pc' = "ready" /\ got' = got \o piece
  <2>1. /\ io' \in IoObjects /\ io'.type = "buffer" /\ io'.len = io.len /\ io'.cap = io.cap /\ io'.pos = io.pos + k
        /\ io'.data = io.data
    <3>1. io \in IoObjects /\ io.type = "buffer" /\ io.pos + k \in Nat
      BY <1>2, <1>4 DEF IsBuffer
    <3>2. io' = [io EXCEPT !.pos = io.pos + k]
      BY <1>7
    <3> QED
      BY <3>1, <3>2 DEF IoObjects
  <2>2. IsBuffer(io') /\ Holds(io', file)
    BY <1>2, <2>1 DEF IsBuffer, Room, Holds
  <2>3. piece \in String /\ (io.pos + k <= Len(io.data) =>
          Len(piece) = k /\ \A j \in 1..k : piece[j] = io.data[io.pos + j])
    <3> DEFINE m == io.pos + k
    <3>1. CASE io.pos + k <= Len(io.data)
      <4>1. m \in Nat /\ io.pos <= m /\ m <= Len(io.data) /\ m - io.pos = k
        BY <1>2, <1>4, <3>1
      <4> HIDE DEF m
      <4>2. /\ SubSeq(io.data, io.pos + 1, m) \in String /\ Len(SubSeq(io.data, io.pos + 1, m)) = m - io.pos
            /\ \A j \in 1..(m - io.pos) : SubSeq(io.data, io.pos + 1, m)[j] = io.data[io.pos + j]
        <5>1. io.data \in String /\ io.pos \in Nat
          BY <1>2
        <5> QED
          BY <4>1, <5>1, StringParts
      <4> QED
        BY <4>1, <4>2 DEF piece, m
    <3>2. CASE ~(io.pos + k <= Len(io.data))
      <4>1. k = 0
        BY <1>7, <3>2
      <4> DEFINE i == io.pos + 1
      <4>2. i \in Int /\ m \in Int /\ ~(i <= m)
        BY <1>2, <4>1
      <4> HIDE DEF i, m, Chars
      <4>3. io.data \in Seq(Chars) /\ \A j \in i..m : io.data[j] \in Chars
        BY <1>2, <4>2 DEF String
      <4>4. SubSeq(io.data, i, m) \in Seq(Chars)
        BY <4>2, <4>3, SubSeqProperties
      <4> QED
        BY <3>2, <4>4 DEF piece, i, m, String
    <3> QED
      BY <3>1, <3>2
  <2>4. /\ got' \in String /\ Len(got') = Len(got) + Len(piece) /\ Len(piece) \in Nat
        /\ (\A j \in 1..Len(got) : got'[j] = got[j]) /\ \A j \in 1..Len(piece) : got'[Len(got) + j] = piece[j]
    BY <1>2, <1>7, <2>3, StringCat
  <2>5. ReadSoFar'
    <3>1. SUFFICES ASSUME ~mixed
                   PROVE  /\ io.pos + k <= io.len /\ Len(got') = io.pos + k
                          /\ \A j \in 1..(io.pos + k) : got'[j] = file[j]
      BY <1>3, <1>7, <2>1 DEF ReadSoFar, Alive
    <3>2. io.pos <= io.len /\ Len(got) = io.pos /\ \A j \in 1..io.pos : got[j] = file[j]
      BY <1>6, <3>1
    <3>3. io.pos + k <= io.len /\ io.pos + k <= Len(io.data)
      BY <1>2, <1>4, <3>2
    <3>4. Len(piece) = k /\ \A j \in 1..k : piece[j] = io.data[io.pos + j]
      BY <2>3, <3>3
    <3>5. ASSUME NEW j \in 1..(io.pos + k)
          PROVE  got'[j] = file[j]
      <4>1. CASE j <= io.pos
        BY <1>2, <2>4, <3>2, <4>1
      <4>2. CASE ~(j <= io.pos)
        <5> DEFINE i == j - io.pos
        <5>1. i \in 1..k /\ io.pos + i = j
          BY <1>2, <1>4, <4>2
        <5> HIDE DEF i
        <5>2. got'[j] = io.data[j]
          BY <2>4, <3>2, <3>4, <5>1
        <5>3. j \in 1..Len(file)
          BY <1>2, <1>4, <3>3
        <5> QED
          BY <1>2, <5>2, <5>3 DEF Holds
      <4> QED
        BY <4>1, <4>2
    <3>6. Len(got') = io.pos + k
      BY <2>4, <3>2, <3>4
    <3> QED
      BY <3>3, <3>5, <3>6
  <2> QED
    BY <1>2, <1>3, <1>7, <2>2, <2>4, <2>5 DEF IoInv, WritesInside, Alive, IsBuffer
<1>8. CASE /\ ~(k = 0 \/ io.pos + k <= Len(io.data)) /\ pc' = "overread" /\ io' = io /\ got' = got
  <2>1. mixed
    <3>1. SUFFICES ASSUME ~mixed PROVE FALSE
      BY <1>3
    <3>2. io.pos <= io.len
      BY <1>6, <3>1
    <3> QED
      BY <1>2, <1>4, <1>8, <3>2
  <2> QED
    BY <1>2, <1>3, <1>8, <2>1 DEF IoInv, WritesInside, ReadSoFar, Alive, IsBuffer
<1> QED
  BY <1>5, <1>7, <1>8


(***************************************************************************)
(* The active writers, and the sizes they have added up so far.            *)
(***************************************************************************)

Writers == [todo : Seq(Pieces), rsz : Nat, own : BOOLEAN]
Sizes(fr) == [k \in DOMAIN fr |-> fr[k].rsz]
Total(fr) == SumFunction(Sizes(fr))

LEMMA WritersType ==
  ASSUME NEW fr \in Seq(Writers)
  PROVE  /\ Len(fr) \in Nat /\ Addends(Sizes(fr), Len(fr)) /\ IsSeq(fr) /\ Total(fr) \in Nat
         /\ fr # <<>> => Len(fr) # 0 /\ Last(fr) = fr[Len(fr)] /\ Last(fr) \in Writers
         /\ \A k \in 1..Len(fr) : fr[k] \in Writers /\ Sizes(fr)[k] = fr[k].rsz
<1>1. Len(fr) \in Nat /\ DOMAIN fr = 1..Len(fr) /\ \A k \in 1..Len(fr) : fr[k] \in Writers
  OBVIOUS
<1>2. \A k \in 1..Len(fr) : Sizes(fr)[k] = fr[k].rsz
  BY <1>1 DEF Sizes
<1>3. Addends(Sizes(fr), Len(fr))
  BY <1>1, <1>2 DEF Addends, Sizes, Writers
<1>4. Total(fr) \in Nat
  BY <1>3, SeqSum DEF Total
<1>5. fr # <<>> => Len(fr) # 0 /\ Last(fr) = fr[Len(fr)] /\ Last(fr) \in Writers
  BY DEF Last
<1> QED
  BY <1>1, <1>2, <1>3, <1>4, <1>5 DEF IsSeq

\* An element replaced.
LEMMA ReplacedType ==
  ASSUME NEW S, NEW s \in Seq(S), NEW n \in 1..Len(s), NEW x \in S
  PROVE  LET t == [s EXCEPT ![n] = x]
         IN  t \in Seq(S) /\ Len(t) = Len(s) /\ t[n] = x /\ \A k \in 1..Len(s) : k # n => t[k] = s[k]
OBVIOUS

\* The last writer has written sz bytes more.
LEMMA TotalGrows ==
  ASSUME NEW fr \in Seq(Writers), NEW next \in Seq(Writers), NEW n \in Nat, n # 0, Len(fr) = n, Len(next) = n,
         \A k \in 1..(n - 1) : next[k] = fr[k], NEW sz \in Nat, next[n].rsz = fr[n].rsz + sz
  PROVE  next # <<>> /\ Total(next) = Total(fr) + sz
<1>1. Addends(Sizes(fr), n) /\ Total(fr) \in Nat /\ \A k \in 1..n : fr[k] \in Writers /\ Sizes(fr)[k] = fr[k].rsz
  BY WritersType
<1>2. Addends(Sizes(next), n) /\ \A k \in 1..n : next[k] \in Writers /\ Sizes(next)[k] = next[k].rsz
  BY WritersType
<1>3. ASSUME NEW k \in 1..(n - 1)
      PROVE  Sizes(next)[k] = Sizes(fr)[k]
  <2>1. k \in 1..n
    OBVIOUS
  <2>2. Sizes(next)[k] = next[k].rsz /\ Sizes(fr)[k] = fr[k].rsz /\ next[k] = fr[k]
    BY <1>1, <1>2, <2>1
  <2> QED
    BY <2>2
<1> DEFINE m == n - 1
           t == Total(fr)
           r == fr[n].rsz
<1>4. m \in Nat /\ m + 1 = n /\ n \in 1..n
  OBVIOUS
<1>5. r \in Nat
  BY <1>1, <1>4 DEF Writers
<1>6. Sizes(fr)[m + 1] = r /\ Sizes(next)[m + 1] = r + sz
  BY <1>1, <1>2, <1>4
<1>7. SumFunction(Sizes(next)) = SumFunction(Sizes(fr)) - Sizes(fr)[m + 1] + Sizes(next)[m + 1]
  <2>1. \A k \in 1..m : Sizes(next)[k] = Sizes(fr)[k]
    BY <1>3
  <2>2. Addends(Sizes(fr), m + 1) /\ Addends(Sizes(next), m + 1)
    BY <1>1, <1>2, <1>4
  <2> HIDE DEF m
  <2> QED
    BY <1>4, <2>1, <2>2, SeqSumLast
<1>8. Total(next) = t - r + (r + sz) /\ t \in Nat
  BY <1>1, <1>6, <1>7 DEF Total
<1> HIDE DEF t, r
<1>9. Total(next) = t + sz
  BY <1>5, <1>8
<1> QED
  BY <1>9 DEF t

\* The last writer has done a piece, of sz bytes.
LEMMA AdvancedType ==
  ASSUME NEW fr \in Seq(Writers), fr # <<>>, Last(fr).todo # <<>>, NEW sz \in Nat
  PROVE  LET w == Last(fr)
             next == [fr EXCEPT ![Len(fr)] = [todo |-> Tail(w.todo), rsz |-> w.rsz + sz, own |-> w.own]]
         IN  next \in Seq(Writers) /\ next # <<>> /\ Total(next) = Total(fr) + sz
<1> DEFINE n == Len(fr)
           w == fr[n]
           t == Tail(w.todo)
           r == w.rsz + sz
           top == [todo |-> t, rsz |-> r, own |-> w.own]
           next == [fr EXCEPT ![n] = top]
<1>1. n \in Nat /\ n # 0 /\ w \in Writers /\ w.todo # <<>> /\ Last(fr) = w
  BY WritersType
<1>2. fr[n] = w
  OBVIOUS
<1> HIDE DEF w, n
<1>3. w.todo \in Seq(Pieces) /\ r \in Nat
  BY <1>1 DEF Writers
<1>4. t \in Seq(Pieces)
  <2> DEFINE u == w.todo
  <2>1. u \in Seq(Pieces) /\ u # <<>>
    BY <1>1, <1>3
  <2> HIDE DEF u
  <2>2. Tail(u) \in Seq(Pieces)
    BY <2>1
  <2> QED
    BY <2>2 DEF u
<1> HIDE DEF t, r
<1>5. top \in Writers /\ top.rsz = r
  <2> HIDE DEF Pieces
  <2> QED
    BY <1>1, <1>3, <1>4 DEF Writers
<1> HIDE DEF top
<1>6. n \in 1..Len(fr) /\ Len(fr) = n /\ \A k \in 1..(n - 1) : k \in 1..n /\ k # n
  BY <1>1 DEF n
<1>7. next \in Seq(Writers) /\ Len(next) = Len(fr) /\ next[n] = top /\ \A k \in 1..Len(fr) : k # n => next[k] = fr[k]
  BY <1>5, <1>6, ReplacedType
<1>8. next = [fr EXCEPT ![Len(fr)] = [todo |-> Tail(Last(fr).todo), rsz |-> Last(fr).rsz + sz, own |-> Last(fr).own]]
  BY <1>1 DEF top, t, r, n
<1> HIDE DEF next
<1>9. Len(next) = n /\ (\A k \in 1..(n - 1) : next[k] = fr[k]) /\ next[n].rsz = fr[n].rsz + sz
  BY <1>2, <1>5, <1>6, <1>7 DEF r
<1>10. next # <<>> /\ Total(next) = Total(fr) + sz
  BY <1>1, <1>6, <1>7, <1>9, TotalGrows
<1> QED
  BY <1>7, <1>8, <1>10

\* A writer more, that has written nothing.
LEMMA EnteredType ==
  ASSUME NEW fr \in Seq(Writers), NEW w \in Writers, w.rsz = 0
  PROVE  Append(fr, w) \in Seq(Writers) /\ Append(fr, w) # <<>> /\ Total(Append(fr, w)) = Total(fr)
<1> DEFINE n == Len(fr)
           next == Append(fr, w)
<1>1. n \in Nat /\ Addends(Sizes(fr), n) /\ Total(fr) \in Nat /\ IsSeq(fr)
  BY WritersType
<1>2. next \in Seq(Writers) /\ next # <<>> /\ Len(next) = n + 1 /\ next[n + 1] = w /\ \A k \in 1..n : next[k] = fr[k]
  BY <1>1, Longer
<1> HIDE DEF next
<1>3. Addends(Sizes(next), n + 1) /\ \A k \in 1..(n + 1) : Sizes(next)[k] = next[k].rsz
  BY <1>2, WritersType
<1>4. \A k \in 1..n : Sizes(fr)[k] = fr[k].rsz
  BY WritersType
<1> HIDE DEF n
<1>5. Sizes(next)[n + 1] = 0 /\ \A k \in 1..n : Sizes(next)[k] = Sizes(fr)[k]
  BY <1>1, <1>2, <1>3, <1>4
<1>6. SumFunction(Sizes(next)) = SumFunction(Sizes(fr)) + Sizes(next)[n + 1]
  BY <1>1, <1>3, <1>5, SeqSumAppend
<1>7. Total(next) = Total(fr)
  BY <1>1, <1>5, <1>6 DEF Total
<1> QED
  BY <1>2, <1>7 DEF next

\* The first writer.
LEMMA FirstType ==
  ASSUME NEW w \in Writers
  PROVE  <<w>> \in Seq(Writers) /\ <<w>> # <<>> /\ Total(<<w>>) = w.rsz
<1> DEFINE f == [k \in 1..0 |-> 0]
           s == <<w>>
<1>1. s \in Seq(Writers) /\ s # <<>> /\ Len(s) = 1 /\ s[1] = w
  OBVIOUS
<1> HIDE DEF s
<1>2. Addends(Sizes(s), 1) /\ Sizes(s)[1] = w.rsz /\ Total(s) \in Nat
  BY <1>1, WritersType
<1>3. Addends(f, 0)
  BY DEF Addends
<1> HIDE DEF f
<1> DEFINE z == 0
<1>4. z \in Nat /\ z + 1 = 1 /\ \A k \in 1..z : FALSE
  OBVIOUS
<1>5. Addends(f, z) /\ SumFunction(f) = 0
  BY <1>3, SeqSum
<1> HIDE DEF z
<1>6. SumFunction(Sizes(s)) = SumFunction(f) + Sizes(s)[z + 1]
  BY <1>2, <1>4, <1>5, SeqSumAppend
<1>7. Total(s) = w.rsz
  BY <1>2, <1>4, <1>5, <1>6 DEF Total, Writers
<1> QED
  BY <1>1, <1>7 DEF s

\* The last writer returns to the one before it.
LEMMA ReturnedType ==
  ASSUME NEW fr \in Seq(Writers), Len(fr) > 1
  PROVE  LET next == [Front(fr) EXCEPT ![Len(fr) - 1].rsz = @ + Last(fr).rsz]
         IN  next \in Seq(Writers) /\ next # <<>> /\ Total(next) = Total(fr)
<1> DEFINE n == Len(fr) - 1
           a == fr[n]
           b == fr[n + 1]
           s == Front(fr)
<1>1. Len(fr) \in Nat /\ Addends(Sizes(fr), Len(fr)) /\ Total(fr) \in Nat /\ IsSeq(fr) /\ fr # <<>> /\ Last(fr) = fr[Len(fr)]
  BY WritersType
<1>2. n \in Nat /\ n # 0 /\ n + 1 = Len(fr)
  BY <1>1
<1>3. s = SubSeq(fr, 1, n)
  BY DEF Front
<1>4. Len(s) = n /\ \A k \in 1..n : s[k] = fr[k]
  BY <1>1, <1>3, Shorter
<1>5. s \in Seq(Writers)
  BY <1>1, <1>2, <1>3
<1>6. a \in Writers /\ b \in Writers /\ Last(fr) = b
  BY <1>1, <1>2
<1>7. fr[n] = a /\ fr[n + 1] = b
  OBVIOUS
<1>8. [Front(fr) EXCEPT ![Len(fr) - 1].rsz = @ + Last(fr).rsz] = [s EXCEPT ![n].rsz = @ + b.rsz]
  BY <1>6
<1> HIDE DEF n, s, a, b
<1>9. a.rsz \in Nat /\ b.rsz \in Nat
  BY <1>6 DEF Writers
<1> DEFINE r == a.rsz + b.rsz
           top == [a EXCEPT !.rsz = r]
           next == [s EXCEPT ![n] = top]
<1>10. s[n] = a
  BY <1>2, <1>4, <1>7
<1>11. [s EXCEPT ![n].rsz = @ + b.rsz] = next
  BY <1>10
<1>12. r \in Nat
  BY <1>9
<1> HIDE DEF r
<1>13. top \in Writers /\ top.rsz = r
  <2> HIDE DEF Pieces
  <2> QED
    BY <1>6, <1>12 DEF Writers
<1> HIDE DEF top
<1>14. n \in 1..Len(s) /\ \A k \in 1..(n - 1) : k \in 1..Len(s) /\ k # n
  BY <1>2, <1>4
<1>15. next \in Seq(Writers) /\ Len(next) = Len(s) /\ next[n] = top /\ \A k \in 1..Len(s) : k # n => next[k] = s[k]
  BY <1>5, <1>13, <1>14, ReplacedType
<1> HIDE DEF next
<1>16. next # <<>> /\ Total(next) = Total(s) + b.rsz
  <2>1. Len(next) = n /\ (\A k \in 1..(n - 1) : next[k] = s[k]) /\ next[n].rsz = s[n].rsz + b.rsz
    BY <1>4, <1>10, <1>13, <1>14, <1>15 DEF r
  <2> QED
    BY <1>2, <1>4, <1>5, <1>9, <1>15, <2>1, TotalGrows
<1>17. Total(fr) = Total(s) + b.rsz
  <2>1. Addends(Sizes(s), n) /\ \A k \in 1..n : Sizes(s)[k] = s[k].rsz
    BY <1>4, <1>5, WritersType
  <2>2. Addends(Sizes(fr), n + 1) /\ \A k \in 1..(n + 1) : Sizes(fr)[k] = fr[k].rsz
    BY <1>2, WritersType
  <2>3. ASSUME NEW k \in 1..n
        PROVE  Sizes(fr)[k] = Sizes(s)[k]
    <3>1. k \in 1..(n + 1)
      BY <1>2
    <3> QED
      BY <1>4, <2>1, <2>2, <3>1
  <2>4. SumFunction(Sizes(fr)) = SumFunction(Sizes(s)) + Sizes(fr)[n + 1]
    BY <2>1, <2>2, <2>3, SeqSumAppend
  <2>5. Sizes(fr)[n + 1] = b.rsz
    BY <1>2, <1>7, <2>2
  <2> QED
    BY <2>4, <2>5 DEF Total
<1>18. next \in Seq(Writers) /\ next # <<>> /\ Total(next) = Total(fr)
  BY <1>15, <1>16, <1>17
<1> QED
  BY <1>8, <1>11, <1>18


(***************************************************************************)
(* The invariant of the whole, and its steps.                              *)
(***************************************************************************)

PrintInv ==
  /\ frames \in Seq(Writers) /\ out \in String /\ result \in Int /\ ops \in 0..MaxOps
  /\ call \in {0} \cup DOMAIN Calls /\ pc \in {"ready", "print", "abort", "wild", "overread"}
  /\ pc = "print" => frames # <<>> /\ Total(frames) = Len(out)
  /\ pc = "ready" /\ result >= 0 => result = Len(out)
IInv == IoInv /\ PrintInv

LEMMA InitInv ==
  ASSUME Init
  PROVE  IInv
<1>1. IoInv /\ pc \in {"ready", "wild"} /\ ops = 0
  BY IoInitInv DEF Init
<1> DEFINE e == <<>>
<1>2. e \in Seq(Writers) /\ e \in String /\ Len(e) = 0
  BY Strings
<1>3. frames = e /\ call = 0 /\ out = e /\ result = 0
  BY DEF Init
<1>4. 0 \in 0..MaxOps
  BY IoAssumption
<1> HIDE DEF e
<1> QED
  BY <1>1, <1>2, <1>3, <1>4 DEF IInv, PrintInv

\* A call of the client that prints nothing.
LEMMA ClientStep ==
  ASSUME IInv, ClientOp, UNCHANGED print_vars
  PROVE  IInv'
<1>1. IoInv' /\ pc' \in {"ready", "wild", "overread"}
  <2>1. IoInv
    BY DEF IInv
  <2>2. CASE \E b \in Texts : Push(b)
    BY <2>1, <2>2, PushInv
  <2>3. CASE \E n \in 1..2 : Pop(n)
    BY <2>1, <2>3, PopInv
  <2>4. CASE \E n \in 1..2 : Read(n)
    BY <2>1, <2>4, ReadInv
  <2> QED
    BY <2>2, <2>3, <2>4 DEF ClientOp
<1>2. pc = "ready" /\ ops' \in 0..MaxOps
  <2>1. pc = "ready" /\ ops < MaxOps /\ ops' = ops + 1
    BY DEF ClientOp, Push, Pop, Read, Op
  <2>2. MaxOps \in Nat /\ ops \in 0..MaxOps
    BY IoAssumption DEF IInv, PrintInv
  <2> QED
    BY <2>1, <2>2
<1>3. frames' = frames /\ call' = call /\ out' = out /\ result' = result
  BY DEF print_vars
<1> QED
  BY <1>1, <1>2, <1>3 DEF IInv, PrintInv

\* A step that does not touch the object.
LEMMA IoSame ==
  ASSUME IoInv, Alive, io' = io, file' = file, got' = got, mixed' = mixed, pc' \in {"ready", "print", "abort"}
  PROVE  IoInv'
BY DEF IoInv, Alive, WritesInside, ReadSoFar

LEMMA FormatStep ==
  ASSUME IInv, NEW c \in DOMAIN Calls, Format(c)
  PROVE  IInv'
<1> DEFINE w == Frame(kprintfv(Calls[c].fmt, Calls[c].args), FALSE)
<1>1. /\ pc = "ready" /\ pc' = "print" /\ ops < MaxOps /\ ops' = ops + 1 /\ call' = c /\ frames' = <<w>>
      /\ out' = <<>> /\ result' = 0 /\ io' = io /\ file' = file /\ got' = got /\ mixed' = mixed
  BY DEF Format
<1>2. w \in Writers /\ w.rsz = 0
  <2>1. kprintfv(Calls[c].fmt, Calls[c].args) \in Seq(Pieces)
    BY kprintfvType
  <2> QED
    BY <2>1 DEF Frame, Writers
<1> HIDE DEF w
<1>3. <<w>> \in Seq(Writers) /\ <<w>> # <<>> /\ Total(<<w>>) = 0
  BY <1>2, FirstType
<1>4. IoInv'
  BY <1>1, IoSame DEF IInv, Alive
<1>5. ops' \in 0..MaxOps
  BY <1>1, IoAssumption DEF IInv, PrintInv
<1>6. out' \in String /\ Len(out') = 0
  BY <1>1, Strings
<1>7. PrintInv'
  BY <1>1, <1>3, <1>5, <1>6 DEF PrintInv
<1> QED
  BY <1>4, <1>7 DEF IInv

\* The piece that is due.
LEMMA PieceType ==
  ASSUME PrintInv, pc = "print", Top.todo # <<>>
  PROVE  /\ frames \in Seq(Writers) /\ frames # <<>> /\ Top \in Writers /\ Total(frames) = Len(out) /\ out \in String
         /\ Len(out) \in Nat
         /\ Piece \in Pieces /\ Piece.bytes \in String /\ (Piece.do = "repr" => Piece.obj \in Objects)
         /\ \A sz \in Nat : Advanced(sz) \in Seq(Writers) /\ Advanced(sz) # <<>> /\ Total(Advanced(sz)) = Total(frames) + sz
<1>1. frames \in Seq(Writers) /\ frames # <<>> /\ Total(frames) = Len(out) /\ out \in String
  BY DEF PrintInv
<1>2. Top \in Writers
  BY <1>1, WritersType DEF Top
<1>3. Piece \in Pieces
  <2> DEFINE t == Top.todo
  <2>1. t \in Seq(Pieces) /\ t # <<>>
    BY <1>2 DEF Writers
  <2> HIDE DEF t
  <2>2. Head(t) \in Pieces
    BY <2>1
  <2> QED
    BY <2>2 DEF Piece, t
<1>4. Piece.bytes \in String /\ (Piece.do = "repr" => Piece.obj \in Objects)
  BY <1>3, Strings DEF Pieces
<1>5. ASSUME NEW sz \in Nat
      PROVE  Advanced(sz) \in Seq(Writers) /\ Advanced(sz) # <<>> /\ Total(Advanced(sz)) = Total(frames) + sz
  <2>1. Last(frames).todo # <<>>
    BY DEF Top
  <2> QED
    BY <1>1, <2>1, AdvancedType DEF Advanced, Top
<1>6. Len(out) \in Nat
  BY <1>1, Strings DEF IsSeq
<1> QED
  BY <1>1, <1>2, <1>3, <1>4, <1>5, <1>6

LEMMA WriteStep ==
  ASSUME IInv, Write
  PROVE  IInv'
<1>1. pc = "print" /\ Top.todo # <<>> /\ Piece.do = "write" /\ call' = call /\ got' = got /\ ops' = ops
  BY DEF Write, Working
<1> DEFINE b == Piece.bytes
<1>2. /\ frames \in Seq(Writers) /\ frames # <<>> /\ Total(frames) = Len(out) /\ out \in String /\ Len(out) \in Nat
      /\ b \in String
      /\ \A sz \in Nat : Advanced(sz) \in Seq(Writers) /\ Advanced(sz) # <<>> /\ Total(Advanced(sz)) = Total(frames) + sz
  BY <1>1, PieceType DEF IInv
<1>3. PICK q \in kwrite(io, b) : io' = q.io /\ (Written(q) \/ WriteFails(q) \/ WriteEnds(q))
  BY DEF Write
<1>4. /\ io \in IoObjects /\ Room(io) /\ file \in String /\ got \in String /\ mixed \in BOOLEAN
      /\ io.type = "buffer" => Holds(io, file)
      /\ io.type # "buffer" => io.len = 0 /\ io.pos = 0 /\ file = <<>> /\ got = <<>>
  BY <1>1 DEF IInv, IoInv, Alive
<1> DEFINE g == Store(file, io.pos, b)
<1> HIDE DEF b
<1>5. /\ q.pc \in {"returns", "wild", "abort"} /\ q.io \in IoObjects /\ Room(q.io) /\ q.io.type = io.type
      /\ q.pc = "returns" => q.ret \in -1..Len(b)
      /\ io.type = "buffer" /\ q.pc = "returns" => Holds(q.io, g) /\ q.ret >= 0
      /\ q.pc = "wild" => Len(q.io.data) < q.io.cap \/ q.io.pos > q.io.cap
      /\ io.type # "buffer" => q.io = io
      /\ io.type = "buffer" => g \in String
  BY <1>2, <1>3, <1>4, kwriteType
<1> HIDE DEF g
<1>6. CASE Written(q)
  <2>1. /\ q.pc = "returns" /\ q.ret >= 0 /\ frames' = Advanced(q.ret) /\ out' = out \o SubSeq(b, 1, q.ret)
        /\ file' = (IF io.type = "buffer" THEN g ELSE file) /\ mixed' = TRUE /\ result' = result /\ pc' = pc
    BY <1>6 DEF Written, b, g
  <2>2. q.ret \in Nat /\ q.ret <= Len(b)
    BY <1>5, <2>1
  <2>3. SubSeq(b, 1, q.ret) \in String /\ Len(SubSeq(b, 1, q.ret)) = q.ret
    <3> DEFINE n == q.ret
    <3>1. n \in Nat /\ n <= Len(b) /\ 0 \in Nat /\ 0 <= n
      BY <2>2
    <3> HIDE DEF n
    <3>2. SubSeq(b, 0 + 1, n) \in String /\ Len(SubSeq(b, 0 + 1, n)) = n - 0
      BY <1>2, <3>1, StringParts
    <3>3. 0 + 1 = 1 /\ n - 0 = n
      BY <3>1
    <3> QED
      BY <3>2, <3>3 DEF n
  <2>4. out' \in String /\ Len(out') = Len(out) + q.ret
    <3> DEFINE s == SubSeq(b, 1, q.ret)
    <3>1. s \in String /\ Len(s) = q.ret /\ out' = out \o s
      BY <2>1, <2>3
    <3> HIDE DEF s
    <3>2. out \o s \in String /\ Len(out \o s) = Len(out) + Len(s)
      BY <1>2, <3>1, StringCat
    <3> QED
      BY <3>1, <3>2
  <2>5. frames' \in Seq(Writers) /\ frames' # <<>> /\ Total(frames') = Len(out')
    BY <1>2, <2>1, <2>2, <2>4
  <2>6. PrintInv'
    BY <1>1, <2>1, <2>4, <2>5 DEF IInv, PrintInv
  <2>7. IoInv'
    BY <1>1, <1>3, <1>4, <1>5, <2>1 DEF IoInv, Alive, WritesInside, ReadSoFar
  <2> QED
    BY <2>6, <2>7 DEF IInv
<1>7. CASE WriteFails(q)
  <2>1. /\ q.pc = "returns" /\ q.ret < 0 /\ frames' = <<>> /\ result' = -1 /\ pc' = "ready"
        /\ out' = out /\ file' = file /\ mixed' = mixed
    BY <1>7 DEF WriteFails, Fail
  <2>2. io' = io
    <3>1. q.ret \in Int
      BY <1>5, <2>1, <1>2, Strings DEF IsSeq
    <3>2. io.type # "buffer"
      BY <1>5, <2>1, <3>1
    <3> QED
      BY <1>3, <1>5, <3>2
  <2>3. IoInv'
    BY <1>1, <2>1, <2>2, IoSame DEF IInv, Alive
  <2>4. PrintInv'
    <3>1. frames' \in Seq(Writers) /\ ~(result' >= 0) /\ result' \in Int
      BY <2>1
    <3> QED
      BY <1>1, <2>1, <3>1 DEF IInv, PrintInv
  <2> QED
    BY <2>3, <2>4 DEF IInv
<1>8. CASE WriteEnds(q)
  <2>1. /\ pc' \in {"wild", "abort"} /\ pc' = q.pc
        /\ frames' = frames /\ out' = out /\ result' = result /\ file' = file /\ mixed' = mixed
    BY <1>5, <1>8 DEF WriteEnds
  <2>2. PrintInv'
    BY <1>1, <2>1 DEF IInv, PrintInv
  <2>3. IoInv'
    BY <1>1, <1>3, <1>4, <1>5, <2>1 DEF IoInv, Alive, WritesInside, ReadSoFar
  <2> QED
    BY <2>2, <2>3 DEF IInv
<1> QED
  BY <1>3, <1>6, <1>7, <1>8

LEMMA EnterStep ==
  ASSUME IInv, Enter
  PROVE  IInv'
<1>1. /\ pc = "print" /\ Top.todo # <<>> /\ Piece.do = "repr" /\ call' = call /\ got' = got /\ ops' = ops
      /\ io' = io /\ file' = file /\ mixed' = mixed /\ out' = out /\ result' = result /\ pc' = pc
  BY DEF Enter, Working
<1> DEFINE w == Frame(kwriteR(Piece.obj), Piece.obj.type \in {"ast", "tok"})
<1>2. frames' = Append(Advanced(0), w)
  BY DEF Enter
<1>3. /\ Total(frames) = Len(out) /\ Len(out) \in Nat /\ Piece.obj \in Objects
      /\ Advanced(0) \in Seq(Writers) /\ Total(Advanced(0)) = Total(frames) + 0
  BY <1>1, PieceType DEF IInv
<1>4. w \in Writers /\ w.rsz = 0
  <2>1. kwriteR(Piece.obj) \in Seq(Pieces)
    BY <1>3, kwriteRType
  <2> DEFINE own == Piece.obj.type \in {"ast", "tok"}
             t == kwriteR(Piece.obj)
  <2>2. own \in BOOLEAN
    OBVIOUS
  <2> HIDE DEF own, t
  <2>3. Frame(t, own) \in Writers /\ Frame(t, own).rsz = 0
    BY <2>1, <2>2 DEF Frame, Writers, t
  <2> QED
    BY <2>3 DEF own, t
<1> HIDE DEF w
<1>5. frames' \in Seq(Writers) /\ frames' # <<>> /\ Total(frames') = Len(out)
  BY <1>2, <1>3, <1>4, EnteredType
<1>6. IoInv'
  BY <1>1, IoSame DEF IInv, Alive
<1> QED
  BY <1>1, <1>5, <1>6 DEF IInv, PrintInv

LEMMA AssertionStep ==
  ASSUME IInv, Assertion
  PROVE  IInv'
<1>1. /\ pc = "print" /\ pc' = "abort" /\ call' = call /\ got' = got /\ ops' = ops
      /\ io' = io /\ file' = file /\ mixed' = mixed /\ frames' = frames /\ out' = out /\ result' = result
  BY DEF Assertion, Working
<1>2. IoInv'
  BY <1>1, IoSame DEF IInv, Alive
<1> QED
  BY <1>1, <1>2 DEF IInv, PrintInv

LEMMA EndStep ==
  ASSUME IInv, Return \/ Finish \/ NoResult
  PROVE  IInv'
<1>1. /\ pc = "print" /\ io' = io /\ file' = file /\ got' = got /\ mixed' = mixed /\ ops' = ops /\ call' = call
      /\ out' = out
  BY DEF Return, Finish, NoResult, Done, io_vars
<1>2. /\ frames \in Seq(Writers) /\ frames # <<>> /\ Total(frames) = Len(out) /\ out \in String /\ Len(out) \in Nat
  <2>1. frames \in Seq(Writers) /\ frames # <<>> /\ Total(frames) = Len(out) /\ out \in String
    BY <1>1 DEF IInv, PrintInv
  <2> QED
    BY <2>1, Strings DEF IsSeq
<1>3. CASE Return
  <2>1. /\ Len(frames) > 1 /\ result' = result /\ pc' = pc
        /\ frames' = [Front(frames) EXCEPT ![Len(frames) - 1].rsz = @ + Last(frames).rsz]
    BY <1>3 DEF Return, Top
  <2>2. frames' \in Seq(Writers) /\ frames' # <<>> /\ Total(frames') = Total(frames)
    BY <1>2, <2>1, ReturnedType
  <2>3. IoInv'
    BY <1>1, <2>1, IoSame DEF IInv, Alive
  <2> QED
    BY <1>1, <1>2, <2>1, <2>2, <2>3 DEF IInv, PrintInv
<1>4. CASE Finish
  <2>1. Len(frames) = 1 /\ frames' = <<>> /\ result' = Last(frames).rsz /\ pc' = "ready"
    BY <1>4 DEF Finish, Top
  <2>2. result' = Len(out)
    <3> DEFINE w == frames[1]
    <3>1. w \in Writers /\ Last(frames) = w /\ frames = <<w>>
      BY <1>2, <2>1 DEF Last
    <3> HIDE DEF w
    <3>2. Total(<<w>>) = w.rsz
      BY <3>1, FirstType
    <3> QED
      BY <1>2, <2>1, <3>1, <3>2
  <2>3. IoInv'
    BY <1>1, <2>1, IoSame DEF IInv, Alive
  <2>4. frames' \in Seq(Writers)
    BY <2>1
  <2> QED
    BY <1>1, <1>2, <2>1, <2>2, <2>3, <2>4 DEF IInv, PrintInv
<1>5. CASE NoResult
  <2>1. frames' = <<>> /\ result' = -1 /\ pc' = "ready"
    BY <1>5 DEF NoResult, Fail
  <2>2. frames' \in Seq(Writers) /\ result' \in Int /\ ~(result' >= 0)
    BY <2>1
  <2>3. IoInv'
    BY <1>1, <2>1, IoSame DEF IInv, Alive
  <2> QED
    BY <1>1, <1>2, <2>1, <2>2, <2>3 DEF IInv, PrintInv
<1> QED
  BY <1>3, <1>4, <1>5

LEMMA NextInv ==
  ASSUME IInv, [Next]_<<io_vars, pc, print_vars>>
  PROVE  IInv'
<1>1. CASE ClientOp /\ UNCHANGED print_vars
  BY <1>1, ClientStep
<1>2. CASE \E c \in DOMAIN Calls : Format(c)
  BY <1>2, FormatStep
<1>3. CASE Write
  BY <1>3, WriteStep
<1>4. CASE Enter
  BY <1>4, EnterStep
<1>5. CASE Assertion
  BY <1>5, AssertionStep
<1>6. CASE Return \/ Finish \/ NoResult
  BY <1>6, EndStep
<1>7. CASE UNCHANGED <<io_vars, pc, print_vars>>
  BY <1>7 DEF IInv, IoInv, PrintInv, Alive, WritesInside, ReadSoFar, io_vars, print_vars
<1> QED
  BY <1>1, <1>2, <1>3, <1>4, <1>5, <1>6, <1>7 DEF Next

LEMMA Invariant == Spec => []IInv
<1>1. Init => IInv
  BY InitInv
<1>2. IInv /\ [Next]_<<io_vars, pc, print_vars>> => IInv'
  BY NextInv
<1> QED
  BY <1>1, <1>2, PTL DEF Spec

(***************************************************************************)
(* The results.                                                            *)
(***************************************************************************)

\* Every state has its type, and a buffer never uses more than the capacity it has recorded.
THEOREM TypesRight == Spec => []TypeOK
<1>1. IInv => TypeOK
  BY DEF IInv, IoInv, PrintInv, IoObjects, Room, TypeOK
<1> QED
  BY <1>1, Invariant, PTL

\* Pushes and writes of whatever bytes, at whatever places, through every growth of the block
\* and with printing in between, leave everything that was stored where it was stored.
THEOREM FilesKept == Spec => []FileKept
<1>1. IInv => FileKept
  <2>1. SUFFICES ASSUME IoInv, pc = "ready", io.type = "buffer"
                 PROVE  io.len <= Len(file) /\ Len(file) <= Len(io.data) /\ file = SubSeq(io.data, 1, Len(file))
    BY DEF IInv, FileKept
  <2> DEFINE n == Len(file)
             s == SubSeq(io.data, 0 + 1, n)
  <2>2. /\ Holds(io, file) /\ file \in String /\ io.data \in String /\ n \in Nat /\ n <= Len(io.data)
        /\ Len(io.data) \in Nat
    BY <2>1, BufferState
  <2>3. 0 \in Nat /\ 0 <= n /\ n - 0 = n /\ 0 + 1 = 1 /\ \A k \in 1..n : 0 + k = k
    BY <2>2
  <2> HIDE DEF n
  <2>4. s \in String /\ Len(s) = n - 0 /\ \A k \in 1..(n - 0) : s[k] = io.data[0 + k]
    BY <2>2, <2>3, StringParts
  <2> HIDE DEF s
  <2>5. \A k \in 1..n : file[k] = s[k]
    BY <2>2, <2>3, <2>4 DEF Holds, n
  <2>6. file = s
    BY <2>2, <2>3, <2>4, <2>5, StringsSame DEF n
  <2> QED
    BY <2>2, <2>3, <2>6 DEF Holds, n, s
<1> QED
  BY <1>1, Invariant, PTL

\* A copy leaves the block only where realloc has failed, or pos, which is not initialised,
\* lies past the capacity.
THEOREM WritesStayInside == Spec => []WritesInside
<1>1. IInv => WritesInside
  BY DEF IInv, IoInv
<1> QED
  BY <1>1, Invariant, PTL

\* A client that pushes and reads, in whatever order and portions, gets the bytes in order,
\* each of them once, and none the buffer does not have.
THEOREM ReadsRight == Spec => []ReadsInOrder
<1>1. IInv => ReadsInOrder
  <2>1. SUFFICES ASSUME IoInv, ~mixed, pc = "ready"
                 PROVE  io.pos <= io.len /\ got = SubSeq(file, 1, io.pos)
    BY DEF IInv, IoInv, ReadSoFar, ReadsInOrder
  <2> DEFINE n == io.pos
             s == SubSeq(file, 0 + 1, n)
  <2>2. /\ n <= io.len /\ Len(got) = n /\ (\A k \in 1..n : got[k] = file[k]) /\ got \in String /\ file \in String
        /\ n \in Nat /\ io.len \in Nat
    BY <2>1 DEF IoInv, ReadSoFar, Alive, IoObjects
  <2>3. n <= Len(file)
    <3>1. CASE io.type = "buffer"
      <4>1. io.len <= Len(file) /\ Len(file) \in Nat
        BY <2>1, <3>1, BufferState
      <4> QED
        BY <2>2, <4>1
    <3>2. CASE io.type # "buffer"
      BY <2>1, <3>2 DEF IoInv
    <3> QED
      BY <3>1, <3>2
  <2>4. 0 \in Nat /\ 0 <= n /\ n - 0 = n /\ 0 + 1 = 1 /\ \A k \in 1..n : 0 + k = k
    BY <2>2
  <2> HIDE DEF n
  <2>5. s \in String /\ Len(s) = n - 0 /\ \A k \in 1..(n - 0) : s[k] = file[0 + k]
    BY <2>2, <2>3, <2>4, StringParts
  <2> HIDE DEF s
  <2>6. Len(got) = Len(s) /\ \A k \in 1..Len(got) : got[k] = s[k]
    BY <2>2, <2>4, <2>5
  <2>7. got = s
    BY <2>2, <2>5, <2>6, StringsSame
  <2> QED
    BY <2>2, <2>4, <2>7 DEF n, s
<1> QED
  BY <1>1, Invariant, PTL

\* The array of mywrite_stresc holds every portion, of a string of whatever bytes: what it
\* collects before it sends, one more escape, and the closing quote.
THEOREM ArrayFits ==
  ASSUME NEW s \in Seq(STRING)
  PROVE  \A k \in DOMAIN mywrite_stresc(s) : Len(mywrite_stresc(s)[k].bytes) <= TMP_LEN
<1> DEFINE t == mywrite_stresc(s)
<1>1. t \in Seq(Portions)
  BY EscapedType
<1> HIDE DEF t
<1>2. \A k \in DOMAIN t : t[k] \in Portions
  BY <1>1
<1> QED
  BY <1>2 DEF Portions, t

\* What kprintf returns is what has arrived: the sizes of all pieces, through every level of
\* nesting and with writes cut short, are added once, whatever is printed.
THEOREM SizesRight == Spec => []SizeRight
<1>1. IInv => SizeRight
  BY DEF IInv, PrintInv, SizeRight
<1> QED
  BY <1>1, Invariant, PTL
=============================================================================

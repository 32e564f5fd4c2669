------------------------------ MODULE LexerProofs ------------------------------
(***************************************************************************)
(* Proofs about the lexer, for every set of sources: its types; that its   *)
(* tokens tile the source, with the lines and columns a reader of the text *)
(* would give (THEOREM Tiles); and that each token is a word of the        *)
(* language, of the kind it is given and of no other, and no longer text   *)
(* at its place is a word (THEOREM Longest).                               *)
(*                                                                         *)
(* The operators of the first part are those of Lexer with the source as   *)
(* an argument, so that a formula about the state after a step can be read *)
(* off one about the state before it.                                      *)
(***************************************************************************)
EXTENDS Lexer, FiniteSetTheorems, SequenceTheorems, TLAPS

\* At, OnlyWhite, LineOf and ColOf of Lexer, of the source s.
CharAt(s, k) == IF k < Len(s) THEN s[k + 1] ELSE NUL
Blank(s, p, q) == p <= q /\ \A k \in p..(q - 1) : CharAt(s, k) \in White
Newlines(s, p) == {k \in 0..(p - 1) : CharAt(s, k) = "\n"}
IsCol(s, p, c) ==
  /\ c \in 0..p
  /\ \A k \in (p - c)..(p - 1) : CharAt(s, k) # "\n"
  /\ c = p \/ CharAt(s, p - c - 1) = "\n"

\* Position p has the line and the column of its byte.
Placed(s, p) == p.line = Cardinality(Newlines(s, p.i)) /\ IsCol(s, p.i, p.col)

\* Token t follows byte from, and is where it says.
TokenOK(s, t, from) ==
  /\ Blank(s, from, t.posb)
  /\ t.lenb = 0 <=> t.kind = "EOF"
  /\ t.kind = "EOF" => t.posb = Len(s)
  /\ t.line = Cardinality(Newlines(s, t.posb)) /\ IsCol(s, t.posb, t.col)
  /\ t.lenc = t.lenb

\* Where the token before the one at k ended.
Before(ts, k) == IF k = 1 THEN 0 ELSE ts[k - 1].posb + ts[k - 1].lenb
Tiled(s, ts) == \A k \in 1..Len(ts) : TokenOK(s, ts[k], Before(ts, k))

(***************************************************************************)
(* The inductive invariant.                                                *)
(***************************************************************************)

\* A token is being read.
InToken(at) == at \notin {"loop", "done", "error", "abort"}

\* What has been read of it has no newline, and is not empty, or what it
\* begins with is the current character, which the next test will take.
Scanned ==
  /\ Blank(src, Before(toks, Len(toks) + 1), start.i)
  /\ start.i <= pos.i /\ pos.col - start.col = pos.i - start.i
  /\ kind = "EOF" => pc = "emit" /\ pos = start /\ pos.i = Len(src)
  /\ kind # "EOF" =>
       \/ start.i < pos.i
       \/ pos.i < Len(src) /\ pc = "comment" /\ CharAt(src, pos.i) = "#"
       \/ pc = "digits" /\ base = 10 /\ CharAt(src, pos.i) \in Digits(10) \cup {"."}
       \/ pc = "point" /\ CharAt(src, pos.i) = "."

EOFLast ==
  /\ pc = "done" => toks # <<>> /\ toks[Len(toks)].kind = "EOF"
  /\ \A k \in 1..Len(toks) : toks[k].kind = "EOF" => pc = "done" /\ k = Len(toks)

IInv ==
  /\ TypeOK
  /\ Placed(src, pos) /\ Placed(src, start)
  /\ Tiled(src, toks) /\ EOFLast
  /\ pc = "loop" => Blank(src, Before(toks, Len(toks) + 1), pos.i)
  /\ InToken(pc) => Scanned

(***************************************************************************)
(* Lines and columns.                                                      *)
(***************************************************************************)

\* A byte has one column.
LEMMA ColUnique ==
  ASSUME NEW s, NEW p \in Nat, NEW c, NEW d, IsCol(s, p, c), IsCol(s, p, d)
  PROVE  c = d
<1>1. ASSUME NEW x, NEW y, IsCol(s, p, x), IsCol(s, p, y)
      PROVE  ~(x < y)
  <2>1. x \in 0..p /\ y \in 0..p
    BY <1>1 DEF IsCol
  <2>2. SUFFICES ASSUME x < y PROVE FALSE
    OBVIOUS
  <2>3. p - x - 1 \in (p - y)..(p - 1) /\ x # p
    BY <2>1, <2>2
  <2> QED
    BY <1>1, <2>3 DEF IsCol
<1>2. ~(c < d) /\ ~(d < c)
  BY <1>1
<1>3. c \in 0..p /\ d \in 0..p
  BY DEF IsCol
<1> QED
  BY <1>2, <1>3

\* The newlines before a byte are finitely many.
LEMMA NewlinesFinite ==
  ASSUME NEW s, NEW p \in Nat
  PROVE  IsFiniteSet(Newlines(s, p)) /\ Cardinality(Newlines(s, p)) \in Nat
<1>1. IsFiniteSet(0..(p - 1))
  BY FS_Interval
<1>2. Newlines(s, p) \subseteq 0..(p - 1)
  BY DEF Newlines
<1>3. IsFiniteSet(Newlines(s, p))
  BY <1>1, <1>2, FS_Subset
<1> QED
  BY <1>3, FS_CardinalityType

\* One byte on, the line and the column are those ADV gives.
LEMMA NextPlace ==
  ASSUME NEW s, NEW p \in Nat, NEW c, IsCol(s, p, c)
  PROVE  /\ Cardinality(Newlines(s, p + 1)) =
              Cardinality(Newlines(s, p)) + (IF CharAt(s, p) = "\n" THEN 1 ELSE 0)
         /\ IsCol(s, p + 1, IF CharAt(s, p) = "\n" THEN 0 ELSE c + 1)
<1> DEFINE N == Newlines(s, p)
           M == Newlines(s, p + 1)
<1>1. IsFiniteSet(N) /\ Cardinality(N) \in Nat
  BY NewlinesFinite
<1>2. c \in 0..p
  BY DEF IsCol
<1>3. 0..(p + 1 - 1) = (0..(p - 1)) \cup {p} /\ p \notin 0..(p - 1)
  OBVIOUS
<1>4. CASE CharAt(s, p) = "\n"
  <2>1. M = N \cup {p} /\ p \notin N
    BY <1>3, <1>4 DEF Newlines
  <2>2. Cardinality(M) = Cardinality(N) + 1
    BY <1>1, <2>1, FS_AddElement
  <2>3. IsCol(s, p + 1, 0)
    <3>1. /\ 0 \in 0..(p + 1) /\ p + 1 - 0 - 1 = p
          /\ \A k \in (p + 1 - 0)..(p + 1 - 1) : FALSE
      OBVIOUS
    <3> QED
      BY <1>4, <3>1 DEF IsCol
  <2> QED
    BY <1>4, <2>2, <2>3
<1>5. CASE CharAt(s, p) # "\n"
  <2>1. M = N
    BY <1>3, <1>5 DEF Newlines
  <2>2. IsCol(s, p + 1, c + 1)
    <3>1. /\ c + 1 \in 0..(p + 1) /\ p + 1 - (c + 1) - 1 = p - c - 1
          /\ c = p => c + 1 = p + 1
      BY <1>2
    <3>2. \A k \in (p + 1 - (c + 1))..(p + 1 - 1) : k = p \/ k \in (p - c)..(p - 1)
      BY <1>2
    <3>3. \A k \in (p + 1 - (c + 1))..(p + 1 - 1) : CharAt(s, k) # "\n"
      BY <1>5, <3>2 DEF IsCol
    <3> QED
      BY <3>1, <3>3 DEF IsCol
  <2> QED
    BY <1>1, <1>5, <2>1, <2>2
<1> QED
  BY <1>4, <1>5

(***************************************************************************)
(* Steps.                                                                  *)
(***************************************************************************)

\* The points of execution inside a token.
Scanning == {"comment", "name", "base", "digits", "point", "fraction", "exponent",
             "sign", "exp_digits", "suffix"}

\* A source is a sequence.
LEMMA SourceType ==
  ASSUME LexAssumption, TypeOK
  PROVE  /\ src \in Seq(STRING) /\ Len(src) \in Nat
         /\ pos \in [i : Nat, line : Nat, col : Nat] /\ pos.i <= Len(src)
         /\ start \in [i : Nat, line : Nat, col : Nat] /\ start.i <= Len(src)
         /\ Cur = CharAt(src, pos.i)
<1>1. src \in Seq(STRING)
  BY DEF LexAssumption, TypeOK
<1>2. Len(src) \in Nat
  BY <1>1
<1>3. pos \in Positions /\ start \in Positions
  BY DEF TypeOK
<1> QED
  BY <1>1, <1>2, <1>3 DEF Positions, Cur, At, CharAt

\* ADV keeps the position right.
LEMMA AdvancedPlace ==
  ASSUME LexAssumption, TypeOK, Placed(src, pos)
  PROVE  /\ Advanced \in Positions /\ Placed(src, Advanced) /\ pos.i <= Advanced.i
         /\ pos.i < Len(src) => Advanced.i = pos.i + 1
         /\ pos.i < Len(src) /\ Cur # "\n" => Advanced.col = pos.col + 1
<1>1. /\ Len(src) \in Nat /\ pos \in [i : Nat, line : Nat, col : Nat]
      /\ pos.i <= Len(src) /\ Cur = CharAt(src, pos.i) /\ pos \in Positions
  BY SourceType DEF TypeOK
<1>2. CASE pos.i >= Len(src)
  <2>1. Advanced = pos
    BY <1>2 DEF Advanced
  <2> QED
    BY <1>1, <1>2, <2>1
<1>3. CASE pos.i < Len(src)
  <2> DEFINE a == Advanced
  <2>1. /\ a = IF Cur = "\n" THEN [i |-> pos.i + 1, line |-> pos.line + 1, col |-> 0]
               ELSE [pos EXCEPT !.i = pos.i + 1, !.col = pos.col + 1]
    BY <1>1, <1>3 DEF Advanced
  <2> HIDE DEF a
  <2>2. /\ a \in Positions /\ a.i = pos.i + 1
        /\ a.line = pos.line + (IF Cur = "\n" THEN 1 ELSE 0)
        /\ a.col = IF Cur = "\n" THEN 0 ELSE pos.col + 1
    <3>1. pos.i + 1 \in 0..Len(src)
      BY <1>1, <1>3
    <3>2. CASE Cur = "\n"
      BY <1>1, <2>1, <3>1, <3>2 DEF Positions
    <3>3. CASE Cur # "\n"
      <4>1. a = [pos EXCEPT !.i = pos.i + 1, !.col = pos.col + 1]
        BY <2>1, <3>3
      <4>2. a.i = pos.i + 1 /\ a.line = pos.line /\ a.col = pos.col + 1
        BY <1>1, <4>1 DEF Positions
      <4>3. a \in Positions
        <5> DEFINE r == [pos EXCEPT !.i = pos.i + 1]
        <5>1. r \in Positions
          BY <1>1, <3>1 DEF Positions
        <5>2. a = [r EXCEPT !.col = pos.col + 1]
          BY <4>1
        <5> HIDE DEF r
        <5> QED
          BY <1>1, <5>1, <5>2 DEF Positions
      <4> QED
        BY <1>1, <3>3, <4>2, <4>3
    <3> QED
      BY <3>2, <3>3
  <2>3. /\ Cardinality(Newlines(src, pos.i + 1)) =
             Cardinality(Newlines(src, pos.i)) + (IF Cur = "\n" THEN 1 ELSE 0)
        /\ IsCol(src, pos.i + 1, IF Cur = "\n" THEN 0 ELSE pos.col + 1)
    BY <1>1, NextPlace DEF Placed
  <2>4. Placed(src, a)
    BY <1>1, <2>2, <2>3 DEF Placed
  <2> QED
    BY <1>1, <2>2, <2>4 DEF a
<1> QED
  BY <1>1, <1>2, <1>3

\* A step inside a token: the current character, no newline, is read or not.
LEMMA TokenStep ==
  ASSUME LexAssumption, IInv, pc \in Scanning, pc' \in Scanning \cup {"emit"},
         UNCHANGED <<src, start, toks, res_max>>,
         base' \in {2, 8, 10, 16}, kind' \in Kinds \ {"EOF"},
         \/ pos' = Advanced /\ pos.i < Len(src) /\ Cur # "\n"
         \/ /\ pos' = pos
            /\ start.i = pos.i => pc' = "point" /\ CharAt(src, pos.i) = "."
  PROVE  IInv'
<1>1. /\ TypeOK /\ Placed(src, pos) /\ Placed(src, start) /\ Tiled(src, toks)
      /\ EOFLast /\ Scanned /\ pc # "emit" /\ pc # "done" /\ pc' # "done"
      /\ InToken(pc') /\ pc' # "loop"
  BY DEF IInv, InToken, Scanning
<1>2. /\ Len(src) \in Nat /\ pos \in [i : Nat, line : Nat, col : Nat]
      /\ start \in [i : Nat, line : Nat, col : Nat] /\ pos \in Positions
  BY <1>1, SourceType DEF TypeOK
<1>3. /\ start.i <= pos.i /\ pos.col - start.col = pos.i - start.i
  BY <1>1 DEF Scanned
<1>4. /\ pos' \in Positions /\ Placed(src, pos') /\ start.i <= pos'.i
      /\ pos'.col - start.col = pos'.i - start.i
      /\ start.i < pos'.i \/ (pc' = "point" /\ CharAt(src, pos'.i) = ".")
  <2>1. CASE pos' = pos /\ (start.i = pos.i => pc' = "point" /\ CharAt(src, pos.i) = ".")
    BY <1>1, <1>2, <1>3, <2>1
  <2>2. CASE pos' = Advanced /\ pos.i < Len(src) /\ Cur # "\n"
    <3>1. /\ pos' \in Positions /\ Placed(src, pos')
          /\ pos'.i = pos.i + 1 /\ pos'.col = pos.col + 1
      BY <1>1, <2>2, AdvancedPlace
    <3> QED
      BY <1>2, <1>3, <3>1
  <2> QED
    BY <2>1, <2>2
<1>5. TypeOK'
  BY <1>1, <1>4 DEF TypeOK, Positions, Scanning
<1>6. EOFLast'
  BY <1>1 DEF EOFLast
<1>7. Scanned'
  BY <1>1, <1>4 DEF Scanned
<1> QED
  BY <1>1, <1>4, <1>5, <1>6, <1>7 DEF IInv

\* Where the token before one that is not there yet ended.
LEMMA BeforeType ==
  ASSUME TypeOK
  PROVE  Before(toks, Len(toks) + 1) \in Nat /\ Len(toks) \in Nat
<1>1. toks \in Seq(Tokens) /\ Len(toks) \in Nat /\ DOMAIN toks = 1..Len(toks)
  BY DEF TypeOK
<1>2. CASE Len(toks) = 0
  BY <1>1, <1>2 DEF Before
<1>3. CASE Len(toks) # 0
  <2>1. Len(toks) + 1 # 1 /\ Len(toks) + 1 - 1 = Len(toks) /\ Len(toks) \in 1..Len(toks)
    BY <1>1, <1>3
  <2>2. toks[Len(toks)] \in Tokens
    BY <1>1, <2>1
  <2>3. toks[Len(toks)].posb \in Nat /\ toks[Len(toks)].lenb \in Nat
    BY <2>2 DEF Tokens
  <2> QED
    BY <1>1, <2>1, <2>3 DEF Before
<1> QED
  BY <1>2, <1>3

\* A step that begins a token, whose first character is read or not.
LEMMA BeginStep ==
  ASSUME LexAssumption, IInv, pc = "loop", pos.i < Len(src), start' = pos,
         pc' \in Scanning \cup {"emit"}, UNCHANGED <<src, toks, res_max>>,
         base' \in {2, 8, 10, 16}, kind' \in Kinds \ {"EOF"},
         \/ pos' = Advanced /\ Cur # "\n"
         \/ /\ pos' = pos
            /\ \/ pc' = "comment" /\ Cur = "#"
               \/ pc' = "digits" /\ base' = 10 /\ Cur \in Digits(10) \cup {"."}
  PROVE  IInv'
<1>1. /\ TypeOK /\ Placed(src, pos) /\ Tiled(src, toks)
      /\ EOFLast /\ pc # "done" /\ pc' # "done"
      /\ InToken(pc') /\ pc' # "loop" /\ Blank(src, Before(toks, Len(toks) + 1), pos.i)
  BY DEF IInv, InToken, Scanning
<1>2. /\ Len(src) \in Nat /\ pos \in [i : Nat, line : Nat, col : Nat] /\ pos \in Positions
      /\ Cur = CharAt(src, pos.i)
  BY <1>1, SourceType DEF TypeOK
<1>3. /\ pos' \in Positions /\ Placed(src, pos') /\ pos.i <= pos'.i
      /\ pos'.col - pos.col = pos'.i - pos.i
      /\ \/ pos.i < pos'.i
         \/ pos'.i < Len(src) /\ pc' = "comment" /\ CharAt(src, pos'.i) = "#"
         \/ pc' = "digits" /\ base' = 10 /\ CharAt(src, pos'.i) \in Digits(10) \cup {"."}
  <2>1. CASE /\ pos' = pos
             /\ \/ pc' = "comment" /\ Cur = "#"
                \/ pc' = "digits" /\ base' = 10 /\ Cur \in Digits(10) \cup {"."}
    <3>1. pos' \in Positions /\ Placed(src, pos')
      BY <1>1, <1>2, <2>1
    <3>2. pos'.i = pos.i /\ pos'.col = pos.col
      BY <2>1
    <3> QED
      BY <1>2, <2>1, <3>1, <3>2
  <2>2. CASE pos' = Advanced /\ Cur # "\n"
    <3>1. /\ pos' \in Positions /\ Placed(src, pos')
          /\ pos'.i = pos.i + 1 /\ pos'.col = pos.col + 1
      BY <1>1, <2>2, AdvancedPlace
    <3> QED
      BY <1>2, <3>1
  <2> QED
    BY <2>1, <2>2
<1>5. TypeOK'
  BY <1>1, <1>2, <1>3 DEF TypeOK, Positions, Scanning
<1>6. EOFLast'
  BY <1>1 DEF EOFLast
<1>7. Scanned'
  BY <1>1, <1>3 DEF Scanned
<1> QED
  BY <1>1, <1>3, <1>5, <1>6, <1>7 DEF IInv

\* White space before a token.
LEMMA SkipWhiteStep ==
  ASSUME LexAssumption, IInv, SkipWhite
  PROVE  IInv'
<1>1. /\ TypeOK /\ Placed(src, pos) /\ Tiled(src, toks)
      /\ EOFLast /\ pc = "loop" /\ pc' = "loop" /\ Cur \in White
      /\ Blank(src, Before(toks, Len(toks) + 1), pos.i)
      /\ pos.i < Len(src) /\ pos' = Advanced /\ start' = pos
      /\ UNCHANGED <<src, toks, res_max, base, kind>>
  BY DEF IInv, SkipWhite, Begin, Goto, Keep, ADV
<1>2. /\ Len(src) \in Nat /\ pos \in [i : Nat, line : Nat, col : Nat] /\ pos \in Positions
      /\ Cur = CharAt(src, pos.i)
  BY <1>1, SourceType DEF TypeOK
<1>3. pos' \in Positions /\ Placed(src, pos') /\ pos'.i = pos.i + 1
  BY <1>1, AdvancedPlace
<1> DEFINE b == Before(toks, Len(toks) + 1)
<1>4. Blank(src, b, pos'.i)
  <2>1. \A k \in b..(pos.i + 1 - 1) : k = pos.i \/ k \in b..(pos.i - 1)
    BY <1>2
  <2>2. b <= pos.i /\ \A k \in b..(pos.i - 1) : CharAt(src, k) \in White
    BY <1>1 DEF Blank
  <2>3. b \in Int
    BY <1>1, BeforeType
  <2> HIDE DEF b
  <2>4. b <= pos'.i
    BY <1>2, <1>3, <2>2, <2>3
  <2> QED
    BY <1>1, <1>2, <1>3, <2>1, <2>2, <2>4 DEF Blank
<1>5. TypeOK'
  BY <1>1, <1>2, <1>3 DEF TypeOK, Positions
<1>6. EOFLast'
  BY <1>1 DEF EOFLast
<1> QED
  BY <1>1, <1>3, <1>4, <1>5, <1>6 DEF IInv, InToken

\* The lexer stops with an error.
LEMMA StopStep ==
  ASSUME LexAssumption, IInv, pc' \in {"abort", "error"}, pc # "done",
         UNCHANGED <<src, toks, res_max, pos, base, kind>>, start' \in {start, pos}
  PROVE  IInv'
<1>1. /\ TypeOK /\ Placed(src, pos) /\ Placed(src, start) /\ Tiled(src, toks) /\ EOFLast
  BY DEF IInv
<1>2. TypeOK' /\ Placed(src, start')
  BY <1>1 DEF TypeOK, Positions
<1>3. EOFLast'
  BY <1>1 DEF EOFLast
<1> QED
  BY <1>1, <1>2, <1>3 DEF IInv, InToken

\* The end of the source.
LEMMA EndStep ==
  ASSUME LexAssumption, IInv, EndOfSource
  PROVE  IInv'
<1>1. /\ TypeOK /\ Placed(src, pos) /\ Tiled(src, toks)
      /\ EOFLast /\ pc = "loop" /\ pc' = "emit"
      /\ Blank(src, Before(toks, Len(toks) + 1), pos.i)
      /\ pos.i >= Len(src) /\ pos' = pos /\ start' = pos /\ kind' = "EOF"
      /\ UNCHANGED <<src, toks, res_max, base>>
  BY DEF IInv, EndOfSource, Goto, Keep
<1>2. /\ Len(src) \in Nat /\ pos \in [i : Nat, line : Nat, col : Nat] /\ pos \in Positions
      /\ pos.i = Len(src)
  BY <1>1, SourceType DEF TypeOK
<1>3. TypeOK'
  BY <1>1, <1>2 DEF TypeOK, Positions, Kinds
<1>4. EOFLast'
  BY <1>1 DEF EOFLast
<1>5. Scanned'
  BY <1>1, <1>2 DEF Scanned
<1> QED
  BY <1>1, <1>3, <1>4, <1>5 DEF IInv, InToken

\* The token that EMIT makes.
LEMMA EmittedToken ==
  ASSUME LexAssumption, IInv, pc = "emit"
  PROVE  /\ Token(kind, start, pos) \in Tokens
         /\ TokenOK(src, Token(kind, start, pos), Before(toks, Len(toks) + 1))
         /\ Token(kind, start, pos).kind = kind
         /\ Token(kind, start, pos).posb + Token(kind, start, pos).lenb = pos.i
<1> DEFINE t == Token(kind, start, pos)
<1>1. /\ TypeOK /\ Placed(src, pos) /\ Placed(src, start) /\ Scanned
  BY DEF IInv, InToken
<1>2. /\ Len(src) \in Nat /\ pos \in [i : Nat, line : Nat, col : Nat]
      /\ start \in [i : Nat, line : Nat, col : Nat] /\ kind \in Kinds
  BY <1>1, SourceType DEF TypeOK
<1>3. /\ start.i <= pos.i /\ pos.col - start.col = pos.i - start.i
      /\ kind = "EOF" => pos = start /\ pos.i = Len(src)
      /\ kind # "EOF" => start.i < pos.i
      /\ Blank(src, Before(toks, Len(toks) + 1), start.i)
  BY <1>1 DEF Scanned
<1>4. /\ t.kind = kind /\ t.posb = start.i /\ t.lenb = pos.i - start.i
      /\ t.line = start.line /\ t.col = start.col /\ t.lenc = pos.col - start.col
  BY DEF Token
<1>5. t \in Tokens
  <2>1. pos.i - start.i \in Nat /\ pos.col - start.col \in Nat
    BY <1>2, <1>3
  <2> QED
    BY <1>2, <2>1 DEF Token, Tokens
<1> HIDE DEF t
<1>6. t.lenb = 0 <=> t.kind = "EOF"
  BY <1>2, <1>3, <1>4
<1>7. TokenOK(src, t, Before(toks, Len(toks) + 1))
  BY <1>1, <1>2, <1>3, <1>4, <1>6 DEF TokenOK, Placed
<1> QED
  BY <1>2, <1>4, <1>5, <1>7 DEF t

LEMMA EmitStep ==
  ASSUME LexAssumption, IInv, Emit
  PROVE  IInv'
<1> DEFINE t == Token(kind, start, pos)
           n == Len(toks)
<1>1. /\ TypeOK /\ Placed(src, pos) /\ Placed(src, start) /\ Tiled(src, toks) /\ EOFLast
      /\ pc = "emit" /\ toks' = Append(toks, t)
      /\ res_max' = IF n + 1 > res_max THEN (n + 1) * 2 ELSE res_max
      /\ pc' = IF kind = "EOF" THEN "done" ELSE "loop"
      /\ UNCHANGED <<src, pos, start, base, kind>>
  BY DEF IInv, Emit, Goto
<1>2. /\ t \in Tokens /\ TokenOK(src, t, Before(toks, n + 1)) /\ t.kind = kind
      /\ t.posb + t.lenb = pos.i
  BY <1>1, EmittedToken
<1> HIDE DEF t
<1>3. toks \in Seq(Tokens) /\ n \in Nat /\ res_max \in Nat /\ n <= res_max
  BY <1>1 DEF TypeOK
<1>4. /\ toks' \in Seq(Tokens) /\ Len(toks') = n + 1 /\ toks'[n + 1] = t
      /\ \A k \in 1..n : toks'[k] = toks[k]
  BY <1>1, <1>2, <1>3
<1> HIDE DEF n
<1>5. TypeOK'
  <2>1. res_max' \in Nat /\ Len(toks') <= res_max'
    BY <1>1, <1>3, <1>4
  <2> QED
    BY <1>1, <1>4, <2>1 DEF TypeOK, Positions
<1>6. \A k \in 1..(n + 1) : Before(toks', k) = Before(toks, k)
  <2>1. \A k \in 1..(n + 1) : k = 1 \/ k - 1 \in 1..n
    BY <1>3
  <2> QED
    BY <1>4, <2>1 DEF Before
<1>7. \A k \in 1..(n + 1) : k = n + 1 \/ k \in 1..n
  BY <1>3
<1>8. Tiled(src, toks')
  <2>1. \A k \in 1..n : TokenOK(src, toks[k], Before(toks, k))
    BY <1>1 DEF Tiled, n
  <2>2. \A k \in 1..(n + 1) : TokenOK(src, toks'[k], Before(toks', k))
    BY <1>2, <1>4, <1>6, <1>7, <2>1
  <2> QED
    BY <1>4, <2>2 DEF Tiled
<1>9. Before(toks', Len(toks') + 1) = pos.i
  <2>1. Len(toks') + 1 # 1 /\ Len(toks') + 1 - 1 = n + 1
    BY <1>3, <1>4
  <2> QED
    BY <1>2, <1>4, <2>1 DEF Before
<1>10. Blank(src, pos.i, pos.i)
  <2>1. pos.i \in Int
    BY <1>1 DEF TypeOK, Positions
  <2>2. pos.i <= pos.i /\ pos.i..(pos.i - 1) = {}
    BY <2>1
  <2> QED
    BY <2>2 DEF Blank
<1>11. EOFLast'
  <2>1. \A k \in 1..n : toks[k].kind # "EOF"
    BY <1>1 DEF EOFLast, n
  <2>2. kind = "EOF" <=> pc' = "done"
    BY <1>1
  <2>3. toks' # <<>>
    BY <1>3, <1>4
  <2> QED
    BY <1>2, <1>4, <1>7, <2>1, <2>2, <2>3 DEF EOFLast
<1> QED
  BY <1>1, <1>5, <1>8, <1>9, <1>10, <1>11 DEF IInv, InToken

(***************************************************************************)
(* The loops and tests inside a token.                                     *)
(***************************************************************************)

\* A token not begun is one whose first character is still to be read.
LEMMA Begun ==
  ASSUME LexAssumption, IInv, pc \in Scanning, start.i = pos.i
  PROVE  \/ pc = "comment" /\ pos.i < Len(src) /\ Cur = "#"
         \/ pc = "digits" /\ base = 10 /\ Cur \in Digits(10) \cup {"."}
         \/ pc = "point" /\ Cur = "."
<1>1. Scanned /\ TypeOK /\ kind # "EOF"
  BY DEF IInv, InToken, Scanning, Scanned
<1>2. Cur = CharAt(src, pos.i) /\ pos.i \in Int
  BY <1>1, SourceType
<1> QED
  BY <1>1, <1>2 DEF Scanned

\* What is a character, and not the terminator.
LEMMA CurInside ==
  ASSUME LexAssumption, TypeOK, Cur # NUL
  PROVE  pos.i < Len(src)
BY SourceType DEF Cur, At

\* A while over characters that are not newlines.
LEMMA WhileStep ==
  ASSUME LexAssumption, IInv, NEW at \in Scanning, NEW chars, NEW next \in Scanning \cup {"emit"},
         While(at, chars, next), "\n" \notin chars,
         start.i = pos.i => (Cur \in chars /\ pos.i < Len(src)) \/ (next = "point" /\ Cur = ".")
  PROVE  IInv'
<1>1. TypeOK /\ pc = at /\ UNCHANGED <<src, toks, res_max, start, base, kind>>
  BY DEF While, Keep, IInv
<1>2. kind' \in Kinds \ {"EOF"} /\ base' \in {2, 8, 10, 16}
  BY <1>1 DEF IInv, Scanned, InToken, Scanning, TypeOK
<1>3. Cur = CharAt(src, pos.i)
  BY <1>1, SourceType
<1>4. CASE Cur \in chars /\ pos.i < Len(src)
  <2>1. pos' = Advanced /\ pc' = pc /\ Cur # "\n"
    BY <1>4 DEF While, ADV
  <2> QED
    BY <1>1, <1>2, <1>4, <2>1, TokenStep
<1>5. CASE ~(Cur \in chars /\ pos.i < Len(src))
  <2>1. pos' = pos /\ pc' = next
    BY <1>5 DEF While, Goto
  <2> QED
    BY <1>1, <1>2, <1>3, <1>5, <2>1, TokenStep
<1> QED
  BY <1>4, <1>5

\* An optional character.
LEMMA OptionalStep ==
  ASSUME LexAssumption, IInv, NEW at \in Scanning, NEW chars, NEW yes \in Scanning \cup {"emit"},
         NEW no \in Scanning \cup {"emit"}, NEW k \in Kinds \ {"EOF"},
         Optional(at, chars, yes, no, k), {"\n", NUL} \cap chars = {},
         start.i = pos.i => Cur \in chars
  PROVE  IInv'
<1>1. TypeOK /\ pc = at /\ UNCHANGED <<src, toks, res_max, start, base>>
  BY DEF Optional, Keep, IInv
<1>2. kind \in Kinds \ {"EOF"} /\ base' \in {2, 8, 10, 16}
  BY <1>1 DEF IInv, Scanned, InToken, Scanning, TypeOK
<1>4. CASE Cur \in chars
  <2>1. pos' = Advanced /\ pc' = yes /\ kind' = k /\ Cur # "\n" /\ Cur # NUL
    BY <1>4 DEF Optional, ADV, Goto
  <2>2. pos.i < Len(src)
    BY <1>1, <2>1, CurInside
  <2> QED
    BY <1>1, <1>2, <2>1, <2>2, TokenStep
<1>5. CASE Cur \notin chars
  <2>1. pos' = pos /\ pc' = no /\ kind' = kind
    BY <1>5 DEF Optional, Goto
  <2> QED
    BY <1>1, <1>2, <1>5, <2>1, TokenStep
<1> QED
  BY <1>4, <1>5

\* No class of characters within a token has the newline or the terminator.
LEMMA Classes ==
  /\ \A b \in {2, 8, 10, 16} :
       {"\n", NUL} \cap Digits(b) = {} /\ {"\n", NUL} \cap Marker(b) = {}
  /\ {"\n", NUL} \cap NameStart = {} /\ {"\n", NUL} \cap NamePart = {}
  /\ {"\n", NUL} \cap DOMAIN Symbol = {}
  /\ BaseOf("\n") = 10 /\ BaseOf(NUL) = 10
  /\ \A c : BaseOf(c) \in {2, 8, 10, 16}
<1>1. {"\n", NUL} \cap Upper = {} /\ {"\n", NUL} \cap Lower = {}
  BY DEF Upper, Lower, NUL
<1>2. \A b \in {2, 8, 10, 16} : {"\n", NUL} \cap Digits(b) = {}
  BY DEF Digits, NUL
<1>3. \A b \in {2, 8, 10, 16} : {"\n", NUL} \cap Marker(b) = {}
  BY DEF Marker, NUL
<1>4. {"\n", NUL} \cap NameStart = {}
  BY <1>1 DEF NameStart, NUL
<1>5. {"\n", NUL} \cap NamePart = {}
  BY <1>2, <1>4 DEF NamePart
<1>6. {"\n", NUL} \cap DOMAIN Symbol = {}
  BY DEF Symbol, NUL
<1>7. BaseOf("\n") = 10 /\ BaseOf(NUL) = 10
  BY DEF BaseOf, NUL
<1>8. \A c : BaseOf(c) \in {2, 8, 10, 16}
  BY DEF BaseOf
<1> QED
  BY <1>2, <1>3, <1>4, <1>5, <1>6, <1>7, <1>8

\* The kinds of tokens the steps choose.
LEMMA KindsGiven ==
  /\ {"COMMENT", "NAME", "INT", "FLOAT"} \subseteq Kinds \ {"EOF"}
  /\ \A c \in DOMAIN Symbol : Symbol[c] \in Kinds \ {"EOF"}
<1>1. \A c \in DOMAIN Symbol : Symbol[c] # "EOF"
  BY DEF Symbol
<1> QED
  BY <1>1 DEF Kinds

LEMMA BeginSteps ==
  ASSUME LexAssumption, IInv,
         BeginComment \/ BeginName \/ BeginNumber \/ BeginSymbol \/ BadCharacter
  PROVE  IInv'
<1>1. TypeOK
  BY DEF IInv
<1>2. CASE BeginComment
  <2>1. /\ pc = "loop" /\ pos.i < Len(src) /\ start' = pos /\ pc' = "comment" /\ pos' = pos
        /\ UNCHANGED <<src, toks, res_max, base>> /\ kind' = "COMMENT" /\ Cur = "#"
    BY <1>2 DEF BeginComment, Begin, Goto, Keep
  <2>2. base' \in {2, 8, 10, 16}
    BY <1>1, <2>1 DEF TypeOK
  <2> QED
    BY <2>1, <2>2, BeginStep, KindsGiven DEF Scanning
<1>3. CASE BeginName
  <2>1. /\ pc = "loop" /\ pos.i < Len(src) /\ start' = pos /\ pc' = "name" /\ pos' = Advanced
        /\ UNCHANGED <<src, toks, res_max, base>> /\ kind' = "NAME" /\ Cur \in NameStart
    BY <1>3 DEF BeginName, Begin, Goto, Keep, ADV
  <2>2. base' \in {2, 8, 10, 16} /\ Cur # "\n"
    BY <1>1, <2>1, Classes DEF TypeOK
  <2> QED
    BY <2>1, <2>2, BeginStep, KindsGiven DEF Scanning
<1>4. CASE BeginNumber
  <2>1. /\ pc = "loop" /\ pos.i < Len(src) /\ start' = pos
        /\ pc' = (IF Cur = "0" THEN "base" ELSE "digits")
        /\ pos' = (IF Cur = "0" THEN Advanced ELSE pos)
        /\ UNCHANGED <<src, toks, res_max>> /\ kind' = "INT" /\ base' = 10
        /\ Cur \in Digits(10) \cup {"."}
    BY <1>4 DEF BeginNumber, Begin, Goto, Keep, ADV
  <2>2. CASE Cur = "0"
    BY <2>1, <2>2, BeginStep, KindsGiven DEF Scanning
  <2>3. CASE Cur # "0"
    BY <2>1, <2>3, BeginStep, KindsGiven DEF Scanning
  <2> QED
    BY <2>2, <2>3
<1>5. CASE BeginSymbol
  <2>1. /\ pc = "loop" /\ pos.i < Len(src) /\ start' = pos /\ pc' = "emit" /\ pos' = Advanced
        /\ UNCHANGED <<src, toks, res_max, base>> /\ kind' = Symbol[Cur]
        /\ Cur \in DOMAIN Symbol
    BY <1>5 DEF BeginSymbol, Begin, Goto, Keep, ADV
  <2>2. base' \in {2, 8, 10, 16} /\ Cur # "\n"
    BY <1>1, <2>1, Classes DEF TypeOK
  <2>3. kind' \in Kinds \ {"EOF"}
    BY <2>1, KindsGiven
  <2> QED
    BY <2>1, <2>2, <2>3, BeginStep
<1>6. CASE BadCharacter
  BY <1>6, StopStep DEF BadCharacter, Begin, Goto, Keep
<1> QED
  BY <1>2, <1>3, <1>4, <1>5, <1>6

LEMMA WordSteps ==
  ASSUME LexAssumption, IInv, Comment \/ Name
  PROVE  IInv'
<1>1. TypeOK
  BY DEF IInv
<1>2. CASE Comment
  <2> DEFINE chars == {At(k) : k \in 0..(Len(src) - 1)} \ {"\n"}
  <2>1. While("comment", chars, "emit") /\ "\n" \notin chars
    BY <1>2 DEF Comment
  <2>2. ASSUME start.i = pos.i
        PROVE  Cur \in chars /\ pos.i < Len(src)
    <3>1. pc = "comment"
      BY <2>1 DEF While
    <3>2. pos.i < Len(src) /\ Cur = "#"
      BY <2>2, <3>1, Begun DEF Scanning
    <3>3. pos.i \in 0..(Len(src) - 1)
      BY <1>1, <3>2, SourceType
    <3> QED
      BY <3>2, <3>3 DEF Cur
  <2> HIDE DEF chars
  <2> QED
    BY <2>1, <2>2, WhileStep DEF Scanning
<1>3. CASE Name
  <2>1. CASE Cur = High
    BY <1>3, <2>1, StopStep DEF Name, Goto, Keep
  <2>2. CASE Cur # High
    <3>1. While("name", NamePart, "emit")
      BY <1>3, <2>2 DEF Name
    <3>2. pc = "name"
      BY <3>1 DEF While
    <3>3. start.i # pos.i
      BY <3>2, Begun DEF Scanning
    <3> QED
      BY <3>1, <3>3, WhileStep, Classes DEF Scanning
  <2> QED
    BY <2>1, <2>2
<1> QED
  BY <1>2, <1>3

LEMMA NumberSteps ==
  ASSUME LexAssumption, IInv,
         Base \/ Mantissa \/ Point \/ Fraction \/ Exponent \/ Sign \/ ExponentDigits \/ Suffix
  PROVE  IInv'
<1>1. TypeOK /\ base \in {2, 8, 10, 16}
  BY DEF IInv, TypeOK
<1>2. pc \in Scanning => kind \in Kinds \ {"EOF"}
  BY DEF IInv, Scanned, InToken, Scanning, TypeOK
<1>3. pc \in {"base", "fraction", "exponent", "sign", "exp_digits", "suffix"} => start.i # pos.i
  BY Begun DEF Scanning
<1>4. /\ "\n" \notin Digits(base) /\ NUL \notin Digits(base) /\ "\n" \notin Digits(10)
      /\ {"\n", NUL} \cap Marker(base) = {}
  BY <1>1, Classes
<1>5. CASE Base
  <2>1. /\ pc = "base" /\ base' = BaseOf(Cur) /\ pc' = "digits"
        /\ pos' = (IF BaseOf(Cur) # 10 THEN Advanced ELSE pos)
        /\ UNCHANGED <<src, toks, res_max, start, kind>>
    BY <1>5 DEF Base, Goto, Keep, ADV
  <2>2. CASE BaseOf(Cur) # 10
    <3>1. Cur # "\n" /\ pos.i < Len(src)
      BY <1>1, <2>2, Classes, CurInside
    <3> QED
      BY <1>2, <2>1, <2>2, <3>1, TokenStep, Classes DEF Scanning
  <2>3. CASE BaseOf(Cur) = 10
    BY <1>2, <1>3, <2>1, <2>3, TokenStep DEF Scanning
  <2> QED
    BY <2>2, <2>3
<1>6. CASE Mantissa
  <2>1. While("digits", Digits(base), "point") /\ pc = "digits"
    BY <1>6 DEF Mantissa, While
  <2>2. start.i = pos.i =>
          (Cur \in Digits(base) /\ pos.i < Len(src)) \/ Cur = "."
    <3>1. ASSUME start.i = pos.i
          PROVE  base = 10 /\ Cur \in Digits(10) \cup {"."}
      BY <2>1, <3>1, Begun DEF Scanning
    <3>2. Cur \in Digits(10) => Cur # NUL
      BY Classes
    <3> QED
      BY <1>1, <3>1, <3>2, CurInside
  <2> QED
    BY <1>4, <2>1, <2>2, WhileStep DEF Scanning
<1>7. CASE Point
  <2>1. Optional("point", {"."}, "fraction", "exponent", "FLOAT") /\ pc = "point"
    BY <1>7 DEF Point, Optional
  <2>2. start.i = pos.i => Cur \in {"."}
    BY <2>1, Begun DEF Scanning
  <2>3. {"\n", NUL} \cap {"."} = {}
    BY DEF NUL
  <2> QED
    BY <2>1, <2>2, <2>3, OptionalStep, KindsGiven DEF Scanning
<1>8. CASE Fraction
  <2>1. While("fraction", Digits(base), "exponent") /\ pc = "fraction"
    BY <1>8 DEF Fraction, While
  <2> QED
    BY <1>3, <1>4, <2>1, WhileStep DEF Scanning
<1>9. CASE Exponent
  <2>1. Optional("exponent", Marker(base), "sign", "suffix", "FLOAT") /\ pc = "exponent"
    BY <1>9 DEF Exponent, Optional
  <2> QED
    BY <1>3, <1>4, <2>1, OptionalStep, KindsGiven DEF Scanning
<1>10. CASE Sign
  <2>1. Optional("sign", {"+", "-"}, "exp_digits", "exp_digits", kind) /\ pc = "sign"
    BY <1>10 DEF Sign, Optional
  <2>2. {"\n", NUL} \cap {"+", "-"} = {}
    BY DEF NUL
  <2> QED
    BY <1>2, <1>3, <2>1, <2>2, OptionalStep DEF Scanning
<1>11. CASE ExponentDigits
  <2>1. While("exp_digits", Digits(10), "suffix") /\ pc = "exp_digits"
    BY <1>11 DEF ExponentDigits, While
  <2> QED
    BY <1>3, <1>4, <2>1, WhileStep DEF Scanning
<1>12. CASE Suffix
  <2>1. Optional("suffix", {"i", "I"}, "emit", "emit", "FLOAT") /\ pc = "suffix"
    BY <1>12 DEF Suffix, Optional
  <2>2. {"\n", NUL} \cap {"i", "I"} = {}
    BY DEF NUL
  <2> QED
    BY <1>3, <2>1, <2>2, OptionalStep, KindsGiven DEF Scanning
<1> QED
  BY <1>5, <1>6, <1>7, <1>8, <1>9, <1>10, <1>11, <1>12

(***************************************************************************)
(* The theorems.                                                           *)
(***************************************************************************)

LEMMA InitInv ==
  ASSUME LexAssumption, Init
  PROVE  IInv
<1>1. /\ src \in Seq(STRING) /\ pos = [i |-> 0, line |-> 0, col |-> 0] /\ start = pos
      /\ toks = <<>> /\ res_max = 0 /\ pc = "loop" /\ base = 10 /\ kind = "EOF"
      /\ src \in Sources
  BY DEF Init, LexAssumption
<1>2. Len(src) \in Nat
  BY <1>1
<1>3. TypeOK
  BY <1>1, <1>2 DEF TypeOK, Positions, Kinds
<1>4. Placed(src, pos)
  <2>1. Newlines(src, 0) = {} /\ IsCol(src, 0, 0)
    BY DEF Newlines, IsCol
  <2> QED
    BY <1>1, <2>1, FS_EmptySet DEF Placed
<1>5. Blank(src, Before(toks, Len(toks) + 1), pos.i)
  BY <1>1 DEF Blank, Before
<1>6. Tiled(src, toks) /\ EOFLast
  BY <1>1 DEF Tiled, EOFLast
<1> QED
  BY <1>1, <1>3, <1>4, <1>5, <1>6 DEF IInv, InToken

LEMMA NextInv ==
  ASSUME LexAssumption, IInv, [Next]_vars
  PROVE  IInv'
<1>1. CASE Next
  <2>1. CASE EmitFails
    BY <2>1, StopStep DEF EmitFails, Goto, Keep
  <2> QED
    BY <1>1, <2>1, SkipWhiteStep, BeginSteps, EndStep, WordSteps, NumberSteps, EmitStep DEF Next
<1>2. CASE UNCHANGED vars
  <2>1. TypeOK' /\ EOFLast'
    BY <1>2 DEF IInv, TypeOK, EOFLast, Positions, vars
  <2>2. Scanned => Scanned'
    BY <1>2 DEF Scanned, vars
  <2> QED
    BY <1>2, <2>1, <2>2 DEF IInv, vars
<1> QED
  BY <1>1, <1>2

\* What the invariant says of the tokens is what the property says.
LEMMA InvTiles ==
  ASSUME LexAssumption, IInv
  PROVE  TypeOK /\ TilesSource
<1>1. /\ TypeOK /\ Placed(src, pos) /\ Tiled(src, toks) /\ EOFLast
      /\ pc = "loop" => Blank(src, Before(toks, Len(toks) + 1), pos.i)
  BY DEF IInv
<1>2. /\ Len(src) \in Nat /\ pos \in [i : Nat, line : Nat, col : Nat]
      /\ toks \in Seq(Tokens) /\ Len(toks) \in Nat
  BY <1>1, SourceType, BeforeType DEF TypeOK
<1>3. \A k : At(k) = CharAt(src, k)
  BY DEF At, CharAt
<1>4. \A p, q : OnlyWhite(p, q) <=> Blank(src, p, q)
  BY <1>3 DEF OnlyWhite, Blank
<1>5. \A p : LineOf(p) = Cardinality(Newlines(src, p))
  BY <1>3 DEF LineOf, Newlines
<1>6. ASSUME NEW p \in Nat, NEW c, IsCol(src, p, c)
      PROVE  c = ColOf(p)
  <2> DEFINE P(d) == /\ \A k \in (p - d)..(p - 1) : At(k) # "\n"
                     /\ d = p \/ At(p - d - 1) = "\n"
  <2>1. \A d \in 0..p : P(d) <=> IsCol(src, p, d)
    BY <1>3 DEF IsCol
  <2>2. c \in 0..p
    BY <1>6 DEF IsCol
  <2>3. ColOf(p) = CHOOSE d \in 0..p : P(d)
    BY DEF ColOf
  <2> HIDE DEF P
  <2>4. ColOf(p) \in 0..p /\ P(ColOf(p))
    BY <1>6, <2>1, <2>2, <2>3
  <2> QED
    BY <1>6, <2>1, <2>4, ColUnique
<1>7. ASSUME NEW k \in 1..Len(toks)
      PROVE  /\ OnlyWhite(IF k = 1 THEN 0 ELSE End(toks[k - 1]), toks[k].posb)
             /\ toks[k].lenb = 0 <=> toks[k].kind = "EOF"
             /\ toks[k].kind = "EOF" => k = Len(toks) /\ toks[k].posb = Len(src)
             /\ toks[k].line = LineOf(toks[k].posb) /\ toks[k].col = ColOf(toks[k].posb)
             /\ toks[k].lenc = toks[k].lenb
  <2>1. TokenOK(src, toks[k], Before(toks, k))
    BY <1>1 DEF Tiled
  <2>2. Before(toks, k) = IF k = 1 THEN 0 ELSE End(toks[k - 1])
    BY DEF Before, End
  <2>3. toks[k] \in Tokens
    BY <1>2
  <2>4. toks[k].posb \in Nat
    BY <2>3 DEF Tokens
  <2>5. toks[k].kind = "EOF" => k = Len(toks)
    BY <1>1 DEF EOFLast
  <2> QED
    BY <1>4, <1>5, <1>6, <2>1, <2>2, <2>4, <2>5 DEF TokenOK
<1>8. pc = "loop" => OnlyWhite(IF toks = <<>> THEN 0 ELSE End(toks[Len(toks)]), pos.i)
  <2>1. Before(toks, Len(toks) + 1) = IF toks = <<>> THEN 0 ELSE End(toks[Len(toks)])
    <3>1. CASE toks = <<>>
      BY <3>1 DEF Before
    <3>2. CASE toks # <<>>
      <4>1. Len(toks) + 1 # 1 /\ Len(toks) + 1 - 1 = Len(toks)
        BY <1>2, <3>2
      <4> QED
        BY <3>2, <4>1 DEF Before, End
    <3> QED
      BY <3>1, <3>2
  <2> QED
    BY <1>1, <1>4, <2>1
<1>9. pos.line = LineOf(pos.i) /\ pos.col = ColOf(pos.i)
  BY <1>1, <1>2, <1>5, <1>6 DEF Placed
<1>10. pc = "done" => toks # <<>> /\ toks[Len(toks)].kind = "EOF"
  BY <1>1 DEF EOFLast
<1> QED
  BY <1>1, <1>7, <1>8, <1>9, <1>10 DEF TilesSource

\* The inductive invariant: where the token being read began, that nothing but white space
\* lies before it, that it has no newline and is not empty, and that every position ADV has
\* counted, of a token or the current one, is the right one.
THEOREM Invariance ==
  ASSUME LexAssumption
  PROVE  Spec => []IInv
<1>1. Init => IInv
  BY InitInv
<1>2. IInv /\ [Next]_vars => IInv'
  BY NextInv
<1> QED
  BY <1>1, <1>2, PTL DEF Spec

\* Every reachable state of ks_lex is well typed, and no token is stored past the array EMIT has
\* grown: for every source.
THEOREM TypesOK ==
  ASSUME LexAssumption
  PROVE  Spec => []TypeOK
<1>1. IInv => TypeOK
  BY DEF IInv
<1> QED
  BY <1>1, Invariance, PTL

\* The tokens of ks_lex, of any source, tile it: they leave nothing out but white space,
\* overlap nowhere, end with EOF, and carry the line and the column of their first byte.
THEOREM Tiles ==
  ASSUME LexAssumption
  PROVE  Spec => []TilesSource
<1>1. IInv => TilesSource
  BY InvTiles
<1> QED
  BY <1>1, Invariance, PTL

(***************************************************************************)
(* The longest match, in two halves.  What the scan has read at each point *)
(* of execution is an invariant of its steps (Reading); and a text cut     *)
(* where each part was followed by a character that cannot continue it     *)
(* (Complete) has no other cut, nor has a longer one (CutUnique).          *)
(***************************************************************************)

\* The text of n characters from byte a on, and the k-th of them from 0.
Piece(s, a, n) == SubSeq(s, a + 1, a + n)
Char(s, a, k) == CharAt(s, a + k)

\* The characters from x to y - 1 are in S.
Span(s, a, x, y, S) == \A k \in x..(y - 1) : Char(s, a, k) \in S

(***************************************************************************)
(* Words.                                                                  *)
(***************************************************************************)

\* A number with a prefix, its base, and the length of the prefix.
Prefixed(s, a) == a + 1 < Len(s) /\ Char(s, a, 0) = "0" /\ BaseOf(Char(s, a, 1)) # 10
BaseAt(s, a) == IF Prefixed(s, a) THEN BaseOf(Char(s, a, 1)) ELSE 10
PrefixAt(s, a) == IF Prefixed(s, a) THEN 2 ELSE 0

\* A number begins at a.
NumberAt(s, a) ==
  Char(s, a, 0) \in Digits(10) \/ (Char(s, a, 0) = "." /\ Char(s, a, 1) \in Digits(10))

\* The mantissa ends at m, the fraction at f, and the exponent at e.
MantissaDone(s, a, m) ==
  /\ m \in Nat /\ PrefixAt(s, a) <= m /\ Span(s, a, PrefixAt(s, a), m, Digits(BaseAt(s, a)))
  /\ Char(s, a, m) \notin Digits(BaseAt(s, a))
FractionDone(s, a, m, f) ==
  \/ f = m /\ Char(s, a, m) # "."
  \/ /\ Char(s, a, m) = "." /\ f \in Nat /\ m < f /\ Span(s, a, m + 1, f, Digits(BaseAt(s, a)))
     /\ Char(s, a, f) \notin Digits(BaseAt(s, a))
DigitsFrom(s, a, f) == IF Char(s, a, f + 1) \in {"+", "-"} THEN f + 2 ELSE f + 1
ExponentDone(s, a, f, e) ==
  \/ e = f /\ Char(s, a, f) \notin Marker(BaseAt(s, a))
  \/ /\ Char(s, a, f) \in Marker(BaseAt(s, a)) /\ e \in Nat /\ DigitsFrom(s, a, f) <= e
     /\ Span(s, a, DigitsFrom(s, a, f), e, Digits(10)) /\ Char(s, a, e) \notin Digits(10)
SuffixDone(s, a, e, n) ==
  \/ n = e /\ Char(s, a, e) \notin {"i", "I"}
  \/ n = e + 1 /\ Char(s, a, e) \in {"i", "I"}

\* The n characters from a on are a word of kind kd, and what follows cannot
\* continue it.
CompleteName(s, a, n, kd) ==
  /\ kd = "NAME" /\ Char(s, a, 0) \in NameStart
  /\ Span(s, a, 0, n, NamePart) /\ Char(s, a, n) \notin NamePart
CompleteComment(s, a, n, kd) ==
  /\ kd = "COMMENT" /\ Char(s, a, 0) = "#"
  /\ Span(s, a, 0, n, STRING \ {"\n"}) /\ (a + n = Len(s) \/ Char(s, a, n) = "\n")
CompleteSymbol(s, a, n, kd) ==
  n = 1 /\ Char(s, a, 0) \in DOMAIN Symbol /\ kd = Symbol[Char(s, a, 0)]
CompleteNumber(s, a, n, kd) ==
  /\ NumberAt(s, a)
  /\ \E m, f, e \in Nat :
       /\ MantissaDone(s, a, m) /\ FractionDone(s, a, m, f) /\ ExponentDone(s, a, f, e)
       /\ SuffixDone(s, a, e, n)
       /\ kd = IF m = n THEN "INT" ELSE "FLOAT"
Complete(s, a, n, kd) ==
  \/ CompleteName(s, a, n, kd) \/ CompleteComment(s, a, n, kd)
  \/ CompleteSymbol(s, a, n, kd) \/ CompleteNumber(s, a, n, kd)

\* A place in a source, with at least n characters from it on.
Has(s, a, n) == s \in Seq(STRING) /\ a \in Nat /\ n \in Nat /\ a + n <= Len(s)

(***************************************************************************)
(* Texts.                                                                  *)
(***************************************************************************)

\* The characters of a text.
LEMMA PieceChars ==
  ASSUME NEW s, NEW a, NEW n, Has(s, a, n)
  PROVE  /\ Piece(s, a, n) \in Seq(STRING) /\ Len(Piece(s, a, n)) = n
         /\ DOMAIN Piece(s, a, n) = 1..n
         /\ \A k \in 1..n : Piece(s, a, n)[k] = Char(s, a, k - 1)
<1> DEFINE w == Piece(s, a, n)
<1>1. /\ s \in Seq(STRING) /\ a \in Nat /\ n \in Nat /\ a + n <= Len(s) /\ Len(s) \in Nat
  BY DEF Has
<1>2. /\ a + 1 \in Int /\ a + n \in Int
      /\ \A k \in (a + 1)..(a + n) : s[k] \in STRING
  BY <1>1
<1> DEFINE x == a + 1
           y == a + n
<1>3. /\ SubSeq(s, x, y) \in Seq(STRING)
      /\ Len(SubSeq(s, x, y)) = IF x <= y THEN y - x + 1 ELSE 0
      /\ \A k \in 1..(y - x + 1) : SubSeq(s, x, y)[k] = s[x + k - 1]
  <2>1. x \in Int /\ y \in Int /\ \A k \in x..y : s[k] \in STRING
    BY <1>2
  <2> HIDE DEF x, y
  <2> QED
    BY <2>1, SubSeqProperties
<1>4. y - x + 1 = n /\ (x <= y <=> n > 0)
  BY <1>1
<1>5. w \in Seq(STRING) /\ Len(w) = n /\ \A k \in 1..n : w[k] = s[x + k - 1]
  BY <1>1, <1>3, <1>4 DEF Piece
<1>6. \A k \in 1..n : s[x + k - 1] = Char(s, a, k - 1)
  <2>1. \A k \in 1..n : a + (k - 1) < Len(s) /\ a + (k - 1) + 1 = x + k - 1
    BY <1>1
  <2> QED
    BY <2>1 DEF Char, CharAt
<1> HIDE DEF w
<1>7. DOMAIN w = 1..n
  BY <1>5
<1> QED
  BY <1>5, <1>6, <1>7 DEF w

\* Its parts.
LEMMA PieceOver ==
  ASSUME NEW s, NEW a, NEW n, Has(s, a, n), NEW x \in Nat, NEW y \in Nat, y <= n, NEW S
  PROVE  Over(SubSeq(Piece(s, a, n), x + 1, y), S) <=> Span(s, a, x, y, S)
<1> DEFINE w == Piece(s, a, n)
           v == SubSeq(w, x + 1, y)
           l == x + 1
<1>1. /\ w \in Seq(STRING) /\ Len(w) = n /\ n \in Nat
      /\ \A k \in 1..n : w[k] = Char(s, a, k - 1)
  BY PieceChars DEF Has
<1> HIDE DEF w
<1>2. l \in Int /\ y \in Int /\ \A k \in l..y : w[k] \in STRING
  BY <1>1
<1>3. /\ SubSeq(w, l, y) \in Seq(STRING)
      /\ Len(SubSeq(w, l, y)) = IF l <= y THEN y - l + 1 ELSE 0
      /\ \A k \in 1..(y - l + 1) : SubSeq(w, l, y)[k] = w[l + k - 1]
  <2> HIDE DEF l
  <2> QED
    BY <1>2, SubSeqProperties
<1>4. y - l + 1 = y - x /\ (l <= y <=> y - x > 0)
  OBVIOUS
<1>5. v \in Seq(STRING) /\ Len(v) = (IF y - x > 0 THEN y - x ELSE 0)
  BY <1>3, <1>4
<1>6. \A k \in 1..(y - x) : v[k] = Char(s, a, x + k - 1)
  <2>1. \A k \in 1..(y - x) : v[k] = w[l + k - 1]
    BY <1>3, <1>4
  <2>2. ASSUME NEW k \in 1..(y - x)
        PROVE  v[k] = Char(s, a, x + k - 1)
    <3> DEFINE j == l + k - 1
    <3>1. j \in 1..n /\ j - 1 = x + k - 1
      BY <1>1
    <3>2. v[k] = w[j]
      BY <2>1
    <3> HIDE DEF j, v
    <3>3. w[j] = Char(s, a, j - 1)
      BY <1>1, <3>1
    <3> QED
      BY <3>1, <3>2, <3>3
  <2> QED
    BY <2>2
<1> HIDE DEF v
<1>7. DOMAIN v = 1..(y - x)
  <2>1. DOMAIN v = 1..Len(v)
    BY <1>5
  <2> QED
    BY <1>5, <2>1
<1>8. Over(v, S) <=> \A k \in 1..(y - x) : Char(s, a, x + k - 1) \in S
  BY <1>6, <1>7 DEF Over
<1>9. (\A k \in 1..(y - x) : Char(s, a, x + k - 1) \in S) <=> Span(s, a, x, y, S)
  <2>1. \A k \in 1..(y - x) : x + k - 1 \in x..(y - 1)
    OBVIOUS
  <2>2. \A j \in x..(y - 1) : j - x + 1 \in 1..(y - x) /\ x + (j - x + 1) - 1 = j
    OBVIOUS
  <2> QED
    BY <2>1, <2>2 DEF Span
<1> QED
  BY <1>8, <1>9 DEF v, w

(***************************************************************************)
(* Cuts.                                                                   *)
(***************************************************************************)

\* A text of n characters cut at m, f and e, as in NumberKinds.
CutAt(s, a, n, m, f, e) ==
  /\ Span(s, a, PrefixAt(s, a), m, Digits(BaseAt(s, a)))
  /\ m < f => Char(s, a, m) = "." /\ Span(s, a, m + 1, f, Digits(BaseAt(s, a)))
  /\ f < e =>
       /\ Char(s, a, f) \in Marker(BaseAt(s, a))
       /\ Span(s, a, IF f + 2 <= e /\ Char(s, a, f + 1) \in {"+", "-"} THEN f + 2 ELSE f + 1,
               e, Digits(10))
  /\ e < n => e = n - 1 /\ Char(s, a, e) \in {"i", "I"}

\* The character classes of a number do not overlap where one of them may
\* follow the other.
LEMMA Apart ==
  ASSUME NEW b \in {2, 8, 10, 16}
  PROVE  /\ Digits(b) \cap Marker(b) = {}
         /\ {"."} \cap Digits(b) = {} /\ {"."} \cap Marker(b) = {}
         /\ {"i", "I", "+", "-"} \cap Digits(b) = {}
         /\ {"i", "I", "+", "-"} \cap Marker(b) = {}
         /\ {"i", "I"} \cap {".", "+", "-"} = {}
<1>1. CASE b = 2
  <2>1. Marker(b) = {"p", "P"}
    BY <1>1 DEF Marker
  <2>2. Digits(b) = Digits(2)
    BY <1>1
  <2> QED
    BY <2>1, <2>2 DEF Digits
<1>2. CASE b = 8
  <2>1. Marker(b) = {"p", "P"}
    BY <1>2 DEF Marker
  <2>2. Digits(b) = Digits(8)
    BY <1>2
  <2> QED
    BY <2>1, <2>2 DEF Digits
<1>3. CASE b = 10
  <2>1. Marker(b) = {"e", "E"}
    BY <1>3 DEF Marker
  <2>2. Digits(b) = Digits(10)
    BY <1>3
  <2> QED
    BY <2>1, <2>2 DEF Digits
<1>4. CASE b = 16
  <2>1. Marker(b) = {"p", "P"}
    BY <1>4 DEF Marker
  <2>2. Digits(b) = Digits(16)
    BY <1>4
  <2> QED
    BY <2>1, <2>2 DEF Digits
<1> QED
  BY <1>1, <1>2, <1>3, <1>4

\* The bases of numbers.
LEMMA BaseType ==
  ASSUME NEW s, NEW a
  PROVE  BaseAt(s, a) \in {2, 8, 10, 16} /\ PrefixAt(s, a) \in {0, 2}
BY Classes DEF BaseAt, PrefixAt

\* A run of characters that stops where the next is not in S is the only one
\* after which something not in S, or nothing, follows.
LEMMA RunUnique ==
  ASSUME NEW s, NEW a, NEW S, NEW x \in Nat, NEW y \in Nat, NEW z \in Nat, NEW n \in Nat,
         x <= y, x <= z, y <= n, z <= n,
         Span(s, a, x, y, S), Char(s, a, y) \notin S,
         Span(s, a, x, z, S), z < n => Char(s, a, z) \notin S
  PROVE  z = y
<1>1. CASE z < y
  <2>1. z \in x..(y - 1) /\ z < n
    BY <1>1
  <2> QED
    BY <2>1 DEF Span
<1>2. CASE z > y
  <2>1. y \in x..(z - 1)
    BY <1>2
  <2> QED
    BY <2>1 DEF Span
<1> QED
  BY <1>1, <1>2

\* A text as long as the scan's or longer has no other cut than the scan's.
LEMMA CutUnique ==
  ASSUME NEW s, NEW a, NEW n \in Nat, NEW m \in Nat, NEW f \in Nat, NEW e \in Nat,
         MantissaDone(s, a, m), FractionDone(s, a, m, f), ExponentDone(s, a, f, e),
         SuffixDone(s, a, e, n),
         NEW l \in Nat, n <= l,
         NEW x \in Nat, NEW y \in Nat, NEW z \in Nat,
         PrefixAt(s, a) <= x, x <= y, y <= z, z <= l, CutAt(s, a, l, x, y, z)
  PROVE  x = m /\ y = f /\ z = e /\ l = n
<1> DEFINE P == PrefixAt(s, a)
           D == Digits(BaseAt(s, a))
           M == Marker(BaseAt(s, a))
           T == Digits(10)
           from == IF y + 2 <= z /\ Char(s, a, y + 1) \in {"+", "-"} THEN y + 2 ELSE y + 1
<1>1. /\ P \in Nat /\ P <= m /\ Span(s, a, P, m, D) /\ Char(s, a, m) \notin D
  BY DEF MantissaDone, PrefixAt
<1>2. \/ f = m /\ Char(s, a, m) # "."
      \/ /\ Char(s, a, m) = "." /\ m < f /\ Span(s, a, m + 1, f, D)
         /\ Char(s, a, f) \notin D
  BY DEF FractionDone
<1>3. \/ e = f /\ Char(s, a, f) \notin M
      \/ /\ Char(s, a, f) \in M /\ DigitsFrom(s, a, f) <= e
         /\ Span(s, a, DigitsFrom(s, a, f), e, T) /\ Char(s, a, e) \notin T
  BY DEF ExponentDone
<1>4. \/ n = e /\ Char(s, a, e) \notin {"i", "I"}
      \/ n = e + 1 /\ Char(s, a, e) \in {"i", "I"}
  BY DEF SuffixDone
<1>5. /\ Span(s, a, P, x, D)
      /\ x < y => Char(s, a, x) = "." /\ Span(s, a, x + 1, y, D)
      /\ y < z => Char(s, a, y) \in M /\ Span(s, a, from, z, T)
      /\ z < l => z = l - 1 /\ Char(s, a, z) \in {"i", "I"}
  BY DEF CutAt
<1>6. /\ D \cap M = {} /\ {"."} \cap D = {} /\ {"."} \cap M = {}
      /\ {"i", "I", "+", "-"} \cap (D \cup M \cup T) = {}
      /\ {"i", "I"} \cap {".", "+", "-"} = {}
  BY BaseType, Apart
<1>7. P <= x /\ x <= l /\ y <= l
  OBVIOUS
<1> HIDE DEF P, D, M, T
<1>8. m <= f /\ f <= e /\ e <= n
  <2>1. f + 1 <= DigitsFrom(s, a, f)
    BY DEF DigitsFrom
  <2> QED
    BY <1>2, <1>3, <1>4, <2>1 DEF DigitsFrom
<1>a. m <= l /\ f <= l /\ e <= l
  BY <1>8
<1>9. x = m
  <2>1. x < l => Char(s, a, x) \notin D
    BY <1>5, <1>6
  <2>2. Span(s, a, P, x, D)
    BY <1>5
  <2> QED
    BY <1>1, <1>7, <1>a, <2>1, <2>2, RunUnique
<1>10. y = f
  <2>1. CASE f = m /\ Char(s, a, m) # "."
    BY <1>5, <1>9, <2>1
  <2>2. CASE /\ Char(s, a, m) = "." /\ m < f /\ Span(s, a, m + 1, f, D)
             /\ Char(s, a, f) \notin D
    <3>1. x < y
      BY <1>5, <1>6, <1>8, <1>9, <2>2
    <3>2. y < l => Char(s, a, y) \notin D
      BY <1>5, <1>6
    <3>3. Span(s, a, m + 1, y, D) /\ m + 1 <= y /\ m + 1 \in Nat
      BY <1>5, <1>9, <3>1
    <3>4. m + 1 <= f /\ f <= l /\ y <= l
      BY <1>8, <2>2
    <3> DEFINE k == m + 1
    <3> HIDE DEF k
    <3>5. k \in Nat /\ Span(s, a, k, y, D) /\ k <= y /\ k <= f /\ Span(s, a, k, f, D)
      BY <2>2, <3>3, <3>4 DEF k
    <3> QED
      BY <2>2, <3>2, <3>4, <3>5, RunUnique
  <2> QED
    BY <1>2, <2>1, <2>2
<1>11. z = e
  <2>1. CASE e = f /\ Char(s, a, f) \notin M
    BY <1>5, <1>10, <2>1
  <2>2. CASE /\ Char(s, a, f) \in M /\ DigitsFrom(s, a, f) <= e
             /\ Span(s, a, DigitsFrom(s, a, f), e, T) /\ Char(s, a, e) \notin T
    <3> DEFINE d == DigitsFrom(s, a, f)
    <3>1. d \in Nat /\ d = IF Char(s, a, f + 1) \in {"+", "-"} THEN f + 2 ELSE f + 1
      BY DEF DigitsFrom
    <3> HIDE DEF d
    <3>2. Span(s, a, d, e, T) /\ d <= e
      BY <2>2 DEF d
    <3>3. y < z
      BY <1>5, <1>6, <1>8, <1>10, <2>2, <3>1, <3>2
    <3>4. from = d
      <4>1. CASE Char(s, a, f + 1) \in {"+", "-"}
        <5>1. z # f + 1
          BY <1>5, <1>6, <1>8, <3>1, <3>2, <4>1
        <5> QED
          BY <1>10, <3>1, <3>3, <4>1, <5>1
      <4>2. CASE Char(s, a, f + 1) \notin {"+", "-"}
        BY <1>10, <3>1, <4>2
      <4> QED
        BY <4>1, <4>2
    <3>5. d <= z
      BY <1>10, <3>3, <3>4
    <3>6. Span(s, a, d, z, T)
      BY <1>5, <3>3, <3>4
    <3>7. z < l => Char(s, a, z) \notin T
      BY <1>5, <1>6
    <3>8. Char(s, a, e) \notin T
      BY <2>2
    <3> QED
      BY <1>a, <3>1, <3>2, <3>5, <3>6, <3>7, <3>8, RunUnique
  <2> QED
    BY <1>3, <2>1, <2>2
<1>12. l = n
  BY <1>4, <1>5, <1>11
<1> QED
  BY <1>9, <1>10, <1>11, <1>12

\* The scan's cut is one.
LEMMA CutExists ==
  ASSUME NEW s, NEW a, NEW n \in Nat, NEW m \in Nat, NEW f \in Nat, NEW e \in Nat,
         MantissaDone(s, a, m), FractionDone(s, a, m, f), ExponentDone(s, a, f, e),
         SuffixDone(s, a, e, n)
  PROVE  PrefixAt(s, a) <= m /\ m <= f /\ f <= e /\ e <= n /\ CutAt(s, a, n, m, f, e)
<1>1. DigitsFrom(s, a, f) \in {f + 1, f + 2}
  BY DEF DigitsFrom
<1>2. m <= f /\ f <= e /\ e <= n
  BY <1>1 DEF FractionDone, ExponentDone, SuffixDone
<1>3. f < e => /\ Char(s, a, f) \in Marker(BaseAt(s, a))
               /\ Span(s, a, DigitsFrom(s, a, f), e, Digits(10))
               /\ DigitsFrom(s, a, f) <= e
  BY DEF ExponentDone
<1>4. f < e => DigitsFrom(s, a, f) =
        IF f + 2 <= e /\ Char(s, a, f + 1) \in {"+", "-"} THEN f + 2 ELSE f + 1
  BY <1>3 DEF DigitsFrom
<1>5. m < f => Char(s, a, m) = "." /\ Span(s, a, m + 1, f, Digits(BaseAt(s, a)))
  BY DEF FractionDone
<1>6. e < n => e = n - 1 /\ Char(s, a, e) \in {"i", "I"}
  BY DEF SuffixDone
<1> QED
  BY <1>2, <1>3, <1>4, <1>5, <1>6 DEF CutAt, MantissaDone

(***************************************************************************)
(* The kinds of a text.                                                    *)
(***************************************************************************)

\* The cut of NumberKinds, of the word w with a prefix of p characters, to base b.
WordCut(w, p, b, m, f, e) ==
  /\ Over(SubSeq(w, p + 1, m), Digits(b))
  /\ m < f => w[m + 1] = "." /\ Over(SubSeq(w, m + 2, f), Digits(b))
  /\ f < e =>
       LET d == IF f + 2 <= e /\ w[f + 2] \in {"+", "-"} THEN f + 3 ELSE f + 2
       IN  w[f + 1] \in Marker(b) /\ Over(SubSeq(w, d, e), Digits(10))
  /\ e < Len(w) => e = Len(w) - 1 /\ w[Len(w)] \in {"i", "I"}

LEMMA NumberKindsCut ==
  ASSUME NEW w,
         NEW p, p = (IF Len(w) > 1 /\ w[1] = "0" /\ BaseOf(w[2]) # 10 THEN 2 ELSE 0),
         NEW b, b = (IF Len(w) > 1 /\ w[1] = "0" /\ BaseOf(w[2]) # 10 THEN BaseOf(w[2]) ELSE 10)
  PROVE  NumberKinds(w) =
           IF w[1] \in Digits(10) \/ (w[1] = "." /\ Len(w) > 1 /\ w[2] \in Digits(10))
           THEN {IF m = Len(w) THEN "INT" ELSE "FLOAT" : m \in
                   {m \in p..Len(w) : \E f \in m..Len(w) : \E e \in f..Len(w) :
                      WordCut(w, p, b, m, f, e)}}
           ELSE {}
BY DEF NumberKinds, WordCut

\* Cuts of a text are cuts at its place.
LEMMA CutsAgree ==
  ASSUME NEW s, NEW a, NEW l, Has(s, a, l), PrefixAt(s, a) <= l,
         NEW m \in PrefixAt(s, a)..l, NEW f \in m..l, NEW e \in f..l
  PROVE  WordCut(Piece(s, a, l), PrefixAt(s, a), BaseAt(s, a), m, f, e) <=> CutAt(s, a, l, m, f, e)
<1> DEFINE w == Piece(s, a, l)
           p == PrefixAt(s, a)
           D == Digits(BaseAt(s, a))
           M == Marker(BaseAt(s, a))
           T == Digits(10)
           d == IF f + 2 <= e /\ w[f + 2] \in {"+", "-"} THEN f + 3 ELSE f + 2
           c == IF f + 2 <= e /\ Char(s, a, f + 1) \in {"+", "-"} THEN f + 2 ELSE f + 1
<1>1. Len(w) = l /\ l \in Nat /\ \A k \in 1..l : w[k] = Char(s, a, k - 1)
  BY PieceChars DEF Has
<1>2. p \in Nat /\ p <= m /\ m <= f /\ f <= e /\ e <= l /\ {m, f, e} \subseteq Nat
  <2>1. p \in Nat
    BY BaseType
  <2> QED
    BY <1>1, <2>1
<1>3. Over(SubSeq(w, p + 1, m), D) <=> Span(s, a, p, m, D)
  <2> HIDE DEF p, D
  <2>1. m <= l /\ m \in Nat
    BY <1>1, <1>2
  <2> QED
    BY <1>2, <2>1, PieceOver
<1>4. m < f => /\ w[m + 1] = Char(s, a, m)
               /\ Over(SubSeq(w, m + 2, f), D) <=> Span(s, a, m + 1, f, D)
  <2>1. CASE m < f
    <3>1. m + 1 \in 1..l /\ m + 1 - 1 = m /\ m + 2 = (m + 1) + 1 /\ m + 1 \in Nat
      BY <1>1, <1>2, <2>1
    <3>2. w[m + 1] = Char(s, a, m)
      BY <1>1, <3>1
    <3> DEFINE k == m + 1
    <3> HIDE DEF k, D, w
    <3>3. Over(SubSeq(w, k + 1, f), D) <=> Span(s, a, k, f, D)
      <4>1. k \in Nat /\ f \in Nat /\ f <= l
        BY <1>1, <1>2, <3>1 DEF k
      <4> QED
        BY <4>1, PieceOver DEF w
    <3> QED
      BY <3>1, <3>2, <3>3 DEF k
  <2> QED
    BY <2>1
<1>5. f < e => w[f + 1] = Char(s, a, f)
  <2>1. CASE f < e
    <3>1. f + 1 \in 1..l /\ f + 1 - 1 = f
      BY <1>1, <1>2, <2>1
    <3> QED
      BY <1>1, <3>1
  <2> QED
    BY <2>1
<1>6. f < e => d = c + 1 /\ c \in Nat
  <2>1. CASE f + 2 <= e
    <3>1. f + 2 \in 1..l /\ f + 2 - 1 = f + 1
      BY <1>1, <1>2, <2>1
    <3>2. w[f + 2] = Char(s, a, f + 1)
      BY <1>1, <3>1
    <3> HIDE DEF w
    <3> QED
      BY <1>2, <3>2
  <2>2. CASE ~(f + 2 <= e)
    BY <1>2, <2>2
  <2> QED
    BY <2>1, <2>2
<1>7. f < e => (Over(SubSeq(w, d, e), T) <=> Span(s, a, c, e, T))
  <2>1. CASE f < e
    <3>1. d = c + 1 /\ c \in Nat /\ e \in Nat /\ e <= l
      BY <1>2, <1>6, <2>1
    <3> HIDE DEF d, c, T, w
    <3>2. Over(SubSeq(w, c + 1, e), T) <=> Span(s, a, c, e, T)
      BY <3>1, PieceOver DEF w
    <3> QED
      BY <3>1, <3>2
  <2> QED
    BY <2>1
<1>8. e < l /\ e = l - 1 => w[l] = Char(s, a, e)
  <2>1. CASE e < l /\ e = l - 1
    <3>1. l \in 1..l /\ l - 1 = e
      BY <1>1, <1>2, <2>1
    <3> QED
      BY <1>1, <3>1
  <2> QED
    BY <2>1
<1>9. WordCut(w, p, BaseAt(s, a), m, f, e) <=>
        /\ Over(SubSeq(w, p + 1, m), D)
        /\ m < f => w[m + 1] = "." /\ Over(SubSeq(w, m + 2, f), D)
        /\ f < e => w[f + 1] \in M /\ Over(SubSeq(w, d, e), T)
        /\ e < l => e = l - 1 /\ w[l] \in {"i", "I"}
  BY <1>1 DEF WordCut
<1>10. CutAt(s, a, l, m, f, e) <=>
        /\ Span(s, a, p, m, D)
        /\ m < f => Char(s, a, m) = "." /\ Span(s, a, m + 1, f, D)
        /\ f < e => Char(s, a, f) \in M /\ Span(s, a, c, e, T)
        /\ e < l => e = l - 1 /\ Char(s, a, e) \in {"i", "I"}
  BY DEF CutAt
<1> HIDE DEF w, p, D, M, T, d, c
<1>11. WordCut(w, p, BaseAt(s, a), m, f, e) <=> CutAt(s, a, l, m, f, e)
  BY <1>3, <1>4, <1>5, <1>7, <1>8, <1>9, <1>10
<1> QED
  BY <1>11 DEF w, p

\* Which kinds of number a text is.
LEMMA NumberKindsAt ==
  ASSUME NEW s, NEW a, NEW l, Has(s, a, l), l > 0, PrefixAt(s, a) <= l,
         NumberAt(s, a) /\ Char(s, a, 0) = "." => l > 1
  PROVE  NumberKinds(Piece(s, a, l)) =
           IF NumberAt(s, a)
           THEN {IF m = l THEN "INT" ELSE "FLOAT" : m \in
                   {m \in PrefixAt(s, a)..l : \E f \in m..l : \E e \in f..l : CutAt(s, a, l, m, f, e)}}
           ELSE {}
<1> DEFINE w == Piece(s, a, l)
           p == PrefixAt(s, a)
           b == BaseAt(s, a)
<1>1. /\ Len(w) = l /\ l \in Nat /\ \A k \in 1..l : w[k] = Char(s, a, k - 1)
      /\ a \in Nat /\ a + l <= Len(s) /\ Len(s) \in Nat
  BY PieceChars DEF Has
<1>2. w[1] = Char(s, a, 0)
  <2>1. 1 \in 1..l /\ 1 - 1 = 0
    BY <1>1
  <2> QED
    BY <1>1, <2>1
<1>3. l > 1 => w[2] = Char(s, a, 1)
  <2>1. l > 1 => 2 \in 1..l /\ 2 - 1 = 1
    BY <1>1
  <2> QED
    BY <1>1, <2>1
<1>4. Prefixed(s, a) <=> Len(w) > 1 /\ w[1] = "0" /\ BaseOf(w[2]) # 10
  <2>1. CASE Prefixed(s, a)
    <3>1. l > 1
      BY <1>1, <2>1 DEF PrefixAt
    <3> QED
      BY <1>1, <1>2, <1>3, <2>1, <3>1 DEF Prefixed
  <2>2. CASE ~Prefixed(s, a)
    <3>1. l > 1 => a + 1 < Len(s)
      BY <1>1
    <3> HIDE DEF w
    <3> QED
      BY <1>1, <1>2, <1>3, <2>2, <3>1 DEF Prefixed
  <2> QED
    BY <2>1, <2>2
<1>5. /\ p = IF Len(w) > 1 /\ w[1] = "0" /\ BaseOf(w[2]) # 10 THEN 2 ELSE 0
      /\ b = IF Len(w) > 1 /\ w[1] = "0" /\ BaseOf(w[2]) # 10 THEN BaseOf(w[2]) ELSE 10
  <2> HIDE DEF w
  <2>1. Prefixed(s, a) => w[2] = Char(s, a, 1)
    BY <1>1, <1>3, <1>4
  <2> QED
    BY <1>4, <2>1 DEF PrefixAt, BaseAt
<1>6. NumberAt(s, a) <=>
        w[1] \in Digits(10) \/ (w[1] = "." /\ Len(w) > 1 /\ w[2] \in Digits(10))
  <2>1. "." \notin Digits(10)
    BY DEF Digits
  <2> HIDE DEF w
  <2> QED
    BY <1>1, <1>2, <1>3, <2>1 DEF NumberAt
<1>7. \A m \in p..l : \A f \in m..l : \A e \in f..l :
        WordCut(w, p, b, m, f, e) <=> CutAt(s, a, l, m, f, e)
  BY CutsAgree
<1> HIDE DEF w, p, b
<1>8. NumberKinds(w) =
        IF w[1] \in Digits(10) \/ (w[1] = "." /\ Len(w) > 1 /\ w[2] \in Digits(10))
        THEN {IF m = Len(w) THEN "INT" ELSE "FLOAT" : m \in
                {m \in p..Len(w) : \E f \in m..Len(w) : \E e \in f..Len(w) :
                   WordCut(w, p, b, m, f, e)}}
        ELSE {}
  BY <1>5, NumberKindsCut
<1>9. {m \in p..l : \E f \in m..l : \E e \in f..l : WordCut(w, p, b, m, f, e)} =
      {m \in p..l : \E f \in m..l : \E e \in f..l : CutAt(s, a, l, m, f, e)}
  BY <1>7
<1>10. NumberKinds(w) =
         IF NumberAt(s, a)
         THEN {IF m = l THEN "INT" ELSE "FLOAT" : m \in
                 {m \in p..l : \E f \in m..l : \E e \in f..l : WordCut(w, p, b, m, f, e)}}
         ELSE {}
  BY <1>1, <1>6, <1>8
<1> QED
  BY <1>9, <1>10 DEF w, p

\* What a word begins with tells what it may be.
LEMMA FirstCharacters ==
  /\ NameStart \cap ({"#", "."} \cup DOMAIN Symbol \cup Digits(10)) = {}
  /\ {"#"} \cap ({"."} \cup DOMAIN Symbol \cup Digits(10)) = {}
  /\ DOMAIN Symbol \cap ({"."} \cup Digits(10)) = {}
  /\ {NUL} \cap ({"#", "."} \cup DOMAIN Symbol \cup NameStart \cup Digits(10)) = {}
<1>1. Upper \cap ({"#", ".", "_", NUL} \cup Digits(10)) = {}
  BY DEF Upper, Digits, NUL
<1>2. Lower \cap ({"#", ".", "_", NUL} \cup Digits(10)) = {}
  BY DEF Lower, Digits, NUL
<1>3. DOMAIN Symbol = {"(", ")", "+", "-", "*", "/", "^"}
  BY DEF Symbol
<1>4. Upper \cap DOMAIN Symbol = {} /\ Lower \cap DOMAIN Symbol = {}
  BY <1>3 DEF Upper, Lower
<1>5. NameStart \cap ({"#", "."} \cup DOMAIN Symbol \cup Digits(10)) = {}
  <2>1. {"_"} \cap ({"#", "."} \cup DOMAIN Symbol \cup Digits(10)) = {}
    BY <1>3 DEF Digits
  <2> QED
    BY <1>1, <1>2, <1>4, <2>1 DEF NameStart
<1>6. {"#"} \cap ({"."} \cup DOMAIN Symbol \cup Digits(10)) = {}
  BY <1>3 DEF Digits
<1>7. DOMAIN Symbol \cap ({"."} \cup Digits(10)) = {}
  BY <1>3 DEF Digits
<1>8. {NUL} \cap ({"#", "."} \cup DOMAIN Symbol \cup NameStart \cup Digits(10)) = {}
  <2>1. NUL \notin NameStart /\ NUL \notin DOMAIN Symbol /\ NUL \notin Digits(10)
    BY Classes
  <2>2. NUL # "#" /\ NUL # "."
    BY DEF NUL
  <2> QED
    BY <2>1, <2>2
<1> QED
  BY <1>5, <1>6, <1>7, <1>8

\* The first character of a text.
LEMMA PieceFirst ==
  ASSUME NEW s, NEW a, NEW l, Has(s, a, l), l > 0
  PROVE  Piece(s, a, l)[1] = Char(s, a, 0) /\ Len(Piece(s, a, l)) = l /\ l \in Nat
<1>1. 1 \in 1..l /\ 1 - 1 = 0 /\ l \in Nat
  BY DEF Has
<1>2. \A k \in 1..l : Piece(s, a, l)[k] = Char(s, a, k - 1)
  BY PieceChars
<1> QED
  BY <1>1, <1>2, PieceChars

\* A whole text is over a class if all of its characters are in it.
LEMMA PieceWhole ==
  ASSUME NEW s, NEW a, NEW l, Has(s, a, l), NEW S
  PROVE  Over(Piece(s, a, l), S) <=> Span(s, a, 0, l, S)
<1>1. /\ DOMAIN Piece(s, a, l) = 1..l /\ l \in Nat
      /\ \A k \in 1..l : Piece(s, a, l)[k] = Char(s, a, k - 1)
  BY PieceChars DEF Has
<1>2. Over(Piece(s, a, l), S) <=> \A k \in 1..l : Char(s, a, k - 1) \in S
  BY <1>1 DEF Over
<1>3. (\A k \in 1..l : Char(s, a, k - 1) \in S) <=> Span(s, a, 0, l, S)
  <2>1. \A k \in 1..l : k - 1 \in 0..(l - 1)
    BY <1>1
  <2>2. \A j \in 0..(l - 1) : j + 1 \in 1..l /\ j + 1 - 1 = j
    BY <1>1
  <2> QED
    BY <2>1, <2>2 DEF Span
<1> QED
  BY <1>2, <1>3

\* Only itself, and nothing longer, is a word of the kind.
OnlyWord(s, a, n, kd) ==
  /\ KindsOf(Piece(s, a, n)) = {kd}
  /\ \A l \in (n + 1)..(Len(s) - a) : KindsOf(Piece(s, a, l)) = {}

\* A longer text at the same place.
LEMMA Longer ==
  ASSUME NEW s, NEW a, NEW n, Has(s, a, n), NEW l \in (n + 1)..(Len(s) - a)
  PROVE  Has(s, a, l) /\ l > 0 /\ n \in 0..(l - 1) /\ n < l /\ l \in Nat
BY DEF Has

LEMMA NameOnly ==
  ASSUME NEW s, NEW a, NEW n, NEW kd, Has(s, a, n), n > 0, CompleteName(s, a, n, kd)
  PROVE  OnlyWord(s, a, n, kd)
<1>1. ASSUME NEW l, Has(s, a, l), l > 0
      PROVE  KindsOf(Piece(s, a, l)) = IF Span(s, a, 0, l, NamePart) THEN {"NAME"} ELSE {}
  <2>1. Piece(s, a, l)[1] \in NameStart
    BY <1>1, PieceFirst DEF CompleteName
  <2>2. /\ Piece(s, a, l)[1] # "#" /\ Piece(s, a, l)[1] \notin DOMAIN Symbol
    BY <2>1, FirstCharacters
  <2>3. KindsOf(Piece(s, a, l)) = IF Over(Piece(s, a, l), NamePart) THEN {"NAME"} ELSE {}
    BY <2>1, <2>2 DEF KindsOf
  <2> QED
    BY <1>1, <2>3, PieceWhole
<1>2. ASSUME NEW l \in (n + 1)..(Len(s) - a)
      PROVE  KindsOf(Piece(s, a, l)) = {}
  <2>1. Has(s, a, l) /\ l > 0 /\ n \in 0..(l - 1)
    BY Longer
  <2>2. ~Span(s, a, 0, l, NamePart)
    BY <2>1 DEF Span, CompleteName
  <2> QED
    BY <1>1, <2>1, <2>2
<1>3. KindsOf(Piece(s, a, n)) = {kd}
  BY <1>1 DEF CompleteName
<1> QED
  BY <1>2, <1>3 DEF OnlyWord

LEMMA CommentOnly ==
  ASSUME NEW s, NEW a, NEW n, NEW kd, Has(s, a, n), n > 0, CompleteComment(s, a, n, kd)
  PROVE  OnlyWord(s, a, n, kd)
<1>1. ASSUME NEW l, Has(s, a, l), l > 0
      PROVE  KindsOf(Piece(s, a, l)) =
               IF Span(s, a, 0, l, STRING \ {"\n"}) THEN {"COMMENT"} ELSE {}
  <2>1. Piece(s, a, l)[1] = "#"
    BY <1>1, PieceFirst DEF CompleteComment
  <2>2. Piece(s, a, l)[1] \notin NameStart /\ Piece(s, a, l)[1] \notin DOMAIN Symbol
    BY <2>1, FirstCharacters
  <2>3. KindsOf(Piece(s, a, l)) =
          IF Over(Piece(s, a, l), STRING \ {"\n"}) THEN {"COMMENT"} ELSE {}
    BY <2>1, <2>2 DEF KindsOf
  <2> QED
    BY <1>1, <2>3, PieceWhole
<1>2. ASSUME NEW l \in (n + 1)..(Len(s) - a)
      PROVE  KindsOf(Piece(s, a, l)) = {}
  <2>1. Has(s, a, l) /\ l > 0 /\ n \in 0..(l - 1)
    BY Longer
  <2>2. a + n # Len(s)
    BY DEF Has
  <2>3. Char(s, a, n) = "\n"
    BY <2>2 DEF CompleteComment
  <2>4. ~Span(s, a, 0, l, STRING \ {"\n"})
    BY <2>1, <2>3 DEF Span
  <2> QED
    BY <1>1, <2>1, <2>4
<1>3. KindsOf(Piece(s, a, n)) = {kd}
  BY <1>1 DEF CompleteComment
<1> QED
  BY <1>2, <1>3 DEF OnlyWord

LEMMA SymbolOnly ==
  ASSUME NEW s, NEW a, NEW n, NEW kd, Has(s, a, n), n > 0, CompleteSymbol(s, a, n, kd)
  PROVE  OnlyWord(s, a, n, kd)
<1>1. ASSUME NEW l, Has(s, a, l), l > 0
      PROVE  KindsOf(Piece(s, a, l)) = IF l = 1 THEN {kd} ELSE {}
  <2>1. /\ Piece(s, a, l)[1] \in DOMAIN Symbol /\ Symbol[Piece(s, a, l)[1]] = kd
        /\ Len(Piece(s, a, l)) = l
    BY <1>1, PieceFirst DEF CompleteSymbol
  <2>2. Piece(s, a, l)[1] \notin NameStart /\ Piece(s, a, l)[1] # "#"
    BY <2>1, FirstCharacters
  <2> QED
    BY <2>1, <2>2 DEF KindsOf
<1>2. ASSUME NEW l \in (n + 1)..(Len(s) - a)
      PROVE  KindsOf(Piece(s, a, l)) = {}
  <2>1. Has(s, a, l) /\ l > 0 /\ l # 1
    BY Longer DEF CompleteSymbol
  <2> QED
    BY <1>1, <2>1
<1>3. KindsOf(Piece(s, a, n)) = {kd}
  BY <1>1 DEF CompleteSymbol
<1> QED
  BY <1>2, <1>3 DEF OnlyWord

LEMMA NumberOnly ==
  ASSUME NEW s, NEW a, NEW n, NEW kd, Has(s, a, n), n > 0, CompleteNumber(s, a, n, kd)
  PROVE  OnlyWord(s, a, n, kd)
<1> DEFINE p == PrefixAt(s, a)
<1>1. PICK m \in Nat, f \in Nat, e \in Nat :
        /\ MantissaDone(s, a, m) /\ FractionDone(s, a, m, f) /\ ExponentDone(s, a, f, e)
        /\ SuffixDone(s, a, e, n) /\ kd = IF m = n THEN "INT" ELSE "FLOAT"
  BY DEF CompleteNumber
<1>2. NumberAt(s, a) /\ n \in Nat /\ p \in Nat
  BY BaseType DEF CompleteNumber, Has
<1>3. p <= m /\ m <= f /\ f <= e /\ e <= n /\ CutAt(s, a, n, m, f, e)
  BY <1>1, <1>2, CutExists
<1>4. p <= n
  BY <1>2, <1>3
<1>5. Char(s, a, 0) = "." => n > 1
  <2>1. ASSUME Char(s, a, 0) = "."
        PROVE  f >= 2
    <3>1. Char(s, a, 1) \in Digits(10) /\ "." \notin Digits(10)
      BY <1>2, <2>1 DEF NumberAt, Digits
    <3>2. p = 0 /\ BaseAt(s, a) = 10
      BY <2>1 DEF PrefixAt, BaseAt, Prefixed
    <3>3. m = 0
      <4>1. 0 \in 0..(m - 1) => Char(s, a, 0) \in Digits(10)
        BY <1>1, <3>2 DEF MantissaDone, Span
      <4>2. 0 \notin 0..(m - 1)
        BY <2>1, <3>1, <4>1
      <4> QED
        BY <4>2
    <3>4. f > 0 /\ Char(s, a, f) \notin Digits(10)
      BY <1>1, <2>1, <3>2, <3>3 DEF FractionDone
    <3>5. f # 1
      BY <3>1, <3>4
    <3> QED
      BY <3>4, <3>5
  <2> QED
    BY <1>2, <1>3, <2>1
<1>6. ASSUME NEW l \in Nat, Has(s, a, l), n <= l
      PROVE  KindsOf(Piece(s, a, l)) =
               {IF x = l THEN "INT" ELSE "FLOAT" : x \in
                 {x \in p..l : \E y \in x..l : \E z \in y..l : CutAt(s, a, l, x, y, z)}}
  <2>1. l > 0 /\ p <= l /\ (Char(s, a, 0) = "." => l > 1)
    BY <1>2, <1>4, <1>5, <1>6
  <2>2. Piece(s, a, l)[1] \in Digits(10) \cup {"."}
    BY <1>2, <1>6, <2>1, PieceFirst DEF NumberAt
  <2>3. /\ Piece(s, a, l)[1] \notin NameStart /\ Piece(s, a, l)[1] # "#"
        /\ Piece(s, a, l)[1] \notin DOMAIN Symbol
    BY <2>2, FirstCharacters
  <2>4. KindsOf(Piece(s, a, l)) = NumberKinds(Piece(s, a, l))
    BY <2>3 DEF KindsOf
  <2> QED
    BY <1>2, <1>6, <2>1, <2>4, NumberKindsAt
<1>7. ASSUME NEW l \in Nat, n <= l, NEW x \in p..l, NEW y \in x..l, NEW z \in y..l,
             CutAt(s, a, l, x, y, z)
      PROVE  x = m /\ l = n
  <2>1. x \in Nat /\ y \in Nat /\ z \in Nat /\ p <= x /\ x <= y /\ y <= z /\ z <= l
    BY <1>2
  <2> QED
    BY <1>1, <1>2, <1>7, <2>1, CutUnique
<1>8. KindsOf(Piece(s, a, n)) = {kd}
  <2> DEFINE X == {x \in p..n : \E y \in x..n : \E z \in y..n : CutAt(s, a, n, x, y, z)}
  <2>1. m \in p..n /\ f \in m..n /\ e \in f..n
    BY <1>2, <1>3
  <2>2. X = {m}
    <3>1. m \in X
      BY <1>3, <2>1
    <3>2. \A x \in X : x = m
      BY <1>2, <1>7
    <3> QED
      BY <3>1, <3>2
  <2>3. KindsOf(Piece(s, a, n)) = {IF x = n THEN "INT" ELSE "FLOAT" : x \in X}
    BY <1>2, <1>6
  <2> HIDE DEF X
  <2> QED
    BY <1>1, <2>2, <2>3
<1>9. ASSUME NEW l \in (n + 1)..(Len(s) - a)
      PROVE  KindsOf(Piece(s, a, l)) = {}
  <2> DEFINE X == {x \in p..l : \E y \in x..l : \E z \in y..l : CutAt(s, a, l, x, y, z)}
  <2>1. Has(s, a, l) /\ l \in Nat /\ n <= l /\ l # n
    BY <1>2, Longer
  <2>2. X = {}
    BY <1>7, <2>1
  <2>3. KindsOf(Piece(s, a, l)) = {IF x = l THEN "INT" ELSE "FLOAT" : x \in X}
    BY <1>6, <2>1
  <2> HIDE DEF X
  <2> QED
    BY <2>2, <2>3
<1> QED
  BY <1>8, <1>9 DEF OnlyWord

\* A word that what follows cannot continue is the only one at its place that is as
\* long, and none is longer.
LEMMA CompleteOnly ==
  ASSUME NEW s, NEW a, NEW n, NEW kd, Has(s, a, n), n > 0, Complete(s, a, n, kd)
  PROVE  OnlyWord(s, a, n, kd)
BY NameOnly, CommentOnly, SymbolOnly, NumberOnly DEF Complete

(***************************************************************************)
(* The scan.                                                               *)
(***************************************************************************)

\* What the i characters read from byte a on are, at each point of execution.
Numeric == {"digits", "point", "fraction", "exponent", "sign", "exp_digits", "suffix"}
Reading(s, a, i, at, kd, b) ==
  /\ at = "comment" => kd = "COMMENT" /\ Char(s, a, 0) = "#" /\ Span(s, a, 0, i, STRING \ {"\n"})
  /\ at = "name" => kd = "NAME" /\ Char(s, a, 0) \in NameStart /\ Span(s, a, 0, i, NamePart)
  /\ at = "base" => kd = "INT" /\ i = 1 /\ Char(s, a, 0) = "0"
  /\ at \in Numeric => NumberAt(s, a)
  /\ at \in {"digits", "point", "fraction", "exponent"} => b = BaseAt(s, a)
  /\ at = "digits" =>
       kd = "INT" /\ PrefixAt(s, a) <= i /\ Span(s, a, PrefixAt(s, a), i, Digits(BaseAt(s, a)))
  /\ at = "point" => kd = "INT" /\ MantissaDone(s, a, i)
  /\ at = "fraction" => kd = "FLOAT" /\ \E m \in Nat :
       /\ MantissaDone(s, a, m) /\ Char(s, a, m) = "."
       /\ m < i /\ Span(s, a, m + 1, i, Digits(BaseAt(s, a)))
  /\ at = "exponent" => \E m \in Nat :
       /\ MantissaDone(s, a, m) /\ FractionDone(s, a, m, i)
       /\ kd = IF m = i THEN "INT" ELSE "FLOAT"
  /\ at = "sign" => kd = "FLOAT" /\ \E m, f \in Nat :
       /\ MantissaDone(s, a, m) /\ FractionDone(s, a, m, f)
       /\ Char(s, a, f) \in Marker(BaseAt(s, a)) /\ i = f + 1
  /\ at = "exp_digits" => kd = "FLOAT" /\ \E m, f \in Nat :
       /\ MantissaDone(s, a, m) /\ FractionDone(s, a, m, f)
       /\ Char(s, a, f) \in Marker(BaseAt(s, a))
       /\ DigitsFrom(s, a, f) <= i /\ Span(s, a, DigitsFrom(s, a, f), i, Digits(10))
  /\ at = "suffix" => \E m, f \in Nat :
       /\ MantissaDone(s, a, m) /\ FractionDone(s, a, m, f) /\ ExponentDone(s, a, f, i)
       /\ kd = IF m = i THEN "INT" ELSE "FLOAT"
  /\ at = "emit" => Complete(s, a, i, kd)

\* The tokens so far are words.
WordsSo(s, ts) ==
  \A k \in 1..Len(ts) : ts[k].kind # "EOF" =>
    /\ Has(s, ts[k].posb, ts[k].lenb)
    /\ Complete(s, ts[k].posb, ts[k].lenb, ts[k].kind)

WInv ==
  /\ IInv /\ WordsSo(src, toks)
  /\ InToken(pc) /\ kind # "EOF" => Reading(src, start.i, pos.i - start.i, pc, kind, base)

\* One character more.
LEMMA SpanNext ==
  ASSUME NEW s, NEW a, NEW x \in Nat, NEW i \in Nat, NEW S,
         Span(s, a, x, i, S), Char(s, a, i) \in S
  PROVE  Span(s, a, x, i + 1, S)
<1>1. \A k \in x..(i + 1 - 1) : k = i \/ k \in x..(i - 1)
  OBVIOUS
<1> QED
  BY <1>1 DEF Span

LEMMA SpanNone ==
  ASSUME NEW s, NEW a, NEW x \in Nat, NEW S
  PROVE  Span(s, a, x, x, S)
<1>1. x..(x - 1) = {}
  OBVIOUS
<1> QED
  BY <1>1 DEF Span

\* Where a token being read stands.
LEMMA Cursor ==
  ASSUME LexAssumption, IInv, InToken(pc)
  PROVE  /\ start.i \in Nat /\ pos.i - start.i \in Nat /\ pos.i \in Nat
         /\ start.i + (pos.i - start.i) = pos.i
         /\ Cur = Char(src, start.i, pos.i - start.i) /\ Has(src, start.i, pos.i - start.i)
<1>1. /\ TypeOK /\ Scanned
  BY DEF IInv
<1>2. /\ src \in Seq(STRING) /\ Len(src) \in Nat /\ pos.i \in Nat /\ pos.i <= Len(src)
      /\ start.i \in Nat /\ Cur = CharAt(src, pos.i) /\ start.i <= pos.i
  BY <1>1, SourceType DEF Scanned
<1>3. pos.i - start.i \in Nat /\ start.i + (pos.i - start.i) = pos.i
  BY <1>2
<1> QED
  BY <1>2, <1>3 DEF Char, Has

\* The two outcomes of a while, and of an if.
LEMMA WhileCases ==
  ASSUME LexAssumption, IInv, NEW at, NEW chars, NEW next, While(at, chars, next), NUL \notin chars
  PROVE  /\ pc = at /\ UNCHANGED <<src, toks, start, base, kind>>
         /\ \/ Cur \in chars /\ pos'.i = pos.i + 1 /\ pc' = at
            \/ Cur \notin chars /\ pos'.i = pos.i /\ pc' = next
<1>1. TypeOK /\ Placed(src, pos)
  BY DEF IInv
<1>2. Cur \in chars => pos.i < Len(src)
  BY <1>1, CurInside
<1>3. pos.i < Len(src) => Advanced.i = pos.i + 1
  BY <1>1, AdvancedPlace
<1> QED
  BY <1>2, <1>3 DEF While, ADV, Goto, Keep

LEMMA OptionalCases ==
  ASSUME LexAssumption, IInv, NEW at, NEW chars, NEW yes, NEW no, NEW k,
         Optional(at, chars, yes, no, k), NUL \notin chars
  PROVE  /\ pc = at /\ UNCHANGED <<src, toks, start, base>>
         /\ \/ Cur \in chars /\ pos'.i = pos.i + 1 /\ pc' = yes /\ kind' = k
            \/ Cur \notin chars /\ pos'.i = pos.i /\ pc' = no /\ kind' = kind
<1>1. TypeOK /\ Placed(src, pos)
  BY DEF IInv
<1>2. Cur \in chars => pos.i < Len(src)
  BY <1>1, CurInside
<1>3. pos.i < Len(src) => Advanced.i = pos.i + 1
  BY <1>1, AdvancedPlace
<1> QED
  BY <1>2, <1>3 DEF Optional, ADV, Goto, Keep

\* What has been read before a test inside a token.
LEMMA ReadBefore ==
  ASSUME LexAssumption, WInv, pc \in Scanning
  PROVE  /\ InToken(pc) /\ kind # "EOF" /\ WordsSo(src, toks) /\ IInv
         /\ Reading(src, start.i, pos.i - start.i, pc, kind, base)
<1>1. InToken(pc)
  BY DEF InToken, Scanning
<1>2. kind # "EOF"
  BY <1>1 DEF WInv, IInv, Scanned, Scanning
<1> QED
  BY <1>1, <1>2 DEF WInv

\* What has been read after it: the same words so far, and a token that fits.
ReadAfter ==
  UNCHANGED <<src, toks, start>>
    /\ Reading(src, start.i, pos'.i - start.i, pc', kind', base')

LEMMA CommentReads ==
  ASSUME LexAssumption, WInv, Comment
  PROVE  ReadAfter
<1> DEFINE a == start.i
           i == pos.i - start.i
           chars == {At(k) : k \in 0..(Len(src) - 1)} \ {"\n"}
<1>1. While("comment", chars, "emit")
  BY DEF Comment
<1>2. pc = "comment" /\ UNCHANGED <<src, toks, start, base, kind>>
  BY <1>1 DEF While, Keep
<1>3. IInv /\ TypeOK /\ Placed(src, pos) /\ InToken(pc)
  BY <1>2 DEF WInv, IInv, InToken
<1>4. /\ a \in Nat /\ i \in Nat /\ a + i = pos.i /\ Cur = Char(src, a, i) /\ Has(src, a, i)
      /\ src \in Seq(STRING) /\ Len(src) \in Nat /\ pos.i <= Len(src) /\ pos.i \in Nat
  BY <1>3, Cursor, SourceType
<1>5. kind = "COMMENT" /\ Char(src, a, 0) = "#" /\ Span(src, a, 0, i, STRING \ {"\n"})
  BY <1>2, ReadBefore DEF Reading, Scanning
<1>6. pos.i < Len(src) => Cur \in STRING /\ (Cur # "\n" => Cur \in chars)
  <2>1. CASE pos.i < Len(src)
    <3>1. pos.i \in 0..(Len(src) - 1) /\ pos.i + 1 \in 1..Len(src)
      BY <1>4, <2>1
    <3>2. Cur = At(pos.i) /\ Cur = src[pos.i + 1]
      BY <2>1 DEF Cur, At
    <3>3. src[pos.i + 1] \in STRING
      BY <1>4, <3>1
    <3>4. At(pos.i) \in {At(k) : k \in 0..(Len(src) - 1)}
      BY <3>1
    <3>5. Cur # "\n" => Cur \in chars
      BY <3>2, <3>4
    <3>6. Cur \in STRING
      BY <3>2, <3>3
    <3> HIDE DEF chars
    <3> QED
      BY <3>5, <3>6
  <2> QED
    BY <2>1
<1>7. CASE Cur \in chars /\ pos.i < Len(src)
  <2>1. pos' = Advanced /\ pc' = "comment" /\ Cur # "\n"
    BY <1>1, <1>2, <1>7 DEF While, ADV
  <2>2. pos'.i - a = i + 1
    BY <1>3, <1>4, <1>7, <2>1, AdvancedPlace
  <2> HIDE DEF a, i, chars
  <2>3. Span(src, a, 0, i + 1, STRING \ {"\n"})
    BY <1>4, <1>5, <1>6, <1>7, <2>1, SpanNext
  <2> QED
    BY <1>2, <1>5, <2>1, <2>2, <2>3 DEF ReadAfter, Reading, Numeric, a
<1>8. CASE ~(Cur \in chars /\ pos.i < Len(src))
  <2>1. pos' = pos /\ pc' = "emit"
    BY <1>1, <1>8 DEF While, Goto
  <2>2. pos.i = Len(src) \/ Cur = "\n"
    BY <1>4, <1>6, <1>8
  <2>3. CompleteComment(src, a, i, "COMMENT")
    BY <1>4, <1>5, <2>2 DEF CompleteComment
  <2> QED
    BY <1>2, <1>5, <2>1, <2>3 DEF ReadAfter, Reading, Numeric, Complete
<1> QED
  BY <1>7, <1>8

LEMMA NameReads ==
  ASSUME LexAssumption, WInv, Name, pc' # "abort"
  PROVE  ReadAfter
<1> DEFINE a == start.i
           i == pos.i - start.i
<1>1. While("name", NamePart, "emit")
  BY DEF Name, Goto
<1>2. /\ pc = "name" /\ UNCHANGED <<src, toks, start, base, kind>>
      /\ \/ Cur \in NamePart /\ pos'.i = pos.i + 1 /\ pc' = "name"
         \/ Cur \notin NamePart /\ pos'.i = pos.i /\ pc' = "emit"
  BY <1>1, Classes, WhileCases DEF WInv
<1>3. /\ a \in Nat /\ i \in Nat /\ a + i = pos.i /\ Cur = Char(src, a, i) /\ pos.i \in Nat
  BY <1>2, Cursor DEF WInv, InToken
<1>4. kind = "NAME" /\ Char(src, a, 0) \in NameStart /\ Span(src, a, 0, i, NamePart)
  BY <1>2, ReadBefore DEF Reading, Scanning
<1>5. CASE Cur \in NamePart /\ pos'.i = pos.i + 1 /\ pc' = "name"
  <2>1. pos'.i - a = i + 1
    BY <1>3, <1>5
  <2> HIDE DEF a, i
  <2>2. Span(src, a, 0, i + 1, NamePart)
    BY <1>3, <1>4, <1>5, SpanNext
  <2> QED
    BY <1>2, <1>4, <1>5, <2>1, <2>2 DEF ReadAfter, Reading, Numeric, a
<1>6. CASE Cur \notin NamePart /\ pos'.i = pos.i /\ pc' = "emit"
  <2>1. CompleteName(src, a, i, "NAME")
    BY <1>3, <1>4, <1>6 DEF CompleteName
  <2> QED
    BY <1>2, <1>4, <1>6, <2>1 DEF ReadAfter, Reading, Numeric, Complete
<1> QED
  BY <1>2, <1>5, <1>6

LEMMA BaseReads ==
  ASSUME LexAssumption, WInv, Base
  PROVE  ReadAfter
<1> DEFINE a == start.i
           i == pos.i - start.i
<1>1. /\ pc = "base" /\ base' = BaseOf(Cur) /\ pc' = "digits"
      /\ pos' = (IF BaseOf(Cur) # 10 THEN Advanced ELSE pos)
      /\ UNCHANGED <<src, toks, start, kind>>
  BY DEF Base, Goto, Keep, ADV
<1>2. IInv /\ TypeOK /\ Placed(src, pos) /\ InToken(pc)
  BY <1>1 DEF WInv, IInv, InToken
<1>3. /\ a \in Nat /\ i \in Nat /\ a + i = pos.i /\ Cur = Char(src, a, i) /\ pos.i \in Nat
      /\ Len(src) \in Nat /\ pos.i <= Len(src)
  BY <1>2, Cursor, SourceType
<1>4. kind = "INT" /\ i = 1 /\ Char(src, a, 0) = "0"
  BY <1>1, ReadBefore DEF Reading, Scanning
<1>5. NumberAt(src, a) /\ "0" \in Digits(10)
  BY <1>4 DEF NumberAt, Digits
<1>6. CASE BaseOf(Cur) # 10
  <2>1. pos.i < Len(src)
    BY <1>2, <1>6, Classes, CurInside
  <2>2. Prefixed(src, a)
    BY <1>3, <1>4, <1>6, <2>1 DEF Prefixed
  <2>3. BaseAt(src, a) = BaseOf(Cur) /\ PrefixAt(src, a) = 2
    BY <1>3, <1>4, <2>2 DEF BaseAt, PrefixAt
  <2>4. pos'.i - a = 2
    BY <1>1, <1>2, <1>3, <1>4, <1>6, <2>1, AdvancedPlace
  <2>5. Span(src, a, 2, 2, Digits(BaseAt(src, a)))
    BY SpanNone
  <2> QED
    BY <1>1, <1>4, <1>5, <2>3, <2>4, <2>5 DEF ReadAfter, Reading, Numeric
<1>7. CASE BaseOf(Cur) = 10
  <2>1. ~Prefixed(src, a)
    BY <1>3, <1>4, <1>7 DEF Prefixed
  <2>2. BaseAt(src, a) = 10 /\ PrefixAt(src, a) = 0
    BY <2>1 DEF BaseAt, PrefixAt
  <2>3. pos'.i - a = 1
    BY <1>1, <1>3, <1>4, <1>7
  <2>4. Span(src, a, 0, 1, Digits(10))
    BY <1>4, <1>5 DEF Span
  <2> QED
    BY <1>1, <1>4, <1>5, <1>7, <2>2, <2>3, <2>4 DEF ReadAfter, Reading, Numeric
<1> QED
  BY <1>6, <1>7

\* Where a number being read stands.
LEMMA NumberHere ==
  ASSUME LexAssumption, WInv, pc \in Numeric
  PROVE  /\ start.i \in Nat /\ pos.i - start.i \in Nat /\ pos.i \in Nat
         /\ Cur = Char(src, start.i, pos.i - start.i)
         /\ (pos.i + 1) - start.i = (pos.i - start.i) + 1
         /\ Reading(src, start.i, pos.i - start.i, pc, kind, base)
         /\ NumberAt(src, start.i) /\ IInv
         /\ BaseAt(src, start.i) \in {2, 8, 10, 16} /\ PrefixAt(src, start.i) \in Nat
         /\ NUL \notin Digits(BaseAt(src, start.i)) /\ NUL \notin Digits(10)
         /\ NUL \notin Marker(BaseAt(src, start.i)) /\ NUL \notin {".", "+", "-", "i", "I"}
<1>1. pc \in Scanning
  BY DEF Numeric, Scanning
<1>2. InToken(pc) /\ IInv /\ Reading(src, start.i, pos.i - start.i, pc, kind, base)
  BY <1>1, ReadBefore
<1>3. /\ start.i \in Nat /\ pos.i - start.i \in Nat /\ pos.i \in Nat
      /\ Cur = Char(src, start.i, pos.i - start.i)
  BY <1>2, Cursor
<1>4. NumberAt(src, start.i)
  BY <1>2 DEF Reading
<1>5. BaseAt(src, start.i) \in {2, 8, 10, 16} /\ PrefixAt(src, start.i) \in Nat
  BY BaseType
<1>6. /\ NUL \notin Digits(BaseAt(src, start.i)) /\ NUL \notin Digits(10)
      /\ NUL \notin Marker(BaseAt(src, start.i))
  BY <1>5, Classes
<1>7. NUL \notin {".", "+", "-", "i", "I"}
  BY DEF NUL
<1>8. (pos.i + 1) - start.i = (pos.i - start.i) + 1
  BY <1>3
<1> QED
  BY <1>2, <1>3, <1>4, <1>5, <1>6, <1>7, <1>8

LEMMA MantissaReads ==
  ASSUME LexAssumption, WInv, Mantissa
  PROVE  ReadAfter
<1> DEFINE a == start.i
           i == pos.i - start.i
           D == Digits(BaseAt(src, a))
<1>1. pc = "digits" /\ pc \in Numeric
  BY DEF Mantissa, While, Numeric
<1>2. /\ kind = "INT" /\ PrefixAt(src, a) <= i /\ Span(src, a, PrefixAt(src, a), i, D)
      /\ base = BaseAt(src, a) /\ NumberAt(src, a)
  BY <1>1, NumberHere DEF Reading
<1>3. /\ i \in Nat /\ PrefixAt(src, a) \in Nat /\ Cur = Char(src, a, i)
      /\ (pos.i + 1) - a = i + 1
  BY <1>1, NumberHere
<1>4. /\ UNCHANGED <<src, toks, start, base, kind>>
      /\ \/ Cur \in D /\ pos'.i = pos.i + 1 /\ pc' = "digits"
         \/ Cur \notin D /\ pos'.i = pos.i /\ pc' = "point"
  <2>1. While("digits", D, "point") /\ NUL \notin D
    BY <1>1, <1>2, NumberHere DEF Mantissa
  <2> HIDE DEF D
  <2> QED
    BY <2>1, WhileCases DEF WInv
<1>5. CASE Cur \in D /\ pos'.i = pos.i + 1 /\ pc' = "digits"
  <2>1. pos'.i - a = i + 1
    BY <1>3, <1>5
  <2> HIDE DEF i
  <2>2. Span(src, a, PrefixAt(src, a), i + 1, D)
    BY <1>2, <1>3, <1>5, SpanNext
  <2>3. PrefixAt(src, a) <= i + 1
    BY <1>2, <1>3
  <2> QED
    BY <1>2, <1>4, <1>5, <2>1, <2>2, <2>3 DEF ReadAfter, Reading, Numeric
<1>6. CASE Cur \notin D /\ pos'.i = pos.i /\ pc' = "point"
  <2>1. MantissaDone(src, a, i)
    BY <1>2, <1>3, <1>6 DEF MantissaDone
  <2> QED
    BY <1>2, <1>4, <1>6, <2>1 DEF ReadAfter, Reading, Numeric
<1> QED
  BY <1>4, <1>5, <1>6

LEMMA PointReads ==
  ASSUME LexAssumption, WInv, Point
  PROVE  ReadAfter
<1> DEFINE a == start.i
           i == pos.i - start.i
<1>1. pc = "point" /\ pc \in Numeric
  BY DEF Point, Optional, Numeric
<1>2. kind = "INT" /\ MantissaDone(src, a, i) /\ base = BaseAt(src, a) /\ NumberAt(src, a)
  BY <1>1, NumberHere DEF Reading
<1>3. i \in Nat /\ Cur = Char(src, a, i) /\ (pos.i + 1) - a = i + 1
  BY <1>1, NumberHere
<1>4. /\ UNCHANGED <<src, toks, start, base>>
      /\ \/ Cur = "." /\ pos'.i = pos.i + 1 /\ pc' = "fraction" /\ kind' = "FLOAT"
         \/ Cur # "." /\ pos'.i = pos.i /\ pc' = "exponent" /\ kind' = kind
  <2>1. Optional("point", {"."}, "fraction", "exponent", "FLOAT") /\ NUL \notin {"."}
    BY <1>1, NumberHere DEF Point
  <2> QED
    BY <2>1, OptionalCases DEF WInv
<1>5. CASE Cur = "." /\ pos'.i = pos.i + 1 /\ pc' = "fraction" /\ kind' = "FLOAT"
  <2>1. pos'.i - a = i + 1
    BY <1>3, <1>5
  <2> HIDE DEF i
  <2>2. i + 1 \in Nat /\ i < i + 1
    BY <1>3
  <2>3. Span(src, a, i + 1, i + 1, Digits(BaseAt(src, a)))
    BY <2>2, SpanNone
  <2>4. \E m \in Nat :
          /\ MantissaDone(src, a, m) /\ Char(src, a, m) = "."
          /\ m < i + 1 /\ Span(src, a, m + 1, i + 1, Digits(BaseAt(src, a)))
    BY <1>2, <1>3, <1>5, <2>2, <2>3
  <2> QED
    BY <1>2, <1>4, <1>5, <2>1, <2>4 DEF ReadAfter, Reading, Numeric
<1>6. CASE Cur # "." /\ pos'.i = pos.i /\ pc' = "exponent" /\ kind' = kind
  <2>1. FractionDone(src, a, i, i)
    BY <1>3, <1>6 DEF FractionDone
  <2>2. \E m \in Nat :
          /\ MantissaDone(src, a, m) /\ FractionDone(src, a, m, i)
          /\ kind = IF m = i THEN "INT" ELSE "FLOAT"
    BY <1>2, <1>3, <2>1
  <2> QED
    BY <1>2, <1>4, <1>6, <2>2 DEF ReadAfter, Reading, Numeric
<1> QED
  BY <1>4, <1>5, <1>6

LEMMA FractionReads ==
  ASSUME LexAssumption, WInv, Fraction
  PROVE  ReadAfter
<1> DEFINE a == start.i
           i == pos.i - start.i
           D == Digits(BaseAt(src, a))
<1>1. pc = "fraction" /\ pc \in Numeric
  BY DEF Fraction, While, Numeric
<1>2. kind = "FLOAT" /\ base = BaseAt(src, a) /\ NumberAt(src, a)
  BY <1>1, NumberHere DEF Reading
<1>3. PICK m \in Nat :
        /\ MantissaDone(src, a, m) /\ Char(src, a, m) = "."
        /\ m < i /\ Span(src, a, m + 1, i, D)
  BY <1>1, NumberHere DEF Reading
<1>4. i \in Nat /\ Cur = Char(src, a, i) /\ (pos.i + 1) - a = i + 1
  BY <1>1, NumberHere
<1>5. /\ UNCHANGED <<src, toks, start, base, kind>>
      /\ \/ Cur \in D /\ pos'.i = pos.i + 1 /\ pc' = "fraction"
         \/ Cur \notin D /\ pos'.i = pos.i /\ pc' = "exponent"
  <2>1. While("fraction", D, "exponent") /\ NUL \notin D
    BY <1>1, <1>2, NumberHere DEF Fraction
  <2> HIDE DEF D
  <2> QED
    BY <2>1, WhileCases DEF WInv
<1>6. CASE Cur \in D /\ pos'.i = pos.i + 1 /\ pc' = "fraction"
  <2>1. pos'.i - a = i + 1
    BY <1>4, <1>6
  <2> HIDE DEF i
  <2>2. m + 1 \in Nat /\ m < i + 1
    BY <1>3, <1>4
  <2>3. Span(src, a, m + 1, i + 1, D)
    BY <1>3, <1>4, <1>6, <2>2, SpanNext
  <2> QED
    BY <1>2, <1>3, <1>5, <1>6, <2>1, <2>2, <2>3 DEF ReadAfter, Reading, Numeric
<1>7. CASE Cur \notin D /\ pos'.i = pos.i /\ pc' = "exponent"
  <2>1. FractionDone(src, a, m, i) /\ m # i
    BY <1>3, <1>4, <1>7 DEF FractionDone
  <2>2. kind = IF m = i THEN "INT" ELSE "FLOAT"
    BY <1>2, <2>1
  <2> HIDE DEF i
  <2> QED
    BY <1>2, <1>3, <1>5, <1>7, <2>1, <2>2 DEF ReadAfter, Reading, Numeric, i
<1> QED
  BY <1>5, <1>6, <1>7

LEMMA ExponentReads ==
  ASSUME LexAssumption, WInv, Exponent
  PROVE  ReadAfter
<1> DEFINE a == start.i
           i == pos.i - start.i
           M == Marker(BaseAt(src, a))
<1>1. pc = "exponent" /\ pc \in Numeric
  BY DEF Exponent, Optional, Numeric
<1>2. base = BaseAt(src, a) /\ NumberAt(src, a)
  BY <1>1, NumberHere DEF Reading
<1>3. PICK m \in Nat :
        /\ MantissaDone(src, a, m) /\ FractionDone(src, a, m, i)
        /\ kind = IF m = i THEN "INT" ELSE "FLOAT"
  BY <1>1, NumberHere DEF Reading
<1>4. i \in Nat /\ Cur = Char(src, a, i) /\ (pos.i + 1) - a = i + 1
  BY <1>1, NumberHere
<1>5. /\ UNCHANGED <<src, toks, start, base>>
      /\ \/ Cur \in M /\ pos'.i = pos.i + 1 /\ pc' = "sign" /\ kind' = "FLOAT"
         \/ Cur \notin M /\ pos'.i = pos.i /\ pc' = "suffix" /\ kind' = kind
  <2>1. Optional("exponent", M, "sign", "suffix", "FLOAT") /\ NUL \notin M
    BY <1>1, <1>2, NumberHere DEF Exponent
  <2> HIDE DEF M
  <2> QED
    BY <2>1, OptionalCases DEF WInv
<1>6. CASE Cur \in M /\ pos'.i = pos.i + 1 /\ pc' = "sign" /\ kind' = "FLOAT"
  <2>1. pos'.i - a = i + 1
    BY <1>4, <1>6
  <2> HIDE DEF i
  <2>2. \E x, f \in Nat :
          /\ MantissaDone(src, a, x) /\ FractionDone(src, a, x, f)
          /\ Char(src, a, f) \in M /\ i + 1 = f + 1
    BY <1>3, <1>4, <1>6
  <2> QED
    BY <1>2, <1>5, <1>6, <2>1, <2>2 DEF ReadAfter, Reading, Numeric
<1>7. CASE Cur \notin M /\ pos'.i = pos.i /\ pc' = "suffix" /\ kind' = kind
  <2>1. ExponentDone(src, a, i, i)
    BY <1>4, <1>7 DEF ExponentDone
  <2> HIDE DEF i
  <2>2. \E x, f \in Nat :
          /\ MantissaDone(src, a, x) /\ FractionDone(src, a, x, f) /\ ExponentDone(src, a, f, i)
          /\ kind = IF x = i THEN "INT" ELSE "FLOAT"
    BY <1>3, <1>4, <2>1
  <2> QED
    BY <1>2, <1>5, <1>7, <2>2 DEF ReadAfter, Reading, Numeric, i
<1> QED
  BY <1>5, <1>6, <1>7

LEMMA SignReads ==
  ASSUME LexAssumption, WInv, Sign
  PROVE  ReadAfter
<1> DEFINE a == start.i
           i == pos.i - start.i
           j == pos'.i - start.i
<1>1. pc = "sign" /\ pc \in Numeric
  BY DEF Sign, Optional, Numeric
<1>2. kind = "FLOAT" /\ NumberAt(src, a)
  BY <1>1, NumberHere DEF Reading
<1>3. PICK m \in Nat, f \in Nat :
        /\ MantissaDone(src, a, m) /\ FractionDone(src, a, m, f)
        /\ Char(src, a, f) \in Marker(BaseAt(src, a)) /\ i = f + 1
  BY <1>1, NumberHere DEF Reading
<1>4. i \in Nat /\ Cur = Char(src, a, i) /\ (pos.i + 1) - a = i + 1
  BY <1>1, NumberHere
<1>5. /\ UNCHANGED <<src, toks, start, base>> /\ pc' = "exp_digits" /\ kind' = kind
      /\ \/ Cur \in {"+", "-"} /\ pos'.i = pos.i + 1
         \/ Cur \notin {"+", "-"} /\ pos'.i = pos.i
  <2>1. Optional("sign", {"+", "-"}, "exp_digits", "exp_digits", kind) /\ NUL \notin {"+", "-"}
    BY <1>1, NumberHere DEF Sign
  <2> QED
    BY <2>1, OptionalCases DEF WInv
<1>6. DigitsFrom(src, a, f) = j /\ j \in Nat
  <2>1. CASE Cur \in {"+", "-"} /\ pos'.i = pos.i + 1
    <3>1. j = f + 2
      BY <1>3, <1>4, <2>1
    <3>2. DigitsFrom(src, a, f) = f + 2
      BY <1>3, <1>4, <2>1 DEF DigitsFrom
    <3> QED
      BY <3>1, <3>2
  <2>2. CASE Cur \notin {"+", "-"} /\ pos'.i = pos.i
    <3>1. j = f + 1
      BY <1>3, <1>4, <2>2
    <3>2. DigitsFrom(src, a, f) = f + 1
      BY <1>3, <1>4, <2>2 DEF DigitsFrom
    <3> QED
      BY <3>1, <3>2
  <2> QED
    BY <1>5, <2>1, <2>2
<1> HIDE DEF j
<1>7. DigitsFrom(src, a, f) <= j /\ Span(src, a, DigitsFrom(src, a, f), j, Digits(10))
  BY <1>6, SpanNone
<1>8. \E x, g \in Nat :
        /\ MantissaDone(src, a, x) /\ FractionDone(src, a, x, g)
        /\ Char(src, a, g) \in Marker(BaseAt(src, a))
        /\ DigitsFrom(src, a, g) <= j /\ Span(src, a, DigitsFrom(src, a, g), j, Digits(10))
  BY <1>3, <1>7
<1> QED
  BY <1>2, <1>5, <1>8 DEF ReadAfter, Reading, Numeric, j

LEMMA ExponentDigitsReads ==
  ASSUME LexAssumption, WInv, ExponentDigits
  PROVE  ReadAfter
<1> DEFINE a == start.i
           i == pos.i - start.i
           T == Digits(10)
<1>1. pc = "exp_digits" /\ pc \in Numeric
  BY DEF ExponentDigits, While, Numeric
<1>2. kind = "FLOAT" /\ NumberAt(src, a)
  BY <1>1, NumberHere DEF Reading
<1>3. PICK m \in Nat, f \in Nat :
        /\ MantissaDone(src, a, m) /\ FractionDone(src, a, m, f)
        /\ Char(src, a, f) \in Marker(BaseAt(src, a))
        /\ DigitsFrom(src, a, f) <= i /\ Span(src, a, DigitsFrom(src, a, f), i, T)
  BY <1>1, NumberHere DEF Reading
<1>4. i \in Nat /\ Cur = Char(src, a, i) /\ (pos.i + 1) - a = i + 1
  BY <1>1, NumberHere
<1>5. /\ UNCHANGED <<src, toks, start, base, kind>>
      /\ \/ Cur \in T /\ pos'.i = pos.i + 1 /\ pc' = "exp_digits"
         \/ Cur \notin T /\ pos'.i = pos.i /\ pc' = "suffix"
  <2>1. While("exp_digits", T, "suffix") /\ NUL \notin T
    BY <1>1, NumberHere DEF ExponentDigits
  <2> HIDE DEF T
  <2> QED
    BY <2>1, WhileCases DEF WInv
<1>6. DigitsFrom(src, a, f) \in Nat /\ f < DigitsFrom(src, a, f)
  BY DEF DigitsFrom
<1>7. CASE Cur \in T /\ pos'.i = pos.i + 1 /\ pc' = "exp_digits"
  <2>1. pos'.i - a = i + 1
    BY <1>4, <1>7
  <2> HIDE DEF i
  <2>2. DigitsFrom(src, a, f) <= i + 1
    BY <1>3, <1>4, <1>6
  <2>3. Span(src, a, DigitsFrom(src, a, f), i + 1, T)
    BY <1>3, <1>4, <1>6, <1>7, SpanNext
  <2>4. \E x, g \in Nat :
          /\ MantissaDone(src, a, x) /\ FractionDone(src, a, x, g)
          /\ Char(src, a, g) \in Marker(BaseAt(src, a))
          /\ DigitsFrom(src, a, g) <= i + 1 /\ Span(src, a, DigitsFrom(src, a, g), i + 1, T)
    BY <1>3, <2>2, <2>3
  <2> QED
    BY <1>2, <1>5, <1>7, <2>1, <2>4 DEF ReadAfter, Reading, Numeric
<1>8. CASE Cur \notin T /\ pos'.i = pos.i /\ pc' = "suffix"
  <2>1. ExponentDone(src, a, f, i)
    BY <1>3, <1>4, <1>8 DEF ExponentDone
  <2>2. m # i
    <3>1. m <= f
      BY <1>3 DEF FractionDone
    <3> QED
      BY <1>3, <1>4, <1>6, <3>1
  <2> HIDE DEF i
  <2>3. \E x, g \in Nat :
          /\ MantissaDone(src, a, x) /\ FractionDone(src, a, x, g) /\ ExponentDone(src, a, g, i)
          /\ kind = IF x = i THEN "INT" ELSE "FLOAT"
    BY <1>2, <1>3, <2>1, <2>2
  <2> QED
    BY <1>2, <1>5, <1>8, <2>3 DEF ReadAfter, Reading, Numeric, i
<1> QED
  BY <1>5, <1>7, <1>8

LEMMA SuffixReads ==
  ASSUME LexAssumption, WInv, Suffix
  PROVE  ReadAfter
<1> DEFINE a == start.i
           i == pos.i - start.i
           j == pos'.i - start.i
<1>1. pc = "suffix" /\ pc \in Numeric
  BY DEF Suffix, Optional, Numeric
<1>2. NumberAt(src, a)
  BY <1>1, NumberHere DEF Reading
<1>3. PICK m \in Nat, f \in Nat :
        /\ MantissaDone(src, a, m) /\ FractionDone(src, a, m, f) /\ ExponentDone(src, a, f, i)
        /\ kind = IF m = i THEN "INT" ELSE "FLOAT"
  BY <1>1, NumberHere DEF Reading
<1>4. i \in Nat /\ Cur = Char(src, a, i) /\ (pos.i + 1) - a = i + 1
  BY <1>1, NumberHere
<1>5. /\ UNCHANGED <<src, toks, start, base>> /\ pc' = "emit"
      /\ \/ Cur \in {"i", "I"} /\ pos'.i = pos.i + 1 /\ kind' = "FLOAT"
         \/ Cur \notin {"i", "I"} /\ pos'.i = pos.i /\ kind' = kind
  <2>1. Optional("suffix", {"i", "I"}, "emit", "emit", "FLOAT") /\ NUL \notin {"i", "I"}
    BY <1>1, NumberHere DEF Suffix
  <2> QED
    BY <2>1, OptionalCases DEF WInv
<1>6. SuffixDone(src, a, i, j) /\ kind' = IF m = j THEN "INT" ELSE "FLOAT"
  <2>1. CASE Cur \in {"i", "I"} /\ pos'.i = pos.i + 1 /\ kind' = "FLOAT"
    <3>1. j = i + 1
      BY <1>4, <2>1
    <3>2. m <= i
      <4>1. m <= f
        BY <1>3 DEF FractionDone
      <4>2. DigitsFrom(src, a, f) \in Nat /\ f < DigitsFrom(src, a, f)
        BY DEF DigitsFrom
      <4>3. f <= i
        BY <1>3, <1>4, <4>2 DEF ExponentDone
      <4> QED
        BY <1>4, <4>1, <4>3
    <3> HIDE DEF i, j
    <3>3. m # j
      BY <1>4, <3>1, <3>2
    <3> QED
      BY <1>4, <2>1, <3>1, <3>3 DEF SuffixDone
  <2>2. CASE Cur \notin {"i", "I"} /\ pos'.i = pos.i /\ kind' = kind
    BY <1>3, <1>4, <2>2 DEF SuffixDone
  <2> QED
    BY <1>5, <2>1, <2>2
<1>7. CompleteNumber(src, a, j, kind')
  <2> HIDE DEF i, j
  <2> QED
    BY <1>2, <1>3, <1>4, <1>6 DEF CompleteNumber
<1> QED
  BY <1>5, <1>7 DEF ReadAfter, Reading, Numeric, Complete

\* The steps that begin a token: of one character, or of none.
LEMMA BeginReads ==
  ASSUME LexAssumption, WInv, BeginComment \/ BeginName \/ BeginNumber \/ BeginSymbol
  PROVE  /\ UNCHANGED <<src, toks>>
         /\ Reading(src, start'.i, pos'.i - start'.i, pc', kind', base')
<1> DEFINE a == pos.i
<1>1. TypeOK /\ Placed(src, pos)
  BY DEF WInv, IInv
<1>2. /\ src \in Seq(STRING) /\ Len(src) \in Nat /\ a \in Nat /\ Cur = CharAt(src, a)
      /\ a + 0 = a /\ a - a = 0 /\ (a + 1) - a = 1
  BY <1>1, SourceType
<1>3. Cur = Char(src, a, 0)
  BY <1>2 DEF Char
<1>4. UNCHANGED <<src, toks>> /\ start' = pos /\ pos.i < Len(src)
  BY DEF BeginComment, BeginName, BeginNumber, BeginSymbol, Begin, Keep
<1>5. pos' = Advanced => pos'.i - start'.i = 1
  BY <1>1, <1>2, <1>4, AdvancedPlace
<1>6. pos' = pos => pos'.i - start'.i = 0
  BY <1>2, <1>4
<1>7. ASSUME NEW S, Cur \in S
      PROVE  Span(src, a, 0, 1, S)
  BY <1>3, <1>7 DEF Span
<1>8. ASSUME NEW S
      PROVE  Span(src, a, 0, 0, S)
  BY SpanNone
<1>9. CASE BeginComment
  <2>1. pc' = "comment" /\ kind' = "COMMENT" /\ Cur = "#" /\ pos' = pos
    BY <1>9 DEF BeginComment, Begin, Goto
  <2> QED
    BY <1>3, <1>4, <1>6, <1>8, <2>1 DEF Reading, Numeric
<1>10. CASE BeginName
  <2>1. pc' = "name" /\ kind' = "NAME" /\ Cur \in NameStart /\ pos' = Advanced
    BY <1>10 DEF BeginName, Begin, Goto, ADV
  <2>2. Cur \in NamePart
    BY <2>1 DEF NamePart
  <2> QED
    BY <1>3, <1>4, <1>5, <1>7, <2>1, <2>2 DEF Reading, Numeric
<1>11. CASE BeginNumber
  <2>1. kind' = "INT" /\ base' = 10
    BY <1>11 DEF BeginNumber
  <2>2. CASE Cur = "0"
    <3>1. pc' = "base" /\ pos' = Advanced
      BY <1>11, <2>2 DEF BeginNumber, Begin, Goto, ADV
    <3> QED
      BY <1>3, <1>4, <1>5, <2>1, <2>2, <3>1 DEF Reading, Numeric
  <2>3. CASE Cur # "0"
    <3>1. pc' = "digits" /\ pos' = pos
      BY <1>11, <2>3 DEF BeginNumber, Begin, Goto
    <3>2. At(pos.i + 1) = Char(src, a, 1)
      BY DEF At, Char, CharAt
    <3>3. NumberAt(src, a)
      BY <1>3, <1>11, <3>2 DEF BeginNumber, NumberAt
    <3>4. BaseAt(src, a) = 10 /\ PrefixAt(src, a) = 0
      BY <1>3, <2>3 DEF BaseAt, PrefixAt, Prefixed
    <3>5. Span(src, a, 0, 0, Digits(BaseAt(src, a)))
      BY <1>8
    <3> QED
      BY <1>4, <1>6, <2>1, <3>1, <3>3, <3>4, <3>5 DEF Reading, Numeric
  <2> QED
    BY <2>2, <2>3
<1>12. CASE BeginSymbol
  <2>1. pc' = "emit" /\ kind' = Symbol[Cur] /\ Cur \in DOMAIN Symbol /\ pos' = Advanced
    BY <1>12 DEF BeginSymbol, Begin, Goto, ADV
  <2>2. CompleteSymbol(src, a, 1, kind')
    BY <1>3, <2>1 DEF CompleteSymbol
  <2> QED
    BY <1>4, <1>5, <2>1, <2>2 DEF Reading, Numeric, Complete
<1> QED
  BY <1>4, <1>9, <1>10, <1>11, <1>12

\* EMIT stores a word.
LEMMA EmitWords ==
  ASSUME LexAssumption, WInv, Emit
  PROVE  WordsSo(src, toks') /\ UNCHANGED src /\ ~InToken(pc')
<1> DEFINE t == Token(kind, start, pos)
<1>1. /\ pc = "emit" /\ toks' = Append(toks, t) /\ UNCHANGED src
      /\ pc' \in {"done", "loop"}
  BY DEF Emit, Goto
<1>2. InToken(pc) /\ IInv /\ TypeOK /\ WordsSo(src, toks) /\ toks \in Seq(Tokens)
  BY <1>1 DEF WInv, IInv, InToken, TypeOK
<1>3. /\ t.kind = kind /\ t.posb = start.i /\ t.lenb = pos.i - start.i
  BY DEF Token
<1>4. kind # "EOF" => /\ Complete(src, t.posb, t.lenb, t.kind) /\ Has(src, t.posb, t.lenb)
  <2>1. kind # "EOF" => Reading(src, start.i, pos.i - start.i, pc, kind, base)
    BY <1>2 DEF WInv
  <2>2. Has(src, start.i, pos.i - start.i)
    BY <1>2, Cursor
  <2>3. kind # "EOF" => Complete(src, start.i, pos.i - start.i, kind)
    BY <1>1, <2>1 DEF Reading
  <2> HIDE DEF t
  <2> QED
    BY <1>3, <2>2, <2>3
<1> HIDE DEF t
<1>5. /\ Len(toks) \in Nat /\ Len(toks') = Len(toks) + 1
      /\ toks'[Len(toks) + 1] = t
      /\ \A k \in 1..Len(toks) : toks'[k] = toks[k]
  BY <1>1, <1>2
<1>6. ASSUME NEW k \in 1..Len(toks'), toks'[k].kind # "EOF"
      PROVE  /\ Has(src, toks'[k].posb, toks'[k].lenb)
             /\ Complete(src, toks'[k].posb, toks'[k].lenb, toks'[k].kind)
  <2>1. CASE k \in 1..Len(toks)
    BY <1>2, <1>5, <1>6, <2>1 DEF WordsSo
  <2>2. CASE k = Len(toks) + 1
    BY <1>3, <1>4, <1>5, <1>6, <2>2
  <2>3. k \in 1..Len(toks) \/ k = Len(toks) + 1
    BY <1>5
  <2> QED
    BY <2>1, <2>2, <2>3
<1>7. WordsSo(src, toks')
  BY <1>6 DEF WordsSo
<1> QED
  BY <1>1, <1>7 DEF InToken

LEMMA InitWords ==
  ASSUME LexAssumption, Init
  PROVE  WInv
<1>1. IInv
  BY InitInv
<1>2. toks = <<>> /\ pc = "loop"
  BY DEF Init
<1>3. WordsSo(src, toks)
  BY <1>2 DEF WordsSo
<1> QED
  BY <1>1, <1>2, <1>3 DEF WInv, InToken

LEMMA NextWords ==
  ASSUME LexAssumption, WInv, [Next]_vars
  PROVE  WInv'
<1>1. IInv /\ WordsSo(src, toks) /\ IInv'
  BY NextInv DEF WInv
<1>2. ASSUME UNCHANGED <<src, toks>>, ~InToken(pc') \/ kind' = "EOF"
      PROVE  WInv'
  BY <1>1, <1>2 DEF WInv
<1>3. ASSUME UNCHANGED <<src, toks>>,
             Reading(src, start'.i, pos'.i - start'.i, pc', kind', base')
      PROVE  WInv'
  BY <1>1, <1>3 DEF WInv
<1>4. ASSUME ReadAfter
      PROVE  WInv'
  <2>1. UNCHANGED <<src, toks>> /\ Reading(src, start'.i, pos'.i - start'.i, pc', kind', base')
    BY <1>4 DEF ReadAfter
  <2> QED
    BY <1>3, <2>1
<1>5. CASE SkipWhite \/ BadCharacter
  BY <1>2, <1>5 DEF SkipWhite, BadCharacter, Begin, Goto, Keep, InToken
<1>6. CASE BeginComment \/ BeginName \/ BeginNumber \/ BeginSymbol
  BY <1>3, <1>6, BeginReads
<1>7. CASE EndOfSource
  BY <1>2, <1>7 DEF EndOfSource, Keep
<1>8. CASE Comment
  BY <1>4, <1>8, CommentReads
<1>9. CASE Name
  <2>1. CASE pc' = "abort"
    <3>1. UNCHANGED <<src, toks>>
      BY <1>9 DEF Name, While, Keep
    <3> QED
      BY <1>2, <2>1, <3>1 DEF InToken
  <2>2. CASE pc' # "abort"
    BY <1>4, <1>9, <2>2, NameReads
  <2> QED
    BY <2>1, <2>2
<1>10. CASE Base \/ Mantissa \/ Point \/ Fraction
  BY <1>4, <1>10, BaseReads, MantissaReads, PointReads, FractionReads
<1>11. CASE Exponent \/ Sign \/ ExponentDigits \/ Suffix
  BY <1>4, <1>11, ExponentReads, SignReads, ExponentDigitsReads, SuffixReads
<1>12. CASE Emit
  <2>1. WordsSo(src, toks') /\ UNCHANGED src /\ ~InToken(pc')
    BY <1>12, EmitWords
  <2> QED
    BY <1>1, <2>1 DEF WInv
<1>13. CASE EmitFails
  BY <1>2, <1>13 DEF EmitFails, Goto, Keep, InToken
<1>14. CASE UNCHANGED vars
  BY <1>1, <1>14 DEF WInv, vars
<1> QED
  BY <1>5, <1>6, <1>7, <1>8, <1>9, <1>10, <1>11, <1>12, <1>13, <1>14 DEF Next

\* The text of a token is a part of the source, and not empty.
LEMMA WordInside ==
  ASSUME WInv, NEW k \in 1..Len(toks), toks[k].kind # "EOF"
  PROVE  /\ toks[k].posb + 1 \in 1..Len(src)
         /\ End(toks[k]) \in (toks[k].posb + 1)..Len(src)
<1> DEFINE a == toks[k].posb
           l == toks[k].lenb
<1>1. Has(src, a, l)
  BY DEF WInv, WordsSo
<1>2. l # 0
  BY DEF WInv, IInv, Tiled, TokenOK
<1>3. a \in Nat /\ l \in Nat \ {0} /\ a + l <= Len(src) /\ Len(src) \in Nat
  BY <1>1, <1>2 DEF Has
<1> HIDE DEF a, l
<1>4. a + 1 \in 1..Len(src) /\ a + l \in (a + 1)..Len(src)
  BY <1>3
<1> QED
  BY <1>4 DEF End, a, l

\* The invariant says that a token is a word no longer one begins with.
LEMMA WordsLongest ==
  ASSUME LexAssumption, WInv
  PROVE  LongestMatch
<1>1. ASSUME NEW k \in 1..Len(toks), toks[k].kind # "EOF"
      PROVE  /\ KindsOf(Text(toks[k])) = {toks[k].kind}
             /\ \A n \in (toks[k].lenb + 1)..(Len(src) - toks[k].posb) :
                  KindsOf(SubSeq(src, toks[k].posb + 1, toks[k].posb + n)) = {}
  <2> DEFINE a == toks[k].posb
             l == toks[k].lenb
  <2>1. Has(src, a, l) /\ Complete(src, a, l, toks[k].kind)
    BY <1>1 DEF WInv, WordsSo
  <2>2. l # 0
    BY <1>1 DEF WInv, IInv, Tiled, TokenOK
  <2>3. l > 0
    BY <2>1, <2>2 DEF Has
  <2>4. Text(toks[k]) = Piece(src, a, l)
    BY DEF Text, End, Piece
  <2>5. OnlyWord(src, a, l, toks[k].kind)
    BY <2>1, <2>3, CompleteOnly
  <2> QED
    BY <2>4, <2>5 DEF OnlyWord, Piece
<1> QED
  BY <1>1 DEF LongestMatch

\* Each token of ks_lex, of any source, is a word of the language of the kind it is given, and
\* of no other, and no longer text at its place is a word: the scan, which looks one
\* character ahead and never goes back, splits the source as the definition of its words does.
THEOREM Longest ==
  ASSUME LexAssumption
  PROVE  Spec => []LongestMatch
<1>1. Init => WInv
  BY InitWords
<1>2. WInv /\ [Next]_vars => WInv'
  BY NextWords
<1>3. WInv => LongestMatch
  BY WordsLongest
<1> QED
  BY <1>1, <1>2, <1>3, PTL DEF Spec
=============================================================================

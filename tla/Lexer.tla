-------------------------------- MODULE Lexer --------------------------------
(***************************************************************************)
(* The lexer of KataScript: ks_lex of src/ks/lex.c.                        *)
(*                                                                         *)
(* The source is a sequence of characters; a character is a one-letter     *)
(* string, or one of NUL and High.  The state between two tests of CUR is  *)
(* the point of execution pc, the position ADV maintains, the position the *)
(* token began at, and the tokens emitted.  Every step tests the current   *)
(* character once and advances at most once.                               *)
(***************************************************************************)
EXTENDS Words, FiniteSets

CONSTANTS
  Sources,    \* the texts to lex; bound: their length and their characters
  MayFail     \* whether kmem_make and kmem_grow may return an error

\* Of the constants.
LexAssumption == MayFail \in BOOLEAN /\ \A s \in Sources : s \in Seq(STRING)

VARIABLES
  src,      \* the source
  pos,      \* i, line and col, advanced together by ADV
  start,    \* i_start, line_start and col_start
  base,     \* the base of the number being read
  kind,     \* the kind of the token being read
  toks,     \* (*ptoks)[0..res-1]
  res_max,  \* the elements *ptoks has room for
  pc        \* the point of execution; "done", "error" (-1) and "abort" are final
vars == <<src, pos, start, base, kind, toks, res_max, pc>>

\* struct ks_tok and the arguments of ks_tok_new.
Token(k, from, to) ==
  [kind |-> k, posb |-> from.i, lenb |-> to.i - from.i,
   line |-> from.line, col |-> from.col, lenc |-> to.col - from.col]

\* CUR and NEXT: the source is NUL-terminated.
At(k) == IF k < Len(src) THEN src[k + 1] ELSE NUL
Cur   == At(pos.i)

\* Mutant of Advanced: the column is not reset at the end of a line.
Advanced_KeepsCol ==
  IF pos.i >= Len(src) THEN pos
  ELSE [pos EXCEPT !.i = @ + 1, !.col = @ + 1, !.line = IF Cur = "\n" THEN @ + 1 ELSE @]

\* ADV: one character on, unless at the end.
Advanced ==
  IF pos.i >= Len(src) THEN pos
  ELSE IF Cur = "\n" THEN [i |-> pos.i + 1, line |-> pos.line + 1, col |-> 0]
  ELSE [pos EXCEPT !.i = @ + 1, !.col = @ + 1]
ADV == pos' = Advanced

Init ==
  /\ src \in Sources
  /\ pos = [i |-> 0, line |-> 0, col |-> 0]
  /\ start = pos
  /\ base = 10 /\ kind = "EOF"
  /\ toks = <<>> /\ res_max = 0
  /\ pc = "loop"

Goto(next) == pc' = next
Keep  == UNCHANGED <<src, toks, res_max>>

-----------------------------------------------------------------------------
\* The body of the loop tests what begins at the current character, in the
\* order of the code.
Begin(next) ==
  /\ pc = "loop" /\ pos.i < Len(src)
  /\ start' = pos
  /\ Goto(next)
  /\ Keep

SkipWhite == Cur \in White /\ Begin("loop") /\ ADV /\ UNCHANGED <<base, kind>>

BeginComment ==
  /\ Cur = "#" /\ Begin("comment")
  /\ kind' = "COMMENT" /\ UNCHANGED <<pos, base>>

BeginName ==
  /\ Cur \in NameStart /\ Begin("name") /\ ADV
  /\ kind' = "NAME" /\ UNCHANGED base

BeginNumber ==
  /\ Cur \in Digits(10) \/ (Cur = "." /\ At(pos.i + 1) \in Digits(10))
  /\ Begin(IF Cur = "0" THEN "base" ELSE "digits")
  /\ IF Cur = "0" THEN ADV ELSE UNCHANGED pos
  /\ kind' = "INT" /\ base' = 10

BeginSymbol ==
  /\ Cur \in DOMAIN Symbol /\ Begin("emit") /\ ADV
  /\ kind' = Symbol[Cur] /\ UNCHANGED base

\* Any other character ends the program: kexit(-1), or the assertion of
\* myis_names for a byte from 128 on.
BadCharacter ==
  /\ Cur \notin White \cup NameStart \cup Digits(10) \cup DOMAIN Symbol \cup {"#"}
  /\ ~(Cur = "." /\ At(pos.i + 1) \in Digits(10))
  /\ Begin("abort")
  /\ UNCHANGED <<pos, base, kind>>

\* Mutant of EndOfSource: the last character is taken for the terminator.
EndOfSource_OneEarly ==
  /\ pc = "loop" /\ pos.i >= Len(src) - 1
  /\ start' = pos /\ kind' = "EOF"
  /\ Goto("emit") /\ Keep /\ UNCHANGED <<pos, base>>

\* The end of the loop: a final EOF token.
EndOfSource ==
  /\ pc = "loop" /\ pos.i >= Len(src)
  /\ start' = pos /\ kind' = "EOF"
  /\ Goto("emit") /\ Keep /\ UNCHANGED <<pos, base>>

-----------------------------------------------------------------------------
\* while (CUR is in chars) ADV(), and then on to next.
While(at, chars, next) ==
  /\ pc = at /\ Keep /\ UNCHANGED <<start, base, kind>>
  /\ IF Cur \in chars /\ pos.i < Len(src)
     THEN ADV /\ UNCHANGED pc
     ELSE Goto(next) /\ UNCHANGED pos

\* if (CUR is in chars) ADV(), which makes the token a k, and go to yes or no.
Optional(at, chars, yes, no, k) ==
  /\ pc = at /\ Keep /\ UNCHANGED <<start, base>>
  /\ IF Cur \in chars
     THEN ADV /\ Goto(yes) /\ kind' = k
     ELSE Goto(no) /\ UNCHANGED <<pos, kind>>

\* Mutant of Comment: only the newline ends it.
Comment_NoEnd ==
  /\ pc = "comment" /\ Keep /\ UNCHANGED <<start, base, kind>>
  /\ IF Cur # "\n" THEN ADV /\ UNCHANGED pc ELSE Goto("emit") /\ UNCHANGED pos

Comment == While("comment", {At(k) : k \in 0..(Len(src) - 1)} \ {"\n"}, "emit")

\* myis_name asserts that the character after a name is below 128.
Name ==
  IF Cur = High
  THEN pc = "name" /\ Goto("abort") /\ Keep /\ UNCHANGED <<pos, start, base, kind>>
  ELSE While("name", NamePart, "emit")

\* The character after a leading 0 chooses the base.
Base ==
  /\ pc = "base"
  /\ base' = BaseOf(Cur)
  /\ IF BaseOf(Cur) # 10 THEN ADV ELSE UNCHANGED pos
  /\ Goto("digits") /\ Keep /\ UNCHANGED <<start, kind>>

Mantissa       == While("digits", Digits(base), "point")
Point          == Optional("point", {"."}, "fraction", "exponent", "FLOAT")
Fraction       == While("fraction", Digits(base), "exponent")
Exponent       == Optional("exponent", Marker(base), "sign", "suffix", "FLOAT")

\* Mutant of Sign: the exponent has no sign.
Sign_None      == Optional("sign", {}, "exp_digits", "exp_digits", kind)

Sign           == Optional("sign", {"+", "-"}, "exp_digits", "exp_digits", kind)
ExponentDigits == While("exp_digits", Digits(10), "suffix")
Suffix         == Optional("suffix", {"i", "I"}, "emit", "emit", "FLOAT")

-----------------------------------------------------------------------------
\* Mutant of Emit: grows one token too late.
Emit_Late ==
  LET newres == Len(toks) + 1
  IN  /\ pc = "emit"
      /\ res_max' = IF newres > res_max + 1 THEN newres * 2 ELSE res_max
      /\ toks' = Append(toks, Token(kind, start, pos))
      /\ Goto(IF kind = "EOF" THEN "done" ELSE "loop")
      /\ UNCHANGED <<src, pos, start, base, kind>>

\* EMIT: a new token, for which the array grows to twice what is needed; the
\* EOF token is the last.
Emit ==
  LET newres == Len(toks) + 1
  IN  /\ pc = "emit"
      /\ res_max' = IF newres > res_max THEN newres * 2 ELSE res_max
      /\ toks' = Append(toks, Token(kind, start, pos))
      /\ Goto(IF kind = "EOF" THEN "done" ELSE "loop")
      /\ UNCHANGED <<src, pos, start, base, kind>>

\* ks_tok_new or kmem_grow fails: -1, and the token is not stored.
EmitFails ==
  /\ pc = "emit" /\ MayFail
  /\ Goto("error")
  /\ Keep /\ UNCHANGED <<pos, start, base, kind>>

Next ==
  \/ SkipWhite \/ BeginComment \/ BeginName \/ BeginNumber \/ BeginSymbol
  \/ BadCharacter \/ EndOfSource
  \/ Comment \/ Name \/ Base \/ Mantissa \/ Point \/ Fraction
  \/ Exponent \/ Sign \/ ExponentDigits \/ Suffix
  \/ Emit \/ EmitFails

\* ks_lex is one call in one thread: once entered, it keeps executing.
Spec == Init /\ [][Next]_vars /\ WF_vars(Next)

-----------------------------------------------------------------------------
Positions == [i: 0..Len(src), line: Nat, col: Nat]
Kinds == {"EOF", "COMMENT", "INT", "FLOAT", "NAME"} \cup {Symbol[c] : c \in DOMAIN Symbol}
Tokens == [kind: Kinds, posb: Nat, lenb: Nat, line: Nat, col: Nat, lenc: Nat]

\* Types, and no token is stored past the array.
TypeOK ==
  /\ src \in Sources
  /\ pos \in Positions /\ start \in Positions
  /\ base \in {2, 8, 10, 16} /\ kind \in Kinds
  /\ toks \in Seq(Tokens) /\ res_max \in Nat /\ Len(toks) <= res_max
  /\ pc \in {"loop", "comment", "name", "base", "digits", "point", "fraction", "exponent",
             "sign", "exp_digits", "suffix", "emit", "done", "error", "abort"}

End(t) == t.posb + t.lenb
Text(t) == SubSeq(src, t.posb + 1, End(t))

\* Only white space lies between byte p and byte q.
OnlyWhite(p, q) == p <= q /\ \A k \in p..(q - 1) : At(k) \in White

\* Reference: the line of a byte is the number of newlines before it, its
\* column the distance from the last of them.
LineOf(p) == Cardinality({k \in 0..(p - 1) : At(k) = "\n"})
ColOf(p)  == CHOOSE c \in 0..p :
               /\ \A k \in (p - c)..(p - 1) : At(k) # "\n"
               /\ c = p \/ At(p - c - 1) = "\n"

\* The tokens tile the source: each begins where the one before it ended, but
\* for white space, none but EOF is empty, and nothing is left out up to the
\* token being read.  What ks_parse gets is the whole text, in order.  The lines and
\* columns that ADV counts by hand, across comments and newlines, are those a
\* reader of the text would give; lenc is a length because no token contains a
\* newline.
TilesSource ==
  /\ \A k \in 1..Len(toks) :
       /\ OnlyWhite(IF k = 1 THEN 0 ELSE End(toks[k - 1]), toks[k].posb)
       /\ toks[k].lenb = 0 <=> toks[k].kind = "EOF"
       /\ toks[k].kind = "EOF" => k = Len(toks) /\ toks[k].posb = Len(src)
       /\ toks[k].line = LineOf(toks[k].posb) /\ toks[k].col = ColOf(toks[k].posb)
       /\ toks[k].lenc = toks[k].lenb
  /\ pc = "loop" => OnlyWhite(IF toks = <<>> THEN 0 ELSE End(toks[Len(toks)]), pos.i)
  /\ pc = "done" => toks # <<>> /\ toks[Len(toks)].kind = "EOF"
  /\ pos.line = LineOf(pos.i) /\ pos.col = ColOf(pos.i)

\* Each token is a word of the language, of the kind it is given, and the
\* longest there is at its place: the scan, which looks one character ahead and never
\* goes back, splits a text as its definition does.
LongestMatch ==
  \A k \in 1..Len(toks) : LET t == toks[k] IN t.kind # "EOF" =>
    /\ KindsOf(Text(t)) = {t.kind}
    /\ \A n \in (t.lenb + 1)..(Len(src) - t.posb) :
         KindsOf(SubSeq(src, t.posb + 1, t.posb + n)) = {}
=============================================================================

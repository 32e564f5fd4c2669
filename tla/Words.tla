-------------------------------- MODULE Words --------------------------------
(***************************************************************************)
(* The words of KataScript: the classes of characters src/ks/lex.c tests   *)
(* for, and, as a reference, the definition of a word of each kind.  A     *)
(* text is a sequence of characters, each a one-letter string, or one of   *)
(* NUL, High and VT.                                                       *)
(***************************************************************************)
EXTENDS Integers, Sequences

NUL  == "NUL"    \* the terminator of a kstr, which a source may also contain
High == "HIGH"   \* any byte from 128 on

White == {" ", "\t", "VT", "\n"}
Upper == {"A", "B", "C", "D", "E", "F", "G", "H", "I", "J", "K", "L", "M",
          "N", "O", "P", "Q", "R", "S", "T", "U", "V", "W", "X", "Y", "Z"}
Lower == {"a", "b", "c", "d", "e", "f", "g", "h", "i", "j", "k", "l", "m",
          "n", "o", "p", "q", "r", "s", "t", "u", "v", "w", "x", "y", "z"}

\* myis_digit: the digits of a base.
Digits(base) ==
  CASE base = 2  -> {"0", "1"}
    [] base = 8  -> {"0", "1", "2", "3", "4", "5", "6", "7"}
    [] base = 10 -> {"0", "1", "2", "3", "4", "5", "6", "7", "8", "9"}
    [] base = 16 -> {"0", "1", "2", "3", "4", "5", "6", "7", "8", "9",
                     "a", "b", "c", "d", "e", "f", "A", "B", "C", "D", "E", "F"}

\* myis_names and myis_name, both of which assert that c is below 128.
NameStart == Upper \cup Lower \cup {"_"}
NamePart  == NameStart \cup Digits(10)

\* The letter after a leading 0 that chooses a base; 10 without one.
BaseOf(c) ==
  CASE c \in {"b", "B"} -> 2 [] c \in {"o", "O"} -> 8 [] c \in {"x", "X"} -> 16
    [] OTHER -> 10

\* The letter that begins an exponent.
Marker(base) == IF base = 10 THEN {"e", "E"} ELSE {"p", "P"}

Symbol == [c \in {"(", ")", "+", "-", "*", "/", "^"} |->
  CASE c = "(" -> "LPAR" [] c = ")" -> "RPAR" [] c = "+" -> "PLUS" [] c = "-" -> "MINUS"
    [] c = "*" -> "STAR" [] c = "/" -> "SLASH" [] c = "^" -> "UP"]

-----------------------------------------------------------------------------
\* Reference: the texts of a number, cut into a prefix, mantissa, fraction,
\* exponent and suffix, each of which but the first two makes it a FLOAT.
Over(s, S) == \A k \in DOMAIN s : s[k] \in S
NumberKinds(s) ==
  LET prefixed == Len(s) > 1 /\ s[1] = "0" /\ BaseOf(s[2]) # 10
      b == IF prefixed THEN BaseOf(s[2]) ELSE 10
      p == IF prefixed THEN 2 ELSE 0
      n == Len(s)
      Cut(m, f, e) ==
        /\ Over(SubSeq(s, p + 1, m), Digits(b))
        /\ m < f => s[m + 1] = "." /\ Over(SubSeq(s, m + 2, f), Digits(b))
        /\ f < e =>
             LET d == IF f + 2 <= e /\ s[f + 2] \in {"+", "-"} THEN f + 3 ELSE f + 2
             IN  s[f + 1] \in Marker(b) /\ Over(SubSeq(s, d, e), Digits(10))
        /\ e < n => e = n - 1 /\ s[n] \in {"i", "I"}
  IN  IF s[1] \in Digits(10) \/ (s[1] = "." /\ n > 1 /\ s[2] \in Digits(10))
      THEN {IF m = n THEN "INT" ELSE "FLOAT" : m \in
              {m \in p..n : \E f \in m..n : \E e \in f..n : Cut(m, f, e)}}
      ELSE {}

\* The kinds a non-empty text has in the language.
KindsOf(s) ==
  CASE s[1] \in NameStart -> IF Over(s, NamePart) THEN {"NAME"} ELSE {}
    [] s[1] = "#" -> IF Over(s, STRING \ {"\n"}) THEN {"COMMENT"} ELSE {}
    [] s[1] \in DOMAIN Symbol -> IF Len(s) = 1 THEN {Symbol[s[1]]} ELSE {}
    [] OTHER -> NumberKinds(s)
=============================================================================

----------------------------- MODULE ScriptValues -----------------------------
(***************************************************************************)
(* What a statement is worth, and that its evaluation comes to that.  The  *)
(* reference starts from the characters of the text (or the tokens, or the *)
(* tree, when a client hands those over) and takes nothing from the lexer, *)
(* the parser or the evaluator: words by Words, the tree by Grammar, the   *)
(* numbers by a table, and ordinary arithmetic.  It is recursive, so that  *)
(* nothing can be proved about it: hence a module apart from Script.       *)
(***************************************************************************)
EXTENDS Script, Grammar

CONSTANT Worth   \* the words of numbers in the language: word -> halves

\* The words of a text, each the longest there is at its place; blanks and comments
\* separate them, and a newline is one of them.
RECURSIVE Reading(_)
Reading(s) ==
  LET ends == {n \in DOMAIN s : KindsOf(SubSeq(s, 1, n)) # {}}
      end  == CHOOSE n \in ends : \A m \in ends : m <= n
      word == SubSeq(s, 1, end)
      rest == Reading(SubSeq(s, end + 1, Len(s)))
  IN  CASE s = <<>> -> <<EOF>>
        [] s # <<>> /\ s[1] = "\n" -> <<"\n">> \o Reading(Tail(s))
        [] s # <<>> /\ s[1] \in White \ {"\n"} -> Reading(Tail(s))
        [] OTHER -> IF KindsOf(word) = {"COMMENT"} THEN rest ELSE <<Word(word)>> \o rest

\* What is evaluated: a client's tree, or the statement the words begin with.
Said ==
  LET ts == IF lex_pc = "idle" THEN toks ELSE Reading(src)
  IN  IF pc = "idle" THEN Shape(ret) ELSE CHOOSE t \in Begun(ts, Longest(ts)) : TRUE

-----------------------------------------------------------------------------
\* A meaning: a number, in halves; nothing (a division by zero); an object that is no
\* number; the end of the program; or unknown, since it depends on a function or the
\* number is not tracked.
Is(what) == [is |-> what, num |-> 0]
Amount(n) == IF n \in (-MaxNum)..MaxNum THEN [is |-> "number", num |-> n] ELSE Is("unknown")

Arithmetic(op, a, b) ==
  CASE op = "ADD" -> IF (a + b) % 2 = 0 THEN Amount(a + b) ELSE Is("stop")   \* a sum is an int
    [] op = "MUL" -> IF (a * b) % 2 = 0 THEN Amount((a * b) \div 2) ELSE Is("unknown")
    [] op = "DIV" -> IF b = 0 THEN Is("nothing")
                     ELSE IF (2 * a) % b = 0 THEN Amount((2 * a) \div b) ELSE Is("unknown")
    [] op = "POW" -> IF b = 2 THEN Amount(a)
                     ELSE IF b \in {4, 6} /\ a % 2 = 0 THEN Amount(2 * (a \div 2)^(b \div 2)) ELSE Is("unknown")

\* Operands have their turn from left to right, and the first without a value decides;
\* so does one whose meaning is unknown.  What is no function cannot be called, and
\* names and the other operators cannot be evaluated.
RECURSIVE Meaning(_)
Meaning(t) ==
  LET of(k) == Meaning(t.subs[k])
      bad   == {k \in DOMAIN t.subs : of(k).is \notin {"number", "func", "str"}}
      first == CHOOSE k \in bad : \A j \in bad : k <= j
  IN  CASE t.kind = "VAL" -> LET w == t.subs[1].kind
                             IN  IF w \in DOMAIN Worth THEN Amount(Worth[w]) ELSE Is(IF w \in Objects THEN w ELSE "unknown")
        [] t.kind \notin {"VAL", "CALL", "ADD", "MUL", "DIV", "POW"} -> Is("stop")
        [] t.kind \in {"CALL", "ADD", "MUL", "DIV", "POW"} /\ bad # {} -> of(first)
        [] t.kind = "CALL" /\ bad = {} -> Is(IF of(1).is = "func" THEN "unknown" ELSE "stop")
        [] OTHER -> IF of(1).is # "number" \/ of(2).is # "number" THEN Is("stop")
                    ELSE Arithmetic(t.kind, of(1).num, of(2).num)

\* With memory enough a statement evaluates to what it says, from its characters on: to its
\* number in ordinary arithmetic, through the bounds of the words, the precedence of the
\* operators and the order of the operands; to nothing where it divides by zero; and it
\* ends the program only for a name, an operator not supported, an operand that is no
\* number, or a sum that is not whole.
ValueRight ==
  eval_pc \in {"done", "abort", "wild"} /\ ~starved =>
    LET m == Meaning(Said)
    IN  CASE m.is = "number"  -> eval_pc = "done" /\ E!Number(val) /\ val.num = m.num
          [] m.is = "nothing" -> eval_pc = "done" /\ val = E!NULL
          [] m.is = "stop"    -> eval_pc = "abort"
          [] m.is \in Objects -> eval_pc = "done" /\ val.type = m.is
          [] m.is = "unknown" -> TRUE
=============================================================================

------------------------------- MODULE ScriptMC -------------------------------
(***************************************************************************)
(* Every short text over the characters the lexer tells apart, and longer  *)
(* ones over those of a number; texts of chosen statements go on to the    *)
(* parser.  All short sequences of tokens, expressions of four operands    *)
(* and chosen longer ones.  Trees of two operators over all kinds of       *)
(* constants.                                                              *)
(***************************************************************************)
EXTENDS ScriptValues, ParserMC

\* One or two characters of each class, the letters that mean something in a number
\* among them.
Characters ==
  {" ", "\n", "#", "_", "0", "1", ".", "(", "+", "e", "x", "i", "$", NUL, High}

\* What a number is made of.
NumberCharacters == {"0", "1", ".", "b", "e", "-"}

Strings(chars, n) == UNION {[1..k -> chars] : k \in 0..n}

\* Statements, as character sequences.
MCPrograms == Strings({"1", "+", "^", "(", ")"}, 4) \cup {
  <<"2", " ", "*", " ", "3", " ", "+", " ", "4", "*", "5">>,
  <<"2", "^", "1", "^", "3", "\n", "1">>, <<"2", "+", "1", "#", "x">>, <<"#", "x", "\n", "1">>,
  <<"1", ".", "5", "*", "2">>, <<"0", "x", "1", "1", "+", "1">>, <<"1", ".", "5", "0", "*", "0", "b", "1">>,
  <<"8", ".", "0", "/", "0", "2", ".", "0", "i">>, <<"1", "/", "0">>, <<"1", "e", "1", "*", "2">>,
  <<"f", "(", "x", ")", "(", "1", ")">>, <<"r", "e", "t", " ", "1", "\n">>, <<"i", "f", " ", "x", "1">>}

MCTexts == Strings(Characters, 3) \cup Strings(NumberCharacters, 4) \cup MCPrograms \cup
  {<<"1", ".", "1", "e", "-", "1", "i", "1">>, <<"0", "b", "1", ".", "1", "p", "+", "2", "i">>,
   <<".", "1", "e", "1", ".", "1">>, <<"0", "x", "e", "+", "1", "p", "-", "1", "e", "1">>}

\* The words of numbers among the tokens below and those of the programs.
MCSpelling ==
  ("0" :> <<"0">>) @@ ("1" :> <<"1">>) @@ ("2" :> <<"2">>) @@ ("3" :> <<"3">>) @@ ("4" :> <<"4">>) @@
  ("5" :> <<"5">>) @@ ("11" :> <<"1", "1">>) @@ ("111" :> <<"1", "1", "1">>) @@
  ("1111" :> <<"1", "1", "1", "1">>) @@ ("1.5" :> <<"1", ".", "5">>) @@ ("8.0" :> <<"8", ".", "0">>) @@
  ("0x11" :> <<"0", "x", "1", "1">>) @@ ("0b1" :> <<"0", "b", "1">>) @@ ("1e1" :> <<"1", "e", "1">>) @@
  ("1.50" :> <<"1", ".", "5", "0">>) @@ ("02.0i" :> <<"0", "2", ".", "0", "i">>)

\* What they are worth.  0x11, 0b1, 1e1 and 02.0i are missing: the lexer takes prefixes, exponents
\* and suffixes for part of a number, but no meaning is given to them yet ("TODO: parse" in the
\* atom rule, which has kint_new read base 10: 0x11 becomes 0).
MCWorth ==
  ("0" :> 0) @@ ("1" :> 2) @@ ("2" :> 4) @@ ("3" :> 6) @@ ("4" :> 8) @@ ("5" :> 10) @@ ("11" :> 22) @@
  ("111" :> 222) @@ ("1111" :> 2222) @@ ("1.5" :> 3) @@ ("8.0" :> 16) @@ ("1.50" :> 3)

Vocabulary == {"1", "x", "+", "*", "^", "=", "(", ")", ",", ".", "ret", ";", "import", "#"}

Some == {"|", "=", "-", "*", "^"}
All  == UNION {DOMAIN Operators[r] : r \in Levels}

Expressions ==
  {<<"1", a, "2", b, "x", c, "3">> : a \in Some, b \in Some, c \in Some} \cup
  {<<"1", a, "1.5", b, "x">> : a \in All, b \in All}

Chosen == {
  <<"f", "(", "1", ",", "x", "+", "2", ")", "*", "3">>,
  <<"f", "(", "f", "(", "1", ",", ")", ")", "^", "2">>,
  <<"x", ".", "f", "(", "1", ")", "(", "2", ")">>,
  <<"x", ".", "x", ".", "f", "=", "x", ".", "f">>,
  <<"throw", "f", "(", "1", ")", ";">>, <<"throw", "1", "1">>, <<"throw", "\n">>,
  <<"import", "f", "\n", "x">>, <<"ret", "x", "-", "1", "\n">>,
  <<"break">>, <<"cont">>, <<"while">>, <<"for">>, <<"try">>,
  <<"if", "x", ",", "1">>, <<"if", "x", "1">>, <<"if", "x", ",", "import", "f">>,
  <<"if", "x", ",", "1", "elif", "f", ",", "2", "else", "3">>,
  <<"if", "x", ",", "1", "else", "{", "2", "}">>,
  <<"if", "x", ",", "1", "else", "import", "x">>,
  <<"if", "x", "{", ";", "1", ";", "\n", "import", "f", ";", "ret", "x", ";", "}">>,
  <<"if", "x", "{", "1", ";", "x", "import", "f", "1">>,
  <<"if", "x", "{", "1", "2">>
} \cup {CallOf(n) : n \in {8, 9, 19, 20}}

ShortTokens == UNION {[1..n -> Vocabulary] : n \in 0..3} \cup
  [1..4 -> {"1", "^", "-", "(", ")"}] \cup Expressions \cup Chosen

MCResults == {[type |-> "int", num |-> 2], [type |-> "float", num |-> 1]}

Constant(text) == [Node("VAL", {}, <<>>) EXCEPT !.subs = <<Value(text)>>]
Leaves == {Constant(t) : t \in {"0", "2", "1.5", "func"}}
Pairs(A, B) == {Node(op, {}, <<a, b>>) : op \in {"ADD", "MUL", "DIV", "POW", "CALL"}, a \in A, b \in B}
MCTrees ==
  Pairs(Leaves, Pairs(Leaves, Leaves)) \cup Pairs(Pairs(Leaves, Leaves), Leaves) \cup
  Pairs({Constant("8.0"), Constant("str")}, {Constant("str"), Constant("3")}) \cup
  {Node("CALL", {}, <<Constant("func")>>),
   Node("ADD", {}, <<Constant("2"), Node("CALL", {}, <<Constant("func"), Constant("2"), Constant("0")>>)>>)}

\* The trees and what they consist of.
Below(S) == S \cup UNION {ToSet(n.subs) : n \in {m \in S : m.kind # "VAL"}}
MCNodes == Below(Below(MCTrees))
=============================================================================

------------------------------ MODULE OutputText ------------------------------
(***************************************************************************)
(* What is printed, compared with the text of the value.  The reference is *)
(* a recursive operator, about which nothing can be proved: hence a module *)
(* apart from Output.                                                      *)
(***************************************************************************)
EXTENDS Output

\* Reference: the text of a value, built from the texts of its parts.
RECURSIVE Shown(_)
Joined(texts) ==
  IF texts = <<>> THEN <<>> ELSE FoldLeft(LAMBDA acc, t : acc \o <<",", " ">> \o t, texts[1], Tail(texts))
ShownAll(els) == Joined([k \in DOMAIN els |-> Shown(els[k])])
Decimal(n) == IF n < 10 THEN <<Kdigits[n + 1]>> ELSE <<Kdigits[n \div 10 + 1], Kdigits[(n % 10) + 1]>>
Shown(o) ==
  CASE o.type = "str" -> <<"\"">> \o FlattenSeq([k \in DOMAIN o.val |-> Kescstr(o.val[k])]) \o <<"\"">>
    [] o.type = "tuple" -> <<"(">> \o ShownAll(o.val) \o (IF Len(o.val) = 1 THEN <<",", " ", ")">> ELSE <<")">>)
    [] o.type = "list" -> <<"[">> \o ShownAll(o.val) \o <<"]">>
    [] o.type = "ast" -> <<"a", "d", "d", "(">> \o ShownAll(o.val) \o <<")">>
    [] o.type = "tok" -> <<"t", "(">> \o Joined([k \in 1..2 |-> Decimal(o.val[k])]) \o <<")">>
    [] o.type = "dict" ->
         <<"{">> \o Joined([k \in DOMAIN o.val |-> Shown(o.val[k][1]) \o <<":", " ">> \o Shown(o.val[k][2])]) \o <<"}">>
    [] OTHER -> o.val

\* What the first directive of the last call and its argument stand for.
Conv == Calls[call].fmt[1].conv
Arg  == Calls[call].args[1]
Text ==
  Calls[call].fmt[1].text \o
  CASE Conv = "R" -> Shown(Arg)
    [] Conv = "J" -> ShownAll(Arg.val)
    [] Conv = "Y" -> IF Arg.type = "null" THEN <<>> ELSE <<",", " ">> \o Shown(Arg)

\* If nothing was cut short, what has arrived is the text of the whole value, or, when -1 is
\* returned, a beginning of it: also for nested objects, escapes that go out in several
\* portions, and growth of the buffer in between.
TextRight ==
  pc = "ready" /\ call # 0 /\ ~short =>
    (Conv \in {"R", "J", "Y"} => IsPrefix(Text, out) \/ (result < 0 /\ IsPrefix(out, Text)))
=============================================================================

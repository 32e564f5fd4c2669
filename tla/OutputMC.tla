------------------------------- MODULE OutputMC -------------------------------
(***************************************************************************)
(* Instances of Output: directives, objects and buffers small enough to    *)
(* write every combination of results, and strings around the size of the  *)
(* escaping writer's array.                                                *)
(***************************************************************************)
EXTENDS OutputText

Str(b)       == [type |-> "str", val |-> b]
Times(n, b)  == [k \in 1..n |-> b]
Int12        == [type |-> "int", val |-> <<"1", "2">>]
Float        == [type |-> "float", val |-> <<"0", ".", "5">>]
Of(t, els)   == [type |-> t, val |-> els]
Null         == [type |-> "null", val |-> <<>>]
Ab           == Str(<<"a", "\n", "HIGH">>)
Func         == Of("func", <<>>)
Pair(a, b)   == Of("tuple", <<a, b>>)
Single       == Of("tuple", <<Int12>>)
Table        == Of("dict", << <<Ab, Float>>, <<Int12, Of("list", <<>>)>> >>)
Tree         == Of("ast", <<Of("tuple", <<>>), Of("tok", <<7, 12>>)>>)
Nested       == Of("list", <<Single, Table, Tree>>)

\* n plain bytes and the quote fill the array to TMP_EVERY or less; escapes of four bytes and
\* of two cross it.
Long(n) == Str(Times(n, "a") \o Times(5, "HIGH") \o <<"\n", "a">>)

One(d, arg)   == [fmt |-> <<d>>, args |-> <<arg>>]
D(conv)       == Directive(<<"x">>, conv)
Plain(conv)   == Directive(<<>>, conv)

MCObjects ==
  {Int12, Float, Null, Ab, Func, Single, Table, Tree, Nested, Pair(Int12, Ab), Pair(Ab, Ab),
   Of("tuple", <<>>), Of("list", <<>>), Of("tok", <<7, 12>>), Of("ast", <<Ab>>), Of("list", <<Int12, Int12>>)} \cup
  {Long(n) : n \in {4, 5, 7, 8}}

MCCalls == <<
  One(Plain("R"), Nested), One(D("J"), Pair(Int12, Ab)), One(D("Y"), Nested), One(D("Y"), Null),
  One(Plain("R"), Long(4)), One(Plain("R"), Long(5)), One(Plain("R"), Long(7)), One(Plain("R"), Long(8)),
  One(Plain("R"), Func), One(Plain("S"), Ab), One(Plain("S"), Pair(Ab, Ab)),
  One(Plain("S"), Func), One(Plain("B"), Ab), One(Plain("B"), Int12),
  One(D("i"), 7), One(D("u"), 1205), One(D("v"), 0), One(D("s"), <<"s">>), One(D("p"), 171),
  One(Plain("f"), <<"1", ".", "5", "0", "0">>), One(Plain("f"), <<"1", "0", ".", "0", "0">>),
  One(Plain("O"), Int12), One(Plain("?"), 0), One([D("i") EXCEPT !.width = 5], 7), One([D("u") EXCEPT !.width = -2], 7),
  One([D("p") EXCEPT !.prec = 2], 7), One([D("i") EXCEPT !.flags = FALSE], 7),
  [fmt |-> <<D("%"), Plain("R"), D("")>>, args |-> <<0, Of("ast", <<Ab>>), 0>>],
  [fmt |-> <<Plain("R"), D("i")>>, args |-> <<Of("list", <<Int12, Int12>>), 10>>]
>>

MCTexts == {<<"p">>, <<"q", "r", "s", "t">>}
===============================================================================

------------------------------- MODULE ParserMC -------------------------------
(***************************************************************************)
(* Chosen statements, for what the comments of the parser claim of them.   *)
(***************************************************************************)
EXTENDS Grammar

\* A call with n arguments.
CallOf(n) == <<"f", "(">> \o [k \in 1..(2 * n - 1) |-> IF k % 2 = 1 THEN "1" ELSE ","] \o <<")">>

\* The callee and 18, 19 and 20 arguments in one buffer.
LongCalls == {CallOf(n) : n \in 18..20}

\* An attribute, called, and what it returns called again.
CalledTwice == {<<"x", ".", "f", "(", "1", ")", "(", "2", ")", ";">>}
=============================================================================

-------------------------------- MODULE Grammar --------------------------------
(***************************************************************************)
(* The grammar of KataScript, as a reference for Parser: the rules written *)
(* in the comment at the head of src/ks/parse.c (lines 21 to 115) and the  *)
(* nodes listed in ks.h, and nothing taken from the functions that parse.  *)
(*                                                                         *)
(* It has the rules ks_parse has any code for.  Left out are the levels E2 *)
(* to E7, the prefixes, the ++, -- and [] of E12, the atoms but INT, FLOAT *)
(* and NAME, blocks, and the statements that end in an assertion ('if',   *)
(* 'while', 'for', 'try', 'break', 'cont' and the empty one).  E1 lacks    *)
(* the )* the other levels have, and is read with it.                      *)
(***************************************************************************)
EXTENDS Parser

Tree(kind, subs) == [kind |-> kind, subs |-> subs]

\* What a node the parser has made says: its kind and its subs.
RECURSIVE Shape(_)
Shape(node) == Tree(node.kind, [k \in DOMAIN node.subs |-> Shape(node.subs[k])])

\* The binary levels, with the level of their operands and their operators.
Rules == [
  E0  |-> [of |-> "E1",  ops |-> {"|", "&"}],
  E1  |-> [of |-> "E8",  ops |-> {"=", "+=", "-=", "*=", "/=", "%=", "^=", "@="}],
  E8  |-> [of |-> "E9",  ops |-> {"+", "-"}],
  E9  |-> [of |-> "E10", ops |-> {"*", "/", "//", "%", "@"}],
  E10 |-> [of |-> "E12", ops |-> {"^"}]]

NodeOf == [o \in UNION {Rules[r].ops : r \in DOMAIN Rules} |->
  CASE o = "|" -> "PIPE" [] o = "&" -> "AND" [] o = "=" -> "EQ" [] o = "+=" -> "ADDEQ"
    [] o = "-=" -> "SUBEQ" [] o = "*=" -> "MULEQ" [] o = "/=" -> "DIVEQ" [] o = "%=" -> "MODEQ"
    [] o = "^=" -> "POWEQ" [] o = "@=" -> "MATMULEQ" [] o = "+" -> "ADD" [] o = "-" -> "SUB"
    [] o = "*" -> "MUL" [] o = "/" -> "DIV" [] o = "//" -> "FLOORDIV" [] o = "%" -> "MOD"
    [] o = "@" -> "MATMUL" [] o = "^" -> "POW"]

\* A token as a node of its own.
Leaf(t) == CASE KindOf(t) = "NAME" -> {Tree("NAME", <<Tree(t, <<>>)>>)}
             [] KindOf(t) \in {"INT", "FLOAT"} -> {Tree("VAL", <<Tree(t, <<>>)>>)}
             [] OTHER -> {}

\* The trees of the tokens lo..hi of ts as each rule; "ARGS" is what may be between
\* parentheses, "LIST" at least one argument.  A level is a chain of operands: the rules
\* leave open how it groups, which is to the left, as usual, and for powers to the right.
Parses(ts) ==
  LET D[r \in DOMAIN Rules \cup {"E12", "ARGS", "LIST"}, lo \in 1..Len(ts), hi \in 0..Len(ts)] ==
        CASE r = "E12" ->
               UNION {
                 IF lo = hi THEN Leaf(ts[lo]) ELSE {},
                 IF hi < lo + 2 \/ ts[hi - 1] # "." \/ KindOf(ts[hi]) # "NAME" THEN {}
                 ELSE {Tree("ATTR", <<a, Tree(ts[hi], <<>>)>>) : a \in D["E12", lo, hi - 2]},
                 IF ts[hi] # ")" THEN {}
                 ELSE UNION {UNION {{Tree("CALL", <<f>> \o args) : args \in D["ARGS", m + 1, hi - 1]} :
                                      f \in D["E12", lo, m - 1]} :
                               m \in {m \in (lo + 1)..(hi - 1) : ts[m] = "("}}}
          [] r = "ARGS" -> IF lo > hi THEN {<<>>} ELSE D["LIST", lo, hi]
          [] r = "LIST" ->
               {<<a>> : a \in D["E0", lo, hi]} \cup
               UNION {UNION {{<<a>> \o rest : rest \in D["LIST", m + 1, hi]} : a \in D["E0", lo, m - 1]} :
                        m \in {m \in (lo + 1)..(hi - 1) : ts[m] = ","}}
          [] OTHER ->
               LET of == Rules[r].of
               IN  D[of, lo, hi] \cup
                   UNION {UNION {{Tree(NodeOf[ts[m]], <<a, b>>) : b \in D[IF r = "E10" THEN r ELSE of, m + 1, hi]} :
                                   a \in D[IF r = "E10" THEN of ELSE r, lo, m - 1]} :
                            m \in {m \in (lo + 1)..(hi - 1) : ts[m] \in Rules[r].ops}}
  IN  D

\* The trees of the first hi tokens as a statement, its separator among them.
Statements(ts, hi) ==
  IF ts[hi] \notin Separators THEN {}
  ELSE CASE ts[1] = "import" -> {Tree("IMPORT", <<a>>) : a \in IF hi # 3 THEN {} ELSE {l \in Leaf(ts[2]) : l.kind = "NAME"}}
         [] ts[1] = "ret" /\ hi = 2 -> {Tree("RET", <<>>)}
         [] ts[1] = "throw" /\ hi = 2 -> {Tree("THROW", <<>>)}
         [] ts[1] = "ret" /\ hi > 2 -> {Tree("RET", <<a>>) : a \in Parses(ts)["E0", 2, hi - 1]}
         [] ts[1] = "throw" /\ hi > 2 -> {Tree("THROW", <<a>>) : a \in Parses(ts)["E0", 2, hi - 1]}
         [] ts[1] \in Keywords \ {"import", "ret", "throw"} -> {}
         [] OTHER -> IF hi = 1 THEN {} ELSE Parses(ts)["E0", 1, hi - 1]

\* The trees of the first hi tokens, for an expression without its separator.
Begun(ts, hi) == IF ts[1] \in Keywords THEN Statements(ts, hi) ELSE Parses(ts)["E0", 1, hi]

\* The length of the longest beginning of ts that the grammar knows, or 0.
Longest(ts) ==
  CHOOSE n \in 0..Len(ts) :
    /\ n > 0 => Begun(ts, n) # {}
    /\ \A m \in (n + 1)..Len(ts) : Begun(ts, m) = {}

-----------------------------------------------------------------------------
\* Where ks_parse is known not to follow the grammar: attributes, a second call in a row
\* (StatementsRead), and a comma before ')', which it accepts.
Departs ==
  \E k \in 1..(Len(toks) - 1) : toks[k] = "." \/ <<toks[k], toks[k + 1]>> \in {<<")", "(">>, <<",", ")">>}

\* Elsewhere ks_parse reads what the grammar says.  It takes the longest beginning that is a
\* statement and returns its one tree, operators bound by their levels and each to its side;
\* an expression need not have its separator, which is left.  It refuses, by NULL or an assertion,
\* only if there is no such beginning, memory was short, or what follows the expression is no
\* separator and not the end; a failure never yields part of a tree.
ReadsAsGrammar ==
  pc \in {"done", "abort"} /\ toks[1] # "if" /\ ~Departs =>
    LET n        == Longest(toks)
        refused  == pc = "abort" \/ ret = NULL
        complete == toks[1] \in Keywords \/ toks[n + 1] \in Separators \cup {EOF}
    IN  IF n = 0 THEN refused \/ ret.broken
        ELSE \/ refused /\ (Failed \/ ~complete)
             \/ ~refused /\ (ret.broken \/ (toki = n + 1 /\ Begun(toks, n) = {Shape(ret)}))

\* A statement of the grammar is returned as its tree, and all its tokens are taken.
StatementsRead ==
  LET n == Len(toks) - 1
  IN  pc \notin {"idle", "run"} /\ n > 0 /\ Statements(toks, n) # {} =>
        pc = "done" /\ toki = n + 1 /\ Statements(toks, n) = {Shape(ret)}
=============================================================================

-------------------------------- MODULE Script --------------------------------
(***************************************************************************)
(* A statement from its text to its value, as test/ks.c runs it: ks_parse, *)
(* which calls ks_lex unless it is given tokens, then kvm_eval on the      *)
(* tree, if there is one.  A client may also hand over tokens no text has  *)
(* (the lexer knows few symbols), or evaluate a tree it has built itself   *)
(* with ks_ast_wrap and ks_ast_newz, the only way to a function.           *)
(***************************************************************************)
EXTENDS Parser, Words

CONSTANTS
  Texts,       \* texts to lex
  Programs,    \* bound: those of them whose tokens go on to the parser
  Spelling,    \* the characters of the words of numbers
  Trees,       \* trees clients build
  Nodes,       \* the nodes these consist of
  Results,     \* bound: the values a called function may return
  MaxNum,      \* bound: numbers that are tracked, in halves
  Other,       \* a number that is not
  OutOfMemory  \* whether the lexer's and the evaluator's allocations may fail

VARIABLES
  src, pos, start, base, kind, lex_toks, res_max, lex_pc,  \* of ks_lex
  calls, val, refs, starved, eval_pc                                \* of kvm_eval

L == INSTANCE Lexer WITH Sources <- Texts, MayFail <- OutOfMemory, toks <- lex_toks, pc <- lex_pc

Number(type, n) == [type |-> type, num |-> n]

\* A text as a word.
Word(s) == FoldLeft(LAMBDA w, c : w \o c, "", s)

\* kint_new and kfloat_new read a literal to base 10 as far as it goes: a prefix
\* such as 0x ends it, and so does an i; exponents are not tracked.
Digit == [c \in Digits(10) |-> CHOOSE d \in 0..9 : ToString(d) = c]
Run(s, k) == CHOOSE n \in (k - 1)..Len(s) :
  /\ \A j \in k..n : s[j] \in Digits(10)
  /\ n = Len(s) \/ s[n + 1] \notin Digits(10)
Read(s) ==
  LET m     == Run(s, 1)
      whole == FoldLeft(LAMBDA n, c : 10 * n + Digit[c], 0, SubSeq(s, 1, m))
      f     == IF m < Len(s) /\ s[m + 1] = "." THEN Run(s, m + 2) ELSE m
      half  == \A k \in (m + 2)..f : s[k] = IF k = m + 2 THEN "5" ELSE "0"
      type  == IF KindsOf(s) = {"INT"} THEN "int" ELSE "float"
  IN  Number(type, IF f < Len(s) /\ s[f + 1] \in Marker(10) THEN Other
                   ELSE IF \A k \in (m + 2)..f : s[k] = "0" THEN 2 * whole
                   ELSE IF half THEN 2 * whole + 1 ELSE Other)

\* What a client's trees hold besides numbers.
Objects == {"func", "str"}
Literals == [w \in DOMAIN Spelling \cup Objects |->
  IF w \in Objects THEN Number(w, 0) ELSE Read(Spelling[w])]

E == INSTANCE Eval WITH tree <- ret, pc <- eval_pc

\* Clients build their trees of constants and other nodes.
NodesAssumption ==
  LET Inner == {n \in Nodes : n.kind # "VAL"}
  IN  /\ Trees \cup UNION {ToSet(n.subs) : n \in Inner} \subseteq Nodes
      /\ \A n \in Nodes : n.size \in Nat /\ n.subs \in Seq(ToSet(n.subs))
      /\ \A n \in Nodes \ Inner : n.subs[1].kind \in DOMAIN Literals

\* Numbers are spelled, and Ints, Floats and Names hold words of their kinds.
WordsAssumption ==
  /\ Ints \cup Floats \subseteq DOMAIN Spelling
  /\ \A s \in Programs : \A i \in 1..Len(s) : \A j \in i..Len(s) :
       LET kd == KindOf(Word(SubSeq(s, i, j)))
       IN  kd \in {"NAME", "INT", "FLOAT"} => KindsOf(SubSeq(s, i, j)) = {kd}

ASSUME ScriptAssumption ==
  L!LexAssumption /\ E!EvalAssumption /\ NodesAssumption /\ WordsAssumption

lex_vars  == <<src, pos, start, base, kind, lex_toks, res_max, lex_pc>>
eval_vars == <<calls, val, refs, starved, eval_pc>>
all_vars  == <<vars, lex_vars, eval_vars>>

-----------------------------------------------------------------------------
\* Not called yet.
NoEval == calls = <<>> /\ val = E!NULL /\ refs = 0 /\ starved = FALSE /\ eval_pc = "idle"
NoLex ==
  /\ src = <<>> /\ pos = [i |-> 0, line |-> 0, col |-> 0] /\ start = pos
  /\ base = 10 /\ kind = "EOF" /\ lex_toks = <<>> /\ res_max = 0 /\ lex_pc = "idle"
NoParse ==
  /\ toks = <<EOF>> /\ toki = 1 /\ stack = <<>>
  /\ lost = 0 /\ fails = MaxFails /\ pc = "idle"

ScriptInit ==
  /\ NoEval
  /\ \/ L!Init /\ NoParse /\ ret = NULL /\ live = 0
     \/ NoLex /\ Init
     \/ NoLex /\ NoParse /\ ret \in Trees /\ live = ret.size

Lex == pc = "idle" /\ lex_pc # "idle" /\ L!Next /\ UNCHANGED <<vars, eval_vars>>

\* ks_parse goes on with the tokens of ks_lex, or returns NULL when it has failed.
Words == [k \in DOMAIN lex_toks |-> IF lex_toks[k].kind = EOF THEN EOF ELSE Word(L!Text(lex_toks[k]))]
Lexed ==
  /\ pc = "idle"
  /\ \/ /\ lex_pc = "done" /\ src \in Programs
        /\ toks' = Words /\ stack' = <<Frame("STMT")>> /\ pc' = "run"
     \/ /\ lex_pc = "error"
        /\ pc' = "done" /\ UNCHANGED <<toks, stack>>
  /\ UNCHANGED <<toki, ret, memory, lex_vars, eval_vars>>

Parse == pc = "run" /\ Next /\ UNCHANGED <<lex_vars, eval_vars>>

\* The test asserts that ks_parse returned a tree.
Begin ==
  /\ pc \in {"done", "idle"} /\ eval_pc = "idle" /\ ret # NULL /\ ~ret.broken
  /\ calls' = <<E!Frame(ret)>> /\ eval_pc' = "run"
  /\ UNCHANGED <<vars, lex_vars, val, refs, starved>>

Evaluate == eval_pc = "run" /\ E!Next /\ UNCHANGED <<toks, toki, stack, memory, pc, lex_vars>>

ScriptNext == Lex \/ Lexed \/ Parse \/ Begin \/ Evaluate

\* One call after the other in one thread: once entered, each keeps executing.
ScriptSpec == ScriptInit /\ [][ScriptNext]_all_vars /\ WF_all_vars(ScriptNext)

-----------------------------------------------------------------------------
\* The lexer's properties are those of Lexer, while it runs (its state does not change afterwards).
Lexing == lex_pc # "idle" /\ pc = "idle"

\* The tokens of ks_lex leave nothing out, overlap nowhere and end with EOF; the lines
\* and columns ADV counts by hand are those of the text.
TilesSource == Lexing => L!TilesSource

\* Each token is the longest word there is at its place, and of its kind.
LongestMatch == Lexing => L!LongestMatch

\* ks_parse tests the kinds ks_lex has given.
KindsGiven ==
  lex_pc = "done" /\ src \in Programs =>
    \A k \in DOMAIN lex_toks : KindOf(Words[k]) \in {"NAME", "INT", "FLOAT"} => KindOf(Words[k]) = lex_toks[k].kind

\* The types of the lexer (no token is stored past the array EMIT has grown), the parser
\* and the evaluator; ks_parse tests the kinds ks_lex has given.
ScriptTypeOK ==
  /\ Lexing => L!TypeOK
  /\ TypeOK /\ (eval_pc # "idle" => E!TypeOK)
  /\ KindsGiven

\* Every reference the evaluation takes is held by a frame or is on its way to a caller.
EvalBalanced == E!EvalBalanced

\* All three calls end, whatever the text, the tokens and the tree.
Finished ==
  \/ lex_pc = "abort" \/ (lex_pc = "done" /\ src \notin Programs)
  \/ pc \in {"abort", "wild"} \/ (pc = "done" /\ (ret = NULL \/ ret.broken))
  \/ eval_pc \in {"done", "abort", "wild"}
ScriptEnds == <>Finished
=============================================================================

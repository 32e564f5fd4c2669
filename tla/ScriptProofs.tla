----------------------------- MODULE ScriptProofs -----------------------------
(***************************************************************************)
(* Proofs about a statement on its way from text to value: the proofs of   *)
(* the lexer, the parser and the evaluator, put together as Script runs    *)
(* the three, for all texts, tokens, trees and values.                     *)
(***************************************************************************)
EXTENDS Script, ParserProofs

LP == INSTANCE LexerProofs WITH Sources <- Texts, MayFail <- OutOfMemory, toks <- lex_toks, pc <- lex_pc
EP == INSTANCE EvalProofs WITH tree <- ret, pc <- eval_pc

(***************************************************************************)
(* The lexer and the evaluator that Script runs (L, E) are those of which  *)
(* LexerProofs and EvalProofs speak (LP, EP): the same definitions.        *)
(***************************************************************************)


LEMMA SameNext == LP!Next <=> L!Next
BY DEF LP!Next, L!Next, LP!SkipWhite, L!SkipWhite, LP!BeginComment, L!BeginComment, LP!BeginName,
       L!BeginName, LP!BeginNumber, L!BeginNumber, LP!BeginSymbol, L!BeginSymbol, LP!BadCharacter,
       L!BadCharacter, LP!EndOfSource, L!EndOfSource, LP!Comment, L!Comment, LP!Name, L!Name,
       LP!Base, L!Base, LP!Mantissa, L!Mantissa, LP!Point, L!Point, LP!Fraction, L!Fraction,
       LP!Exponent, L!Exponent, LP!Sign, L!Sign, LP!ExponentDigits, L!ExponentDigits, LP!Suffix,
       L!Suffix, LP!Emit, L!Emit, LP!EmitFails, L!EmitFails, LP!Begin, L!Begin, LP!Cur, L!Cur,
       LP!At, L!At, LP!ADV, L!ADV, LP!Advanced, L!Advanced, LP!Goto, L!Goto, LP!Keep, L!Keep,
       LP!While, L!While, LP!Optional, L!Optional, LP!Token, L!Token, LP!White, L!White, LP!Upper,
       L!Upper, LP!Lower, L!Lower, LP!Digits, L!Digits, LP!NameStart, L!NameStart, LP!NamePart,
       L!NamePart, LP!BaseOf, L!BaseOf, LP!Marker, L!Marker, LP!Symbol, L!Symbol, LP!NUL, L!NUL,
       LP!High, L!High

LEMMA SameInit == LP!Init <=> L!Init
BY DEF LP!Init, L!Init

LEMMA SameTiles == LP!TilesSource <=> L!TilesSource
<1>1. \A k : LP!At(k) = L!At(k)
  BY DEF LP!At, L!At, LP!NUL, L!NUL
<1>2. ASSUME NEW p
      PROVE  LP!LineOf(p) = L!LineOf(p)
  BY DEF LP!Cardinality, L!Cardinality, LP!LineOf, L!LineOf, LP!At, L!At, LP!NUL, L!NUL
<1>3. ASSUME NEW p
      PROVE  LP!ColOf(p) = L!ColOf(p)
  BY DEF LP!ColOf, L!ColOf, LP!At, L!At, LP!NUL, L!NUL
<1>4. \A p, q : LP!OnlyWhite(p, q) <=> L!OnlyWhite(p, q)
  BY <1>1 DEF LP!OnlyWhite, L!OnlyWhite, LP!White, L!White
<1>5. \A t : LP!End(t) = L!End(t)
  BY DEF LP!End, L!End
<1> QED
  BY <1>2, <1>3, <1>4, <1>5 DEF LP!TilesSource, L!TilesSource

LEMMA SameLongest == LP!LongestMatch <=> L!LongestMatch
BY DEF LP!LongestMatch, L!LongestMatch, LP!KindsOf, L!KindsOf, LP!Text, L!Text, LP!End, L!End,
       LP!NameStart, L!NameStart, LP!Upper, L!Upper, LP!Lower, L!Lower, LP!NamePart, L!NamePart,
       LP!Digits, L!Digits, LP!Over, L!Over, LP!Symbol, L!Symbol, LP!NumberKinds, L!NumberKinds,
       LP!BaseOf, L!BaseOf, LP!Marker, L!Marker

LEMMA SameEval == EP!Next <=> E!Next
<1>1. (\A n : EP!Frame(n) = E!Frame(n)) /\ EP!Top = E!Top /\ EP!Kind = E!Kind /\ EP!NULL = E!NULL
      /\ EP!Exit = E!Exit /\ EP!Pointer = E!Pointer /\ EP!Binary = E!Binary
  BY DEF EP!Frame, E!Frame, EP!Top, E!Top, EP!Kind, E!Kind, EP!NULL, E!NULL, EP!Exit, E!Exit,
         EP!Pointer, E!Pointer, EP!Binary, E!Binary
<1>2. \A v, w : EP!With(v, w) = E!With(v, w)
  BY DEF EP!With, E!With, EP!Top, E!Top
<1>3. \A k, w : EP!Active(k, w) <=> E!Active(k, w)
  BY DEF EP!Active, E!Active, EP!Top, E!Top, EP!Kind, E!Kind
<1>4. \A v : EP!Return(v) <=> E!Return(v)
  BY DEF EP!Return, E!Return, EP!Top, E!Top, EP!NULL, E!NULL, EP!Front, E!Front
<1>5. \A s : EP!Stop(s) <=> E!Stop(s)
  BY DEF EP!Stop, E!Stop
<1>6. \A v : EP!Result(v) <=> E!Result(v)
  BY <1>1, <1>4, <1>5 DEF EP!Result, E!Result
<1>7. EP!ListCap = E!ListCap
  BY DEF EP!ListCap, E!ListCap, EP!kmem_nextcap, E!kmem_nextcap, EP!Pointer, E!Pointer
<1>8. \A k, a, b : EP!Apply(k, a, b) = E!Apply(k, a, b)
  BY DEF EP!Apply, E!Apply, EP!kop_add, E!kop_add, EP!kop_mul, E!kop_mul, EP!kop_div, E!kop_div,
         EP!kop_pow, E!kop_pow, EP!Whole, E!Whole, EP!NULL, E!NULL, EP!Exit, E!Exit, EP!Value,
         E!Value, EP!Number, E!Number, EP!Tracked, E!Tracked, EP!Made, E!Made, EP!Untracked,
         E!Untracked, EP!Tracks, E!Tracks
<1>9. \A f : EP!kcall(f) = E!kcall(f)
  BY DEF EP!kcall, E!kcall, EP!NULL, E!NULL, EP!Exit, E!Exit
<1>10. EP!Fed <=> E!Fed
  BY DEF EP!Fed, E!Fed
<1>11. /\ \A k : EP!Ready(k) <=> E!Ready(k)
       /\ \A v : EP!Number(v) <=> E!Number(v)
  BY <1>3, <1>1 DEF EP!Ready, E!Ready, EP!Number, E!Number
<1>12. /\ EP!EvalVal <=> E!EvalVal
       /\ EP!EvalUnsupported <=> E!EvalUnsupported
       /\ EP!EvalNoList <=> E!EvalNoList
  BY <1>1, <1>3, <1>4, <1>5, <1>10 DEF EP!EvalVal, E!EvalVal, EP!EvalUnsupported, E!EvalUnsupported, EP!EvalNoList,
         E!EvalNoList
<1>13. /\ EP!EvalOperand <=> E!EvalOperand
       /\ EP!EvalOperandDone <=> E!EvalOperandDone
  BY <1>1, <1>2, <1>3, <1>4, <1>7, <1>10 DEF EP!EvalOperand, E!EvalOperand, EP!EvalOperandDone, E!EvalOperandDone
<1>14. EP!EvalApply <=> E!EvalApply
  BY <1>1, <1>6, <1>8, <1>9, <1>10, <1>11 DEF EP!EvalApply, E!EvalApply
<1>15. EP!EvalNoMemory <=> E!EvalNoMemory
  BY <1>1, <1>4, <1>8, <1>11 DEF EP!EvalNoMemory, E!EvalNoMemory
<1> QED
  BY <1>12, <1>13, <1>14, <1>15 DEF EP!Next, E!Next

LEMMA SameRefs == EP!EvalBalanced <=> E!EvalBalanced
<1>1. \A f : EP!SumFunction(f) = E!SumFunction(f)
  BY DEF EP!SumFunction, E!SumFunction, EP!SumFunctionOnSet, E!SumFunctionOnSet,
         EP!FoldFunctionOnSet, E!FoldFunctionOnSet, EP!MapThenFoldSet, E!MapThenFoldSet
<1> QED
  BY <1>1 DEF EP!EvalBalanced, E!EvalBalanced, EP!NULL, E!NULL


(***************************************************************************)
(* The inductive invariant: the invariants of the three, each while it is  *)
(* active, and what they have not touched yet before that.                 *)
(***************************************************************************)
\* ks_parse has not made anything yet.
Fresh == stack = <<>> /\ ret = NULL /\ live = 0 /\ lost = 0

SInv ==
  /\ Lexing => LP!WInv /\ Fresh
  /\ IInv                             \* of the parser, says nothing while pc = "idle"
  /\ IF eval_pc = "idle" THEN NoEval ELSE EP!IInv

\* ks_lex and the rest of the state it leaves alone.
LEMMA LexerAssumed == LP!LexAssumption
BY ScriptAssumption DEF LP!LexAssumption, L!LexAssumption

\* The first rule, and the first call of kvm_eval.
LEMMA Entered ==
  stack = <<Frame("STMT")>> /\ ret = NULL /\ live = 0 /\ lost = 0 /\ pc = "run" => IInv
BY FirstFrame

LEMMA Begun ==
  (\E node : calls = <<E!Frame(node)>>) /\ val = E!NULL /\ refs = 0 /\ eval_pc = "run" => EP!IInv
BY EP!BeginInv DEF E!Frame, EP!Frame, E!NULL, EP!NULL

LEMMA InitScript ==
  ASSUME ScriptInit
  PROVE  SInv
<1>1. IF eval_pc = "idle" THEN NoEval ELSE EP!IInv
  BY DEF ScriptInit, NoEval
<1>2. CASE L!Init /\ NoParse /\ ret = NULL /\ live = 0
  <2>1. LP!WInv
    BY <1>2, SameInit, LexerAssumed, LP!InitWords
  <2>2. pc = "idle" /\ Fresh
    BY <1>2 DEF NoParse, Fresh
  <2>3. IInv
    BY <2>2 DEF IInv
  <2> QED
    BY <1>1, <1>2, <2>1, <2>2, <2>3 DEF SInv
<1>3. CASE NoLex /\ Init
  <2>1. ~Lexing
    BY <1>3 DEF NoLex, Lexing
  <2> QED
    BY <1>1, <1>3, <2>1, InitInv DEF SInv
<1>4. CASE NoLex /\ NoParse /\ ret \in Trees /\ live = ret.size
  <2>1. ~Lexing /\ pc = "idle"
    BY <1>4 DEF NoLex, NoParse, Lexing
  <2>2. IInv
    BY <2>1 DEF IInv
  <2> QED
    BY <1>1, <2>1, <2>2 DEF SInv
<1> QED
  BY <1>2, <1>3, <1>4 DEF ScriptInit

\* What a call leaves alone keeps its part of the invariant.
LEMMA ParserKept ==
  ASSUME IInv, UNCHANGED <<stack, ret, live, lost, pc>>
  PROVE  IInv'
BY DEF IInv, Top

LEMMA EvalKept ==
  ASSUME IF eval_pc = "idle" THEN NoEval ELSE EP!IInv, UNCHANGED eval_vars
  PROVE  (IF eval_pc = "idle" THEN NoEval ELSE EP!IInv)'
<1>1. UNCHANGED <<calls, val, refs, starved, eval_pc>>
  BY DEF eval_vars
<1>2. CASE eval_pc = "idle"
  BY <1>1, <1>2 DEF NoEval
<1>3. CASE eval_pc # "idle"
  BY <1>1, <1>3 DEF EP!IInv, EP!Top
<1> QED
  BY <1>2, <1>3

LEMMA LexerKept ==
  ASSUME LP!WInv, UNCHANGED lex_vars
  PROVE  LP!WInv'
<1>1. UNCHANGED LP!vars
  BY DEF LP!vars, lex_vars
<1> QED
  BY <1>1, LexerAssumed, LP!NextWords

LEMMA LexerStays ==
  ASSUME SInv, UNCHANGED <<stack, ret, live, lost, pc, lex_vars>>
  PROVE  (Lexing => LP!WInv /\ Fresh)'
<1>1. Lexing' => Lexing
  BY DEF Lexing, lex_vars
<1>2. LP!WInv => LP!WInv'
  BY LexerKept
<1>3. Fresh => Fresh'
  BY DEF Fresh, NULL
<1> QED
  BY <1>1, <1>2, <1>3 DEF SInv

\* The tree stays, and kvm_eval runs or has come to an end.
LEMMA EvalStatus ==
  ASSUME E!Next
  PROVE  UNCHANGED ret /\ eval_pc' # "idle"
BY DEF E!Next, E!EvalVal, E!EvalUnsupported, E!EvalNoList, E!EvalOperand, E!EvalOperandDone,
       E!EvalApply, E!EvalNoMemory, E!Ready, E!Active, E!Return, E!Stop, E!Result

LEMMA NextScript ==
  ASSUME SInv, [ScriptNext]_all_vars
  PROVE  SInv'
<1> DEFINE Evaluated == IF eval_pc = "idle" THEN NoEval ELSE EP!IInv
<1>1. IInv /\ Evaluated
  BY DEF SInv
<1>2. CASE Lex
  <2>1. Lexing /\ UNCHANGED vars /\ UNCHANGED eval_vars /\ [LP!Next]_(LP!vars)
    BY <1>2, SameNext DEF Lex, Lexing
  <2>2. LP!WInv'
    BY <2>1, LexerAssumed, LP!NextWords DEF SInv
  <2>3. UNCHANGED <<stack, ret, live, lost, pc>>
    BY <2>1 DEF vars
  <2>4. IInv' /\ Evaluated'
    BY <1>1, <2>1, <2>3, ParserKept, EvalKept
  <2>5. Fresh'
    BY <2>1, <2>3 DEF SInv, Fresh
  <2> QED
    BY <2>2, <2>4, <2>5 DEF SInv
<1>3. CASE Lexed
  <2>1. Lexing /\ Fresh
    BY <1>3 DEF Lexed, Lexing, SInv
  <2>2. ret' = NULL /\ live' = 0 /\ lost' = 0 /\ UNCHANGED eval_vars
    BY <1>3, <2>1 DEF Lexed, memory, Fresh
  <2>3. IInv'
    <3>1. CASE stack' = <<Frame("STMT")>> /\ pc' = "run"
      <4>1. (stack = <<Frame("STMT")>> /\ ret = NULL /\ live = 0 /\ lost = 0 /\ pc = "run" => IInv)'
        BY Entered, PTL
      <4> QED
        BY <2>2, <3>1, <4>1
    <3>2. CASE pc' = "done" /\ UNCHANGED <<toks, stack>>
      <4>1. stack' = <<>>
        BY <2>1, <3>2 DEF Fresh
      <4> QED
        BY <2>2, <3>2, <4>1 DEF IInv, NULL
    <3> QED
      BY <1>3, <3>1, <3>2 DEF Lexed
  <2>4. ~Lexing'
    BY <1>3 DEF Lexed, Lexing
  <2> QED
    BY <1>1, <2>2, <2>3, <2>4, EvalKept DEF SInv
<1>4. CASE Parse
  <2>1. pc = "run" /\ Next /\ UNCHANGED eval_vars
    BY <1>4 DEF Parse
  <2>2. IInv' /\ Evaluated'
    BY <1>1, <2>1, NextInv, EvalKept
  <2>3. ~Lexing'
    BY <2>1, NextStatus DEF Statuses, Lexing
  <2> QED
    BY <2>2, <2>3 DEF SInv
<1>5. CASE Begin
  <2>1. NoEval /\ UNCHANGED <<vars, lex_vars, val, refs>>
    BY <1>1, <1>5 DEF Begin
  <2>2. EP!IInv' /\ eval_pc' = "run"
    <3>1. calls' = <<E!Frame(ret)>> /\ val' = E!NULL /\ refs' = 0 /\ eval_pc' = "run"
      BY <1>5, <2>1 DEF Begin, NoEval
    <3>2. ((\E node : calls = <<E!Frame(node)>>) /\ val = E!NULL /\ refs = 0 /\ eval_pc = "run" => EP!IInv)'
      BY Begun, PTL
    <3> QED
      BY <3>1, <3>2 DEF E!NULL
  <2>3. IInv'
    BY <1>1, <2>1, ParserKept DEF vars
  <2>4. (Lexing => LP!WInv /\ Fresh)'
    BY <2>1, LexerStays DEF vars
  <2> QED
    BY <2>2, <2>3, <2>4 DEF SInv
<1>6. CASE Evaluate
  <2>1. UNCHANGED <<ret, stack, live, lost, pc, lex_vars>> /\ E!Next /\ eval_pc = "run"
    BY <1>6, EvalStatus DEF Evaluate, memory
  <2>2. EP!IInv /\ [EP!Next]_(EP!vars)
    BY <1>1, <2>1, SameEval
  <2>3. EP!IInv'
    BY <2>2, EP!NextInv
  <2>4. eval_pc' # "idle"
    BY <2>1, EvalStatus
  <2>5. IInv'
    BY <1>1, <2>1, ParserKept
  <2>6. (Lexing => LP!WInv /\ Fresh)'
    BY <2>1, LexerStays
  <2> QED
    BY <2>3, <2>4, <2>5, <2>6 DEF SInv
<1>7. CASE UNCHANGED all_vars
  <2>1. UNCHANGED <<vars, lex_vars, eval_vars>>
    BY <1>7 DEF all_vars
  <2>2. UNCHANGED <<stack, ret, live, lost, pc>>
    BY <2>1 DEF vars
  <2> QED
    BY <1>1, <2>1, <2>2, ParserKept, EvalKept, LexerStays DEF SInv
<1> QED
  BY <1>2, <1>3, <1>4, <1>5, <1>6, <1>7 DEF ScriptNext

(***************************************************************************)
(* What the invariant says of the properties of Script.                    *)
(***************************************************************************)

LEMMA ScriptTiles ==
  ASSUME SInv
  PROVE  TilesSource
<1>1. ASSUME LP!WInv
      PROVE  LP!TilesSource
  BY <1>1, LexerAssumed, LP!InvTiles DEF LP!WInv
<1> QED
  BY <1>1, SameTiles DEF SInv, TilesSource

LEMMA ScriptLongest ==
  ASSUME SInv
  PROVE  LongestMatch
<1>1. ASSUME LP!WInv
      PROVE  LP!LongestMatch
  BY <1>1, LexerAssumed, LP!WordsLongest
<1> QED
  BY <1>1, SameLongest DEF SInv, LongestMatch

LEMMA ScriptEvalBalanced ==
  ASSUME SInv
  PROVE  EvalBalanced
<1>1. CASE eval_pc = "idle"
  BY <1>1 DEF EvalBalanced, E!EvalBalanced
<1>2. CASE eval_pc # "idle"
  <2>1. EP!IInv
    BY <1>2 DEF SInv
  <2>2. EP!EvalBalanced
    BY <2>1, EP!InvBalanced
  <2> QED
    BY <2>2, SameRefs DEF EvalBalanced
<1> QED
  BY <1>1, <1>2

(***************************************************************************)
(* Types: what is handed from one of the three to the next.                *)
(***************************************************************************)

LEMMA SameLexerTypes == LP!TypeOK <=> L!TypeOK
BY DEF LP!TypeOK, L!TypeOK, LP!Positions, L!Positions, LP!Kinds, L!Kinds, LP!Tokens, L!Tokens,
       LP!Symbol, L!Symbol

LEMMA SameEvalTypes == EP!TypeOK <=> E!TypeOK
BY DEF EP!TypeOK, E!TypeOK, EP!Types, E!Types, EP!NULL, E!NULL

LEMMA SameKinds == \A s : L!KindsOf(s) = KindsOf(s)
BY DEF KindsOf, L!KindsOf, NameStart, L!NameStart, Upper, L!Upper, Lower, L!Lower, NamePart,
       L!NamePart, Digits, L!Digits, Over, L!Over, Symbol, L!Symbol, NumberKinds, L!NumberKinds,
       BaseOf, L!BaseOf, Marker, L!Marker

LEMMA EvalAssumed == EP!EvalAssumption
BY ScriptAssumption DEF EP!EvalAssumption, E!EvalAssumption, EP!NULL, E!NULL, EP!Types, E!Types

\* What ks_parse makes can be evaluated, as far as the types go, and so can what clients make.
LEMMA ParsedTree ==
  ASSUME NEW n, IsTree(n)
  PROVE  EP!IsTree(n)
<1>1. PICK S : n \in S /\ Proper(S)
  BY DEF IsTree
<1>2. Ints \cup Floats \subseteq DOMAIN Literals
  BY ScriptAssumption DEF WordsAssumption, Literals
<1>3. {"CALL"} \cup EP!Binary \subseteq {"CALL", "ADD", "MUL", "DIV", "POW"}
  BY DEF EP!Binary
<1>4. ASSUME NEW m \in S
      PROVE  /\ EP!IsSeq(m.subs)
             /\ m.kind = "VAL" => m.subs[1].kind \in DOMAIN Literals
             /\ m.kind \in {"CALL"} \cup EP!Binary => \A k \in DOMAIN m.subs : m.subs[k] \in S
  <2>1. /\ IsSeq(m.subs)
        /\ m.kind = "VAL" => m.subs[1].kind \in Ints \cup Floats
        /\ m.kind \notin {"VAL", "NAME", "ATTR"} => \A k \in DOMAIN m.subs : m.subs[k] \in S
    BY <1>1 DEF Proper
  <2> QED
    BY <1>2, <1>3, <2>1 DEF IsSeq, EP!IsSeq
<1>5. EP!Proper(S)
  BY <1>4 DEF EP!Proper
<1> QED
  BY <1>1, <1>5 DEF EP!IsTree

LEMMA ClientTree ==
  ASSUME NEW n \in Trees
  PROVE  EP!IsTree(n) /\ n.size \in Nat
<1>1. NodesAssumption
  BY ScriptAssumption
<1>2. n \in Nodes /\ n.size \in Nat
  BY <1>1 DEF NodesAssumption
<1>3. ASSUME NEW m \in Nodes
      PROVE  /\ EP!IsSeq(m.subs)
             /\ m.kind = "VAL" => m.subs[1].kind \in DOMAIN Literals
             /\ m.kind \in {"CALL"} \cup EP!Binary => \A k \in DOMAIN m.subs : m.subs[k] \in Nodes
  <2>1. EP!IsSeq(m.subs)
    BY <1>1 DEF NodesAssumption, EP!IsSeq
  <2>2. m.kind = "VAL" => m.subs[1].kind \in DOMAIN Literals
    BY <1>1 DEF NodesAssumption
  <2>3. ASSUME m.kind # "VAL", NEW k \in DOMAIN m.subs
        PROVE  m.subs[k] \in Nodes
    BY <1>1, <2>3 DEF NodesAssumption, ToSet
  <2>4. m.kind \in {"CALL"} \cup EP!Binary => m.kind # "VAL"
    BY DEF EP!Binary
  <2> QED
    BY <2>1, <2>2, <2>3, <2>4
<1>4. EP!Proper(Nodes)
  BY <1>3 DEF EP!Proper
<1> QED
  BY <1>2, <1>4 DEF EP!IsTree

\* The kinds ks_parse reads off the words are those of ks_lex.
LEMMA WordKinds ==
  ASSUME LP!WInv
  PROVE  KindsGiven
<1> SUFFICES ASSUME lex_pc = "done", src \in Programs, NEW k \in DOMAIN lex_toks,
                    KindOf(Words[k]) \in {"NAME", "INT", "FLOAT"}
             PROVE  KindOf(Words[k]) = lex_toks[k].kind
  BY DEF KindsGiven
<1> DEFINE t == lex_toks[k]
           s == SubSeq(src, t.posb + 1, t.posb + t.lenb)
<1>1. k \in 1..Len(lex_toks)
  <2>1. LP!TypeOK
    BY DEF LP!WInv, LP!IInv
  <2>2. lex_toks \in Seq(LP!Tokens)
    BY <2>1 DEF LP!TypeOK
  <2> QED
    BY <2>2
<1>2. t.kind # EOF
  <2>1. KindOf(EOF) = EOF
    BY ParserAssumption DEF KindOf
  <2>2. ASSUME t.kind = EOF
        PROVE  Words[k] = EOF
    BY <2>2 DEF Words
  <2> QED
    BY <2>1, <2>2 DEF EOF
<1>3. Words[k] = Word(s)
  BY <1>2 DEF Words, L!Text, L!End
<1>4. t.posb + 1 \in 1..Len(src) /\ t.posb + t.lenb \in (t.posb + 1)..Len(src)
  BY <1>1, <1>2, LP!WordInside DEF LP!End, EOF
<1>5. KindsOf(s) = {t.kind}
  <2>1. L!LongestMatch
    BY LexerAssumed, LP!WordsLongest, SameLongest
  <2>2. L!KindsOf(s) = {t.kind}
    BY <1>1, <1>2, <2>1 DEF L!LongestMatch, L!Text, L!End, EOF
  <2> QED
    BY <2>2, SameKinds
<1>6. KindsOf(s) = {KindOf(Word(s))}
  <2> DEFINE i == t.posb + 1
             j == t.posb + t.lenb
  <2>1. WordsAssumption
    BY ScriptAssumption
  <2>2. i \in 1..Len(src) /\ j \in i..Len(src) /\ KindOf(Word(SubSeq(src, i, j))) \in {"NAME", "INT", "FLOAT"}
    BY <1>3, <1>4
  <2> HIDE DEF i, j, t
  <2>3. KindsOf(SubSeq(src, i, j)) = {KindOf(Word(SubSeq(src, i, j)))}
    BY <2>1, <2>2 DEF WordsAssumption
  <2> QED
    BY <2>3 DEF i, j
<1> QED
  BY <1>3, <1>5, <1>6

\* Before ks_parse is called.
Idle ==
  /\ toks = <<EOF>> /\ toki = 1 /\ stack = <<>> /\ lost = 0 /\ fails = MaxFails /\ live \in Nat

TInv ==
  /\ IF pc = "idle" THEN Idle ELSE PInv
  /\ EP!IsTree(ret) /\ KindsGiven
  /\ eval_pc # "idle" => EP!TInv

LEMMA InitTypes ==
  ASSUME ScriptInit
  PROVE  TInv
<1>1. eval_pc = "idle"
  BY DEF ScriptInit, NoEval
<1>2. KindsGiven
  <2>1. lex_pc # "done"
    BY DEF ScriptInit, NoLex, L!Init
  <2> QED
    BY <2>1 DEF KindsGiven
<1>3. MaxFails \in Nat
  BY ParserAssumption
<1>4. EP!IsTree(NULL)
  BY NoTree, ParsedTree
<1>5. CASE L!Init /\ NoParse /\ ret = NULL /\ live = 0
  BY <1>1, <1>2, <1>4, <1>5 DEF TInv, Idle, NoParse
<1>6. CASE NoLex /\ Init
  <2>1. PInv
    BY <1>6, InitMoves
  <2> QED
    BY <1>1, <1>2, <1>4, <1>6, <2>1 DEF TInv, Init
<1>7. CASE NoLex /\ NoParse /\ ret \in Trees /\ live = ret.size
  BY <1>1, <1>2, <1>7, ClientTree DEF TInv, Idle, NoParse
<1> QED
  BY <1>5, <1>6, <1>7 DEF ScriptInit

\* What a call leaves alone keeps its part.
LEMMA KindsKept ==
  ASSUME KindsGiven, UNCHANGED lex_vars
  PROVE  KindsGiven'
BY DEF KindsGiven, lex_vars, Words, L!Text, L!End

LEMMA ParseKept ==
  ASSUME IInv, IF pc = "idle" THEN Idle ELSE PInv, UNCHANGED vars
  PROVE  (IF pc = "idle" THEN Idle ELSE PInv)'
<1>1. CASE pc = "idle"
  BY <1>1 DEF vars, Idle, EOF
<1>2. CASE pc # "idle"
  <2>1. PInv'
    BY <1>2, NextMoves
  <2> QED
    BY <1>2, <2>1 DEF vars
<1> QED
  BY <1>1, <1>2

LEMMA EvalTypesKept ==
  ASSUME eval_pc # "idle" => EP!TInv, UNCHANGED eval_vars
  PROVE  (eval_pc # "idle" => EP!TInv)'
BY DEF eval_vars, EP!TInv, EP!IsValue, EP!NULL, EP!Typed, EP!IsTree, EP!Proper

\* The tree ks_parse has made.
LEMMA TreeKept ==
  ASSUME EP!IsTree(ret), UNCHANGED ret
  PROVE  EP!IsTree(ret)'
BY DEF EP!IsTree, EP!Proper

LEMMA TreeMade ==
  PInv => EP!IsTree(ret)
BY ParsedTree DEF PInv

\* The tokens of ks_lex end with EOF.
LEMMA WordsEnd ==
  ASSUME LP!WInv, lex_pc = "done"
  PROVE  Len(Words) \in Nat \ {0} /\ Words[Len(Words)] = EOF
<1>1. lex_toks # <<>> /\ lex_toks[Len(lex_toks)].kind = EOF /\ LP!TypeOK
  BY DEF LP!WInv, LP!IInv, LP!EOFLast, EOF
<1>2. lex_toks \in Seq(LP!Tokens)
  BY <1>1 DEF LP!TypeOK
<1>3. Len(lex_toks) \in Nat \ {0} /\ DOMAIN lex_toks = 1..Len(lex_toks)
  BY <1>1, <1>2
<1>4. DOMAIN Words = 1..Len(lex_toks)
  BY <1>3 DEF Words
<1>5. Len(Words) = Len(lex_toks)
  BY <1>3, <1>4
<1>6. Len(lex_toks) \in DOMAIN lex_toks
  BY <1>3
<1>7. Words[Len(lex_toks)] = EOF
  BY <1>1, <1>6 DEF Words
<1> QED
  BY <1>3, <1>5, <1>7

\* The parser's state and kvm_eval's as they begin, in a form that can be primed.
LEMMA ParseBegins ==
  Len(toks) \in Nat \ {0} /\ toks[Len(toks)] = EOF /\ toki = 1 /\ stack = <<Frame("STMT")>>
    /\ ret = NULL /\ fails \in 0..MaxFails /\ pc = "run" => PInv
BY FirstMoves

LEMMA EvalBegins ==
  (\E node : EP!IsTree(node) /\ calls = <<EP!Frame(node)>>) /\ val = EP!NULL /\ starved = FALSE /\ eval_pc = "run" => EP!TInv
BY EP!BeginTypes

LEMMA LexedTypes ==
  ASSUME SInv, TInv, Lexed
  PROVE  TInv'
<1>1. /\ LP!WInv /\ Fresh /\ Idle /\ pc = "idle"
      /\ toki' = toki /\ ret' = ret /\ fails' = fails /\ UNCHANGED lex_vars /\ UNCHANGED eval_vars
  BY DEF Lexed, SInv, Lexing, TInv, memory
<1>2. ret' = NULL /\ toki' = 1 /\ fails' = MaxFails /\ MaxFails \in Nat /\ MaxFails \in 0..MaxFails
  BY <1>1, ParserAssumption DEF Fresh, Idle
<1>3. PInv' /\ pc' # "idle"
  <2>1. CASE lex_pc = "done" /\ toks' = Words /\ stack' = <<Frame("STMT")>> /\ pc' = "run"
    <3>1. Len(toks') \in Nat \ {0} /\ toks'[Len(toks')] = EOF
      BY <1>1, <2>1, WordsEnd
    <3>2. (Len(toks) \in Nat \ {0} /\ toks[Len(toks)] = EOF /\ toki = 1 /\ stack = <<Frame("STMT")>>
             /\ ret = NULL /\ fails \in 0..MaxFails /\ pc = "run" => PInv)'
      BY ParseBegins, PTL
    <3>3. PInv'
      BY <1>2, <2>1, <3>1, <3>2
    <3> QED
      BY <2>1, <3>3
  <2>2. CASE pc' = "done" /\ UNCHANGED <<toks, stack>>
    <3>1. toks' = <<EOF>> /\ stack' = <<>>
      BY <1>1, <2>2 DEF Idle
    <3>2. Len(toks') = 1 /\ toks'[1] = EOF /\ 1 \in 1..1 /\ 1 \in Nat
      BY <3>1
    <3>3. IsSeq(stack') /\ Len(stack') = 0
      BY <3>1, Tuples
    <3>4. IsTree(ret') /\ fails' \in 0..MaxFails
      BY <1>2, NoTree
    <3>5. \A k \in 1..Len(stack') : Typed(stack[k], toki)'
      BY <3>3
    <3>6. PInv'
      BY <1>2, <2>2, <3>2, <3>3, <3>4, <3>5 DEF PInv, Statuses, IsTree, Proper, NULL
    <3> QED
      BY <2>2, <3>6
  <2> QED
    BY <2>1, <2>2 DEF Lexed
<1>4. EP!IsTree(ret)' /\ KindsGiven' /\ (eval_pc # "idle" => EP!TInv)'
  BY <1>1, TreeKept, KindsKept, EvalTypesKept DEF TInv
<1> QED
  BY <1>3, <1>4 DEF TInv

LEMMA NextScriptTypes ==
  ASSUME SInv, TInv, [ScriptNext]_all_vars
  PROVE  TInv'
<1> DEFINE Parsing == IF pc = "idle" THEN Idle ELSE PInv
           Valued == eval_pc # "idle" => EP!TInv
<1>1. IInv /\ Parsing /\ Valued /\ EP!IsTree(ret) /\ KindsGiven
  BY DEF SInv, TInv
<1>2. ASSUME UNCHANGED vars
      PROVE  Parsing' /\ EP!IsTree(ret)'
  BY <1>1, <1>2, ParseKept, TreeKept DEF vars
<1>3. CASE Lex
  <2>1. UNCHANGED vars /\ UNCHANGED eval_vars /\ Lexing /\ L!Next
    BY <1>3 DEF Lex, Lexing
  <2>2. LP!WInv'
    BY <2>1, SameNext, LexerAssumed, LP!NextWords DEF SInv
  <2>3. (LP!WInv => KindsGiven)'
    BY WordKinds, PTL
  <2> QED
    BY <1>1, <1>2, <2>1, <2>2, <2>3, EvalTypesKept DEF TInv
<1>4. CASE Lexed
  BY <1>4, LexedTypes
<1>5. CASE Parse
  <2>1. pc = "run" /\ Next /\ UNCHANGED <<lex_vars, eval_vars>>
    BY <1>5 DEF Parse
  <2>2. PInv' /\ pc' # "idle"
    BY <1>1, <2>1, NextMoves, NextStatus DEF Statuses
  <2>3. (PInv => EP!IsTree(ret))'
    BY TreeMade, PTL
  <2> QED
    BY <1>1, <2>1, <2>2, <2>3, KindsKept, EvalTypesKept DEF TInv
<1>6. CASE Begin
  <2>1. UNCHANGED vars /\ UNCHANGED lex_vars
    BY <1>6 DEF Begin
  <2>2. EP!TInv'
    <3>1. calls' = <<EP!Frame(ret')>> /\ val' = EP!NULL /\ starved' = FALSE /\ eval_pc' = "run" /\ EP!IsTree(ret')
      <4>1. NoEval
        BY <1>6 DEF Begin, SInv
      <4> QED
        BY <1>1, <1>6, <2>1, <4>1 DEF Begin, NoEval, EP!Frame, E!Frame, EP!NULL, E!NULL, vars
    <3>2. ((\E node : EP!IsTree(node) /\ calls = <<EP!Frame(node)>>) /\ val = EP!NULL /\ starved = FALSE /\ eval_pc = "run"
             => EP!TInv)'
      BY EvalBegins, PTL
    <3> QED
      BY <3>1, <3>2 DEF EP!Frame, EP!NULL
  <2> QED
    BY <1>1, <1>2, <2>1, <2>2, KindsKept DEF TInv
<1>7. CASE Evaluate
  <2>1. UNCHANGED <<toks, toki, stack, memory, pc, lex_vars, ret>> /\ E!Next /\ eval_pc = "run"
    BY <1>7, EvalStatus DEF Evaluate
  <2>2. UNCHANGED vars /\ UNCHANGED lex_vars
    BY <2>1 DEF vars, memory
  <2>3. EP!IInv /\ EP!TInv /\ [EP!Next]_(EP!vars)
    BY <1>1, <2>1, SameEval DEF SInv
  <2>4. EP!TInv'
    BY <2>3, EvalAssumed, EP!NextTypes
  <2> QED
    BY <1>1, <1>2, <2>2, <2>4, KindsKept DEF TInv
<1>8. CASE UNCHANGED all_vars
  <2>1. UNCHANGED vars /\ UNCHANGED lex_vars /\ UNCHANGED eval_vars
    BY <1>8 DEF all_vars
  <2> QED
    BY <1>1, <1>2, <2>1, KindsKept, EvalTypesKept DEF TInv
<1> QED
  BY <1>3, <1>4, <1>5, <1>6, <1>7, <1>8 DEF ScriptNext

LEMMA ScriptInvTypes ==
  ASSUME SInv, TInv
  PROVE  ScriptTypeOK
<1>1. Lexing => L!TypeOK
  <2>1. LP!WInv => LP!TypeOK
    BY DEF LP!WInv, LP!IInv
  <2> QED
    BY <2>1, SameLexerTypes DEF SInv
<1>2. TypeOK
  <2>1. CASE pc = "idle"
    <3>1. Idle
      BY <2>1 DEF TInv
    <3>2. Len(<<EOF>>) = 1 /\ <<EOF>>[1] = EOF /\ DOMAIN <<>> = {}
      OBVIOUS
    <3>3. MaxFails \in 0..MaxFails
      BY ParserAssumption
    <3> QED
      BY <2>1, <3>1, <3>2, <3>3 DEF Idle, TypeOK
  <2>2. CASE pc # "idle"
    BY <2>2, InvTypes DEF TInv, SInv
  <2> QED
    BY <2>1, <2>2
<1>3. eval_pc # "idle" => E!TypeOK
  BY EP!InvTypes, SameEvalTypes DEF TInv, SInv
<1> QED
  BY <1>1, <1>2, <1>3 DEF ScriptTypeOK, TInv

\* The tokens ks_lex has found are those of its text; nothing is left out, nothing
\* overlaps, and every line and column is right: for all texts.
THEOREM Tiling == ScriptSpec => []TilesSource
<1>1. ScriptInit => SInv
  BY InitScript
<1>2. SInv /\ [ScriptNext]_all_vars => SInv'
  BY NextScript
<1>3. SInv => TilesSource
  BY ScriptTiles
<1> QED
  BY <1>1, <1>2, <1>3, PTL DEF ScriptSpec

\* Each token is the longest word at its place, and of no other kind than its own: for all texts.
THEOREM LongestWords == ScriptSpec => []LongestMatch
<1>1. ScriptInit => SInv
  BY InitScript
<1>2. SInv /\ [ScriptNext]_all_vars => SInv'
  BY NextScript
<1>3. SInv => LongestMatch
  BY ScriptLongest
<1> QED
  BY <1>1, <1>2, <1>3, PTL DEF ScriptSpec

\* ks_parse owns or has lost every object it has allocated, whichever way it came by its
\* tokens, and kvm_eval does not change that.
THEOREM ParseBalances == ScriptSpec => []Balanced
<1>1. ScriptInit => SInv
  BY InitScript
<1>2. SInv /\ [ScriptNext]_all_vars => SInv'
  BY NextScript
<1>3. SInv => Balanced
  BY InvBalanced DEF SInv
<1> QED
  BY <1>1, <1>2, <1>3, PTL DEF ScriptSpec

\* kvm_eval holds every reference it has taken, for all trees, constants and results.
THEOREM EvalBalances == ScriptSpec => []EvalBalanced
<1>1. ScriptInit => SInv
  BY InitScript
<1>2. SInv /\ [ScriptNext]_all_vars => SInv'
  BY NextScript
<1>3. SInv => EvalBalanced
  BY ScriptEvalBalanced
<1> QED
  BY <1>1, <1>2, <1>3, PTL DEF ScriptSpec

\* No call leaves its types: no token is stored past the array ks_lex has grown, ks_parse
\* never looks past the final EOF and reads each word as the kind ks_lex has given it, no
\* call of kvm_eval takes more operands than its node has: for all texts, tokens and trees.
THEOREM ScriptTypes == ScriptSpec => []ScriptTypeOK
<1>1. ScriptInit => SInv /\ TInv
  BY InitScript, InitTypes
<1>2. SInv /\ TInv /\ [ScriptNext]_all_vars => SInv' /\ TInv'
  BY NextScript, NextScriptTypes
<1>3. SInv /\ TInv => ScriptTypeOK
  BY ScriptInvTypes
<1> QED
  BY <1>1, <1>2, <1>3, PTL DEF ScriptSpec

\* The helper buffers as ks_parse begins, in a form that can be primed.
LEMMA BufferBegins ==
  stack = <<Frame("STMT")>> /\ ret = NULL /\ pc = "run" => BInv
BY FirstBuffers

\* Only ks_parse pushes to its buffers.
LEMMA BuffersKept ==
  ASSUME BInv, UNCHANGED vars
  PROVE  BInv'
BY DEF vars, BInv, ShortBuffers, Sized, Shape, ArrayLen, Intact, Whole, Top

LEMMA InitScriptBuffers ==
  ASSUME ScriptInit
  PROVE  BInv
<1>1. CASE NoParse
  BY <1>1 DEF NoParse, BInv
<1>2. CASE Init
  BY <1>2, FirstBuffers DEF Init
<1> QED
  BY <1>1, <1>2 DEF ScriptInit

LEMMA NextScriptBuffers ==
  ASSUME SInv, TInv, BInv, [ScriptNext]_all_vars
  PROVE  BInv'
<1>1. CASE Lexed
  <2>1. ret' = NULL
    BY <1>1 DEF Lexed, SInv, Lexing, Fresh, TInv, Idle, memory
  <2>2. (stack = <<Frame("STMT")>> /\ ret = NULL /\ pc = "run" => BInv)'
    BY BufferBegins, PTL
  <2>3. CASE stack' = <<Frame("STMT")>> /\ pc' = "run"
    BY <2>1, <2>2, <2>3
  <2>4. CASE pc' = "done"
    BY <2>4 DEF BInv
  <2> QED
    BY <1>1, <2>3, <2>4 DEF Lexed
<1>2. CASE Parse
  <2>1. Next /\ pc # "idle"
    BY <1>2 DEF Parse
  <2> QED
    BY <2>1, NextBuffers DEF SInv, TInv
<1>3. CASE Evaluate
  <2>1. UNCHANGED <<toks, toki, stack, memory, pc, ret>>
    BY <1>3, EvalStatus DEF Evaluate
  <2> QED
    BY <2>1, BuffersKept DEF vars, memory
<1>4. CASE Lex \/ Begin \/ UNCHANGED all_vars
  BY <1>4, BuffersKept DEF Lex, Begin, all_vars
<1> QED
  BY <1>1, <1>2, <1>3, <1>4 DEF ScriptNext

\* Nothing outside a helper buffer of ks_parse is touched, other than after a failed allocation
\* or in the last loop of 'if', before one of them has 20 elements: for all texts and tokens.
THEOREM BuffersSuffice == ScriptSpec => []ShortBuffersHold
<1>1. ScriptInit => SInv /\ TInv /\ BInv
  BY InitScript, InitTypes, InitScriptBuffers
<1>2. SInv /\ TInv /\ BInv /\ [ScriptNext]_all_vars => SInv' /\ TInv' /\ BInv'
  BY NextScript, NextScriptTypes, NextScriptBuffers
<1>3. SInv /\ TInv /\ BInv => ShortBuffersHold
  <2>1. CASE pc = "idle"
    BY <2>1 DEF ShortBuffersHold
  <2>2. CASE pc # "idle"
    BY <2>2, InvBuffers DEF TInv
  <2> QED
    BY <2>1, <2>2
<1> QED
  BY <1>1, <1>2, <1>3, PTL DEF ScriptSpec
=============================================================================

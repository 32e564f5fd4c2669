-------------------------------- MODULE Parser --------------------------------
(***************************************************************************)
(* The parser of KataScript: ks_parse of src/ks/parse.c, a function per    *)
(* rule, and the nodes it makes, src/ks/ast.c.                             *)
(*                                                                         *)
(* The C stack is a sequence of frames, one per active rule (a rule that   *)
(* only calls another, such as E2, is the one it calls).  A tree is        *)
(* a value; as the parser shares no node, the place a tree is in (the      *)
(* res of a frame, a helper buffer, or ret on the way from a rule to its   *)
(* caller) owns it.  live counts the objects allocated and not freed.      *)
(*                                                                         *)
(* A token is its text; toki counts from 1.  The tokens are those of       *)
(* ks_lex, or any others a caller hands over, ending with EOF.             *)
(***************************************************************************)
EXTENDS Integers, Sequences, SequencesExt, Kmem

CONSTANTS
  Ints, Floats, Names,  \* the words ks_lex makes tokens of these kinds; keywords are Names
  Inputs,      \* sequences of tokens, without the final EOF; bound: their length
  MaxFails     \* bound: allocations that fail, at most one

NULL == [kind |-> "NULL", tok |-> {}, subs |-> <<>>, size |-> 0, broken |-> FALSE]
EOF  == "EOF"

\* EOF is a kind of its own, no number and no name; a word that spells a kind is a name.
ASSUME ParserAssumption ==
  /\ MaxFails \in {0, 1} /\ \A s \in Inputs : s \in Seq(STRING)
  /\ Ints \cap Floats = {} /\ Names \cap (Ints \cup Floats) = {}
  /\ EOF \notin Ints \cup Floats \cup Names /\ {"NAME", "INT", "FLOAT"} \subseteq Names

Pointer == 8   \* sizeof(kobj)

\* The kinds of tokens the parser tests; a symbol is its own kind.
KindOf(t) ==
  CASE t \in Ints -> "INT" [] t \in Floats -> "FLOAT" [] t \in Names -> "NAME" [] OTHER -> t

\* The binary operators of each level with the nodes they make.
Operators == [
  E0  |-> [o \in {"|", "&"} |-> IF o = "|" THEN "PIPE" ELSE "AND"],
  E1  |-> [o \in {"=", "+=", "-=", "*=", "/=", "%=", "^=", "@="} |->
            CASE o = "=" -> "EQ" [] o = "+=" -> "ADDEQ" [] o = "-=" -> "SUBEQ"
              [] o = "*=" -> "MULEQ" [] o = "/=" -> "DIVEQ" [] o = "%=" -> "MODEQ"
              [] o = "^=" -> "POWEQ" [] o = "@=" -> "MATMULEQ"],
  E8  |-> [o \in {"+", "-"} |-> IF o = "+" THEN "ADD" ELSE "SUB"],
  E9  |-> [o \in {"*", "/", "//", "%", "@"} |->
            CASE o = "*" -> "MUL" [] o = "/" -> "DIV" [] o = "//" -> "FLOORDIV"
              [] o = "%" -> "MOD" [] o = "@" -> "MATMUL"],
  E10 |-> [o \in {"^"} |-> "POW"]]

Levels == DOMAIN Operators

\* The rules a level calls for its left and its right operands.
Left(r)  == CASE r = "E0" -> "E1" [] r = "E1" -> "E8" [] r = "E8" -> "E9" [] r = "E9" -> "E10"
              [] r = "E10" -> "E12"

\* Mutant of Right: ^ to the left, like the others.
Right_Left(r) == Left(r)

Right(r) == IF r = "E10" THEN "E10" ELSE Left(r)

VARIABLES
  toks,    \* the tokens
  toki,    \* the current one
  stack,   \* the active rules
  ret,     \* the node a rule has just returned, until its caller takes it
  live,    \* objects allocated and not freed
  fails,   \* allocations that may still fail
  lost,    \* objects the failing allocation was to hold, which nobody owns now
  pc       \* "idle" (ks_parse is not called), "run", "done", "abort" (a failed assertion), "wild" (an access
           \* outside a buffer, or through NULL)
vars == <<toks, toki, stack, ret, live, fails, lost, pc>>

memory == <<live, fails, lost>>

Tok  == toks[toki]
Top  == stack[Len(stack)]
Failed == fails < MaxFails

-----------------------------------------------------------------------------
\* The kinds of nodes the parser makes.
NodeKinds ==
  {"VAL", "NAME", "ATTR", "CALL", "IMPORT", "RET", "THROW", "BLOCK", "IF"} \cup
  UNION {{Operators[r][o] : o \in DOMAIN Operators[r]} : r \in Levels}

\* The number of objects nodes consist of.
Size(nodes) == SumFunction([k \in DOMAIN nodes |-> nodes[k].size])

\* struct ks_ast with its sub, a tuple of nodes or one value.  size is the number of
\* objects it consists of; broken: somewhere in it a sub is NULL.
Node(kind, tok, subs) ==
  [kind |-> kind, tok |-> tok, subs |-> subs,
   size |-> 2 + Size(subs),
   broken |-> \E k \in DOMAIN subs : subs[k].broken]

\* A node whose sub could not be allocated.
Hollow(kind, tok) == [kind |-> kind, tok |-> tok, subs |-> <<>>, size |-> 1, broken |-> TRUE]

\* A value or a string, as the sub of a node.
Value(text) == [kind |-> text, tok |-> {}, subs |-> <<>>, size |-> 1, broken |-> FALSE]

\* The outcomes of an operation that allocates: it returns v, with n objects more
\* than before, and leaves l of them to nobody if memory is short.
Outcome(v, n) == [val |-> v, live |-> live + n, fails |-> fails, lost |-> lost]
Short(v, n, l) == [val |-> v, live |-> live + n, fails |-> fails - 1, lost |-> lost + l]
OrShort(ok, failures) == {ok} \cup (IF fails > 0 THEN failures ELSE {})

\* Mutant of ks_ast_newz: the other nodes are kept when one is NULL.
ks_ast_newz_Keeps(tok, kind, subs) ==
  IF \E k \in DOMAIN subs : subs[k] = NULL
  THEN {Outcome(NULL, 0)}
  ELSE OrShort(Outcome(Node(kind, tok, subs), 2),
               {Short(NULL, 0, Size(subs)), Short(Hollow(kind, tok), 1, Size(subs))})

\* ks_ast_newz: absorbs the nodes, all of which it gives up if one is NULL.  When
\* kobj_make fails they are left to nobody, as they are when the tuple cannot be made.
ks_ast_newz(tok, kind, subs) ==
  IF \E k \in DOMAIN subs : subs[k] = NULL
  THEN {Outcome(NULL, -Size(subs))}
  ELSE OrShort(Outcome(Node(kind, tok, subs), 2),
               {Short(NULL, 0, Size(subs)), Short(Hollow(kind, tok), 1, Size(subs))})

\* ks_ast_wrapx around a new string: without memory for the string it wraps NULL.
Wrapped(kind, k) == [Node(kind, {k}, <<>>) EXCEPT !.subs = <<Value(toks[k])>>]
WrapString(k) ==
  OrShort(Outcome(Wrapped("NAME", k), 2), {Short(Hollow("NAME", {k}), 1, 0), Short(NULL, 1, 1)})

\* ks_ast_wrap around a number.
WrapNumber(k) == OrShort(Outcome(Wrapped("VAL", k), 2), {Short(NULL, 1, 1)})

-----------------------------------------------------------------------------
\* A frame; hb is a helper buffer (HBUF_MAKE), room the elements of its block
\* once it has one (0 while it is the array in the frame), maxn as in the code.
Frame(rule) ==
  [rule |-> rule, at |-> "start", res |-> NULL, op |-> 0, hb |-> <<>>, room |-> 0, maxn |-> 0]

\* Mutant of Pushed: the first block has no room for the element to be pushed.
Pushed_Tight(f, qn, node) ==
  IF Len(f.hb) = qn THEN [f EXCEPT !.hb = Append(@, node), !.room = qn]
  ELSE [f EXCEPT !.hb = Append(@, node)]

\* HBUF_PUSH to the buffer of frame f with qn elements of its own.  It leaves the array
\* for a block with one element more; from then on maxn is a number of bytes.
Regrows(f) == f.room > 0 /\ Len(f.hb) >= f.maxn
Pushed(f, qn, node) ==
  LET n    == Len(f.hb)
      maxn == kmem_nextcap(f.maxn, Pointer * (n + 1))
  IN  IF n = qn THEN [f EXCEPT !.hb = Append(@, node), !.room = qn + 1]
      ELSE IF Regrows(f) THEN [f EXCEPT !.hb = Append(@, node), !.room = maxn \div Pointer, !.maxn = maxn]
      ELSE [f EXCEPT !.hb = Append(@, node)]

\* Whether the element was written inside the block.
Fits(f, qn) == Len(f.hb) <= IF f.room > 0 THEN f.room ELSE qn
Status(f, qn) == IF Fits(f, qn) THEN "run" ELSE "wild"

With(f) == [stack EXCEPT ![Len(stack)] = f]
Continue(f) == stack' = With(f)
Call(f, rule) == stack' = Append(With(f), Frame(rule))
Return(node) ==
  /\ stack' = Front(stack) /\ ret' = node
  /\ pc' = IF Len(stack) = 1 THEN "done" ELSE "run"

\* Give up nodes and return NULL (HBUF_CLEAR, KOBJ_DECREF); a hollow node cannot be deleted.
After(nodes) == IF \E k \in DOMAIN nodes : nodes[k].broken THEN "wild"
                ELSE IF Len(stack) = 1 THEN "done" ELSE "run"
ReturnWithout(nodes) ==
  /\ stack' = Front(stack) /\ ret' = NULL
  /\ live' = live - Size(nodes) /\ UNCHANGED <<fails, lost>>
  /\ pc' = After(nodes)

Abort == pc' = "abort" /\ UNCHANGED <<toks, toki, stack, ret, memory>>
AbortShort == pc' = "abort" /\ fails' = fails - 1 /\ UNCHANGED <<toks, toki, stack, ret, live, lost>>

\* Take the outcome o of an allocation.
Take(o) == live' = o.live /\ fails' = o.fails /\ lost' = o.lost

EAT  == toki' = toki + 1
Taken == ret' = NULL
Pure == UNCHANGED <<memory, pc>>

At(rule, at) == pc = "run" /\ Top.rule = rule /\ Top.at = at /\ UNCHANGED toks

-----------------------------------------------------------------------------
\* E0, E1, E8, E9 and E10: a left operand, then operators of the level.
Operand(r) == At(r, "start") /\ Call([Top EXCEPT !.at = "left"], Left(r)) /\ UNCHANGED <<toki, ret>> /\ Pure

LeftOperand(r) ==
  /\ At(r, "left") /\ UNCHANGED <<toki, memory>>
  /\ IF ret = NULL THEN Return(NULL)
     ELSE Continue([Top EXCEPT !.at = "loop", !.res = ret]) /\ Taken /\ UNCHANGED pc

Operator(r) ==
  /\ At(r, "loop") /\ KindOf(Tok) \in DOMAIN Operators[r]
  /\ EAT
  /\ Call([Top EXCEPT !.at = "right", !.op = toki], Right(r))
  /\ UNCHANGED ret /\ Pure

\* LAST and MATCH(...) are arguments of one call: the token recorded is the operator
\* or the last one of the operand, as the compiler orders them.  A NULL result
\* goes on to the next operator.
RightOperand(r) ==
  /\ At(r, "right")
  /\ \E o \in ks_ast_newz({Top.op, toki - 1}, Operators[r][KindOf(toks[Top.op])], <<Top.res, ret>>) :
       Continue([Top EXCEPT !.at = "loop", !.res = o.val]) /\ Take(o)
  /\ Taken /\ UNCHANGED <<toki, pc>>

NoOperator(r) ==
  /\ At(r, "loop") /\ KindOf(Tok) \notin DOMAIN Operators[r]
  /\ Return(Top.res) /\ UNCHANGED <<toki, memory>>

Binary == \E r \in Levels : Operand(r) \/ LeftOperand(r) \/ Operator(r) \/ RightOperand(r) \/ NoOperator(r)

-----------------------------------------------------------------------------
\* E12, with its atom: NAME, INT and FLOAT assert that they get memory for the value,
\* and ATOM that there is one of them.
Atom ==
  /\ At("E12", "start")
  /\ CASE KindOf(Tok) \in {"NAME", "INT", "FLOAT"} ->
            \/ /\ \E o \in IF KindOf(Tok) = "NAME" THEN WrapString(toki) ELSE WrapNumber(toki) :
                    /\ Take(o)
                    /\ IF o.val = NULL THEN Return(NULL)
                       ELSE Continue([Top EXCEPT !.at = "loop", !.res = o.val]) /\ Taken /\ UNCHANGED pc
               /\ EAT
            \/ fails > 0 /\ KindOf(Tok) # "NAME" /\ AbortShort
       [] OTHER -> Abort

\* '.' NAME; LAST is the dot, so its text becomes the name.
Attribute ==
  /\ At("E12", "loop") /\ KindOf(Tok) = "."
  /\ IF KindOf(toks[toki + 1]) # "NAME" THEN Abort
     ELSE /\ toki' = toki + 2 /\ UNCHANGED <<ret, pc>>
          /\ LET named   == ks_ast_newz({toki}, "ATTR", <<Top.res, Value(toks[toki])>>)
                 unnamed == IF fails > 0 THEN {Short(NULL, -Top.res.size, 0)} ELSE {}
             IN  \E o \in {[q EXCEPT !.live = @ + 1] : q \in named} \cup unnamed :
                   Continue([Top EXCEPT !.res = o.val]) /\ Take(o)

\* '(': the callee is the first element of the buffer.
OpenCall ==
  /\ At("E12", "loop") /\ KindOf(Tok) = "("
  /\ EAT
  /\ Continue([Pushed(Top, 8, Top.res) EXCEPT !.at = "args", !.res = NULL])
  /\ UNCHANGED ret /\ Pure

Argument ==
  /\ At("E12", "args") /\ UNCHANGED <<toki, ret>> /\ Pure
  /\ IF KindOf(Tok) = ")" THEN Continue([Top EXCEPT !.at = "close"])
     ELSE Call([Top EXCEPT !.at = "arg"], "E0")

PushArgument ==
  /\ At("E12", "arg")
  /\ IF ret = NULL THEN ReturnWithout(Top.hb) /\ UNCHANGED toki
     ELSE LET f == Pushed(Top, 8, ret)
          IN  /\ toki' = IF KindOf(Tok) = "," THEN toki + 1 ELSE toki
              /\ Continue([f EXCEPT !.at = IF KindOf(Tok) = "," THEN "args" ELSE "close"])
              /\ pc' = Status(f, 8)
              /\ Taken /\ UNCHANGED memory

\* ')': the call is complete, and E12 with it.
CloseCall ==
  /\ At("E12", "close")
  /\ IF KindOf(Tok) # ")" THEN Abort
     ELSE EAT /\ \E o \in ks_ast_newz({toki}, "CALL", Top.hb) : Return(o.val) /\ Take(o)

\* Mutant of NoPostfix: default only leaves the switch, not the loop.
NoPostfix_Loops ==
  /\ At("E12", "loop") /\ KindOf(Tok) \notin {".", "("}
  /\ UNCHANGED <<toki, stack, ret, memory, pc>>

NoPostfix ==
  /\ At("E12", "loop") /\ KindOf(Tok) \notin {".", "("}
  /\ Return(Top.res) /\ UNCHANGED <<toki, memory>>

Postfix == Atom \/ Attribute \/ OpenCall \/ Argument \/ PushArgument \/ CloseCall \/ NoPostfix

-----------------------------------------------------------------------------
\* STMT decides by the text of the current token.
Keywords == {"import", "ret", "throw", "break", "cont", "if", "while", "for", "try"}
Separators == {"\n", ";"}

\* Any expression is a statement, with or without rule N after it.
ExpressionStatement ==
  /\ At("STMT", "start") /\ Tok \notin Keywords
  /\ Continue(Frame("E0")) /\ UNCHANGED <<toki, ret>> /\ Pure

Unimplemented ==
  At("STMT", "start") /\ Tok \in {"break", "cont", "while", "for", "try"} /\ Abort

\* Mutant of Import: rule NAME does not look at the kind.
Import_Any ==
  /\ At("STMT", "start") /\ Tok = "import"
  /\ toki' = toki + 2
  /\ Continue([Top EXCEPT !.at = "N", !.op = toki])
  /\ \E o \in WrapString(toki + 1) : ret' = o.val /\ Take(o)
  /\ UNCHANGED pc

\* 'import' NAME: the name becomes a node, here left in ret.
Import ==
  /\ At("STMT", "start") /\ Tok = "import"
  /\ IF KindOf(toks[toki + 1]) # "NAME" THEN Abort
     ELSE /\ toki' = toki + 2
          /\ Continue([Top EXCEPT !.at = "N", !.op = toki])
          /\ \E o \in WrapString(toki + 1) : ret' = o.val /\ Take(o)
          /\ UNCHANGED pc

\* 'ret' or 'throw': alone, or with an expression.
RetOrThrow ==
  /\ At("STMT", "start") /\ Tok \in {"ret", "throw"}
  /\ IF toks[toki + 1] \in Separators
     THEN /\ toki' = toki + 2
          /\ \E o \in IF Tok = "ret" THEN ks_ast_newz({toki + 1}, "RET", <<>>)
                     ELSE ks_ast_newz({toki}, "THROW", <<>>) : Return(o.val) /\ Take(o)
     ELSE EAT /\ Call([Top EXCEPT !.at = "N", !.op = toki], "E0") /\ UNCHANGED ret /\ Pure

\* The node of these three statements, and rule N: without a separator after it
\* the statement fails and its node is given up.
EndStatement ==
  LET kind == [import |-> "IMPORT", ret |-> "RET", throw |-> "THROW"][toks[Top.op]]
      tok  == IF kind = "THROW" THEN {Top.op} ELSE {Top.op, toki - 1}
  IN  /\ At("STMT", "N")
      /\ \E o \in ks_ast_newz(tok, kind, <<ret>>) :
           IF o.val = NULL \/ Tok \in Separators
           THEN /\ Return(o.val) /\ Take(o)
                /\ toki' = IF o.val = NULL THEN toki ELSE toki + 1
           ELSE /\ stack' = Front(stack) /\ ret' = NULL /\ UNCHANGED toki
                /\ Take([o EXCEPT !.live = @ - o.val.size])
                /\ pc' = After(<<o.val>>)

-----------------------------------------------------------------------------
\* 'if': conditions and bodies in a buffer of 8.
BeginIf ==
  /\ At("STMT", "start") /\ Tok = "if"
  /\ EAT /\ Call([Top EXCEPT !.at = "cond"], "E0") /\ UNCHANGED ret /\ Pure

\* BORCS asserts that a block or a comma follows the condition.
IfCondition ==
  LET f == [Pushed(Top, 8, ret) EXCEPT !.at = "body"]
  IN  /\ At("STMT", "cond")
      /\ IF ret = NULL THEN ReturnWithout(Top.hb) /\ UNCHANGED toki
         ELSE IF Tok \notin {"{", ","} THEN Abort
         ELSE IF ~Fits(f, 8) THEN pc' = "wild" /\ UNCHANGED <<toki, stack, ret, memory>>
         ELSE /\ Call(f, IF Tok = "{" THEN "B" ELSE "STMT")
              /\ toki' = IF Tok = "," THEN toki + 1 ELSE toki
              /\ Taken /\ Pure

\* After a body: 'elif' and its condition, 'else' and its body (BORS), or the end.
IfBody ==
  LET f == Pushed(Top, 8, ret)
  IN  /\ At("STMT", "body")
      /\ IF ret = NULL THEN ReturnWithout(Top.hb) /\ UNCHANGED toki
         ELSE /\ CASE Tok = "elif" -> EAT /\ Call([f EXCEPT !.at = "cond"], "E0")
                   [] Tok = "else" ->
                        EAT /\ Call([f EXCEPT !.at = "else"], IF toks[toki + 1] = "{" THEN "B" ELSE "STMT")
                   [] OTHER -> UNCHANGED toki /\ Continue([f EXCEPT !.at = "build"])
              /\ pc' = Status(f, 8)
              /\ Taken /\ UNCHANGED memory

IfElse ==
  LET f == Pushed(Top, 8, ret)
  IN  /\ At("STMT", "else") /\ UNCHANGED toki
      /\ IF ret = NULL THEN ReturnWithout(Top.hb)
         ELSE /\ Continue([f EXCEPT !.at = "build"]) /\ pc' = Status(f, 8)
              /\ Taken /\ UNCHANGED memory

\* while (hb_n > 0): the last two or three become a node, which is pushed back, so
\* that the loop comes to take three of one: hb[-2].
Taking(f) == IF Len(f.hb) % 2 = 1 THEN 3 ELSE 2
Rest(f) == [f EXCEPT !.hb = SubSeq(@, 1, Len(@) - Taking(f))]

IfBuild ==
  LET n    == Len(Top.hb)
      rest == Rest(Top)
  IN  /\ At("STMT", "build") /\ UNCHANGED <<toki, ret>>
      /\ IF n < Taking(Top) THEN pc' = "wild" /\ UNCHANGED <<stack, memory>>
         ELSE \E o \in ks_ast_newz({}, "IF", SubSeq(Top.hb, Len(rest.hb) + 1, n)) :
                IF o.val = NULL
                THEN /\ stack' = Front(stack)
                     /\ Take([o EXCEPT !.live = @ - Size(rest.hb)])
                     /\ pc' = After(rest.hb)
                ELSE Continue(Pushed(rest, 8, o.val)) /\ Take(o) /\ UNCHANGED pc

-----------------------------------------------------------------------------
\* SKIP: the first token from k on that is no separator.
SKIP(k) == CHOOSE j \in k..Len(toks) : toks[j] \notin Separators /\ \A i \in k..(j - 1) : toks[i] \in Separators

\* '{' STMT* '}' in a buffer of 16; the closing brace is left to the caller.
BeginBlock ==
  /\ At("B", "start")
  /\ toki' = SKIP(toki + 1)
  /\ Continue([Top EXCEPT !.at = "stmts", !.op = toki]) /\ UNCHANGED ret /\ Pure

BlockStatement ==
  /\ At("B", "stmts") /\ Tok # "}"
  /\ Call([Top EXCEPT !.at = "stmt"], "STMT") /\ UNCHANGED <<toki, ret>> /\ Pure

PushStatement ==
  LET f == Pushed(Top, 16, ret)
  IN  /\ At("B", "stmt")
      /\ IF ret = NULL THEN ReturnWithout(Top.hb) /\ UNCHANGED toki
         ELSE /\ toki' = SKIP(toki) /\ Continue([f EXCEPT !.at = "stmts"]) /\ pc' = Status(f, 16)
              /\ Taken /\ UNCHANGED memory

EndBlock ==
  /\ At("B", "stmts") /\ Tok = "}"
  /\ \E o \in ks_ast_newz({Top.op}, "BLOCK", Top.hb) : Return(o.val) /\ Take(o)
  /\ UNCHANGED toki

\* The block a push to a full buffer needs cannot be had: an assertion fails.
PushFails ==
  LET f == IF Top.at = "build" THEN Rest(Top) ELSE Top
  IN  /\ pc = "run" /\ fails > 0
      /\ \/ Top.at \in {"arg", "cond", "body", "else", "stmt"} /\ ret # NULL
         \/ Top.at = "build" /\ Len(Top.hb) >= Taking(Top)
      /\ Len(f.hb) = (IF Top.rule = "B" THEN 16 ELSE 8) \/ Regrows(f)
      /\ AbortShort

Statement ==
  \/ ExpressionStatement \/ Unimplemented \/ Import \/ RetOrThrow \/ EndStatement
  \/ BeginIf \/ IfCondition \/ IfBody \/ IfElse \/ IfBuild
  \/ BeginBlock \/ BlockStatement \/ PushStatement \/ EndBlock \/ PushFails

-----------------------------------------------------------------------------
\* ks_parse: one statement, from the first token; what follows it is ignored.
Init ==
  /\ \E s \in Inputs : toks = Append(s, EOF)
  /\ toki = 1 /\ stack = <<Frame("STMT")>> /\ ret = NULL
  /\ live = 0 /\ lost = 0 /\ fails = MaxFails /\ pc = "run"

Next == Binary \/ Postfix \/ Statement

\* ks_parse is one call in one thread: once entered, it keeps executing.
Spec == Init /\ [][Next]_vars /\ WF_vars(Next)

-----------------------------------------------------------------------------
Points == [STMT |-> {"start", "N", "cond", "body", "else", "build"}, B |-> {"start", "stmts", "stmt"},
           E12 |-> {"start", "loop", "args", "arg", "close"}]

\* Types; the parser never looks past the final EOF.
TypeOK ==
  /\ toki \in 1..Len(toks) /\ toks[Len(toks)] = EOF
  /\ \A k \in DOMAIN stack : LET f == stack[k] IN
       /\ f.rule \in Levels \cup DOMAIN Points
       /\ f.at \in IF f.rule \in Levels THEN {"start", "left", "loop", "right"} ELSE Points[f.rule]
       /\ f.res = NULL \/ f.res.kind \in NodeKinds
       /\ f.op \in 0..(toki - 1) /\ {f.room, f.maxn} \subseteq Nat
  /\ {live, lost} \subseteq Nat /\ fails \in 0..MaxFails
  /\ pc \in {"idle", "run", "done", "abort", "wild"} /\ (pc = "run" => stack # <<>>)

\* The objects that are owned: by the frames, or by the node on its way to a caller.
Owned == ret.size + SumFunction([k \in DOMAIN stack |-> stack[k].res.size + Size(stack[k].hb)])

\* On every path, those that give up half-built trees included, each object is given
\* up exactly once: what is allocated is what is owned, but for what the failing allocation
\* was to hold together, which is left to nobody.
Balanced == pc \in {"run", "done"} => live = Owned + lost

\* Nothing outside a helper buffer is touched, and no NULL is followed, while memory suffices.
BuffersHold == pc = "wild" => Failed

\* Up to its 20th element no buffer is too small.
ShortBuffers == \A k \in DOMAIN stack : Len(stack[k].hb) < 20

\* While the buffers are short nothing outside one is touched, but for the last loop of 'if',
\* which always takes one time too many.
ShortBuffersHold == pc = "wild" => Failed \/ ~ShortBuffers \/ Top.at = "build"
=============================================================================

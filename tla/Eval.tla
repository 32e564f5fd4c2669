--------------------------------- MODULE Eval ---------------------------------
(***************************************************************************)
(* The evaluator, kvm_eval of src/vm/eval.c, with the operators it applies *)
(* (src/ops.c), the numbers they make (src/types/int.c, float.c) and the   *)
(* functions it calls (kcall of src/api.c).                                *)
(*                                                                         *)
(* The active calls of kvm_eval are frames with the operands evaluated so  *)
(* far; refs counts the references the evaluation has taken and not given  *)
(* back.  A number is held in halves; one that is no half of an integer,   *)
(* or passes MaxNum, is Other: a value that is not tracked.  Within MaxNum *)
(* < 2^64 the precision kbf_precy asks for makes integers exact.           *)
(***************************************************************************)
EXTENDS Integers, Sequences, SequencesExt, Kmem

CONSTANTS
  Literals,   \* the constants of a tree: text -> value
  Results,    \* bound: the values a called function may return
  MaxNum,     \* bound: numbers that are tracked, in halves
  Other,      \* the value of a number that is not
  OutOfMemory \* whether kobj_make may fail

VARIABLES
  tree,   \* the node to evaluate
  calls,  \* the active calls of kvm_eval
  val,    \* the value a call has just returned, until its caller takes it
  refs,   \* references taken and not given back
  starved, \* whether an allocation has failed
  pc      \* "run", "done", "abort" (an assertion or kexit), "wild" (a write outside an array)
vars == <<tree, calls, val, refs, starved, pc>>

NULL  == [type |-> "NULL", num |-> 0]
Value(type, num) == [type |-> type, num |-> num]
Number(v) == v.type \in {"int", "float"}   \* is_float of the type
Pointer == 8

Types == {"int", "float", "str", "func"}

\* Of the constants.
EvalAssumption ==
  /\ MaxNum \in Nat /\ MaxNum < 2^20 /\ Other \notin Int /\ OutOfMemory \in BOOLEAN /\ NULL \notin Results
  /\ \A v \in Results \cup {Literals[t] : t \in DOMAIN Literals} : v.type \in Types

-----------------------------------------------------------------------------
\* kint_newz and kfloat_newz: the result of an operator, in a new object (EvalNoMemory
\* is the case that it cannot be had).
Tracked(n) == IF n \in (-MaxNum)..MaxNum THEN n ELSE Other
Made(type, n) == {Value(type, Tracked(n))}
Untracked(type) == {Value(type, Other)}

\* kint_newz ends the program when the number is no integer.
Exit == [type |-> "exit", num |-> 0]
Tracks(a, b) == a.num # Other /\ b.num # Other

\* The results of each operator, NULL among them where libbf reports an error (a
\* division by zero), and Exit where an assertion fails: an operand is no number.
\* kop_add makes an int of two numbers; two strings go to kstr_fmt, which cannot make a
\* buffer, since Kbuffer has no size.
kop_add(a, b) ==
  IF ~(Number(a) /\ Number(b)) THEN {Exit}
  ELSE IF ~Tracks(a, b) THEN Untracked("int") \cup {Exit}
  ELSE IF (a.num + b.num) % 2 = 1 THEN {Exit}
  ELSE Made("int", a.num + b.num)

kop_mul(a, b) ==
  LET type == IF a.type = "int" /\ b.type = "int" THEN "int" ELSE "float"
  IN  IF ~(Number(a) /\ Number(b)) THEN {Exit}
      ELSE IF Tracks(a, b) /\ (a.num * b.num) % 2 = 0 THEN Made(type, (a.num * b.num) \div 2)
      ELSE Untracked(type)

kop_div(a, b) ==
  IF ~(Number(a) /\ Number(b)) THEN {Exit}
  ELSE IF b.num = 0 THEN {NULL}
  ELSE IF b.num = Other THEN Untracked("float") \cup {NULL}
  ELSE IF a.num # Other /\ (2 * a.num) % b.num = 0 THEN Made("float", (2 * a.num) \div b.num)
  ELSE Untracked("float")

\* Exact for whole numbers and an exponent of 1; bounded here by an exponent of 4.
Whole(n) == n # Other /\ n % 2 = 0
kop_pow(a, b) ==
  IF ~(Number(a) /\ Number(b)) THEN {Exit}
  ELSE IF a.num # Other /\ b.num = 2 THEN Made("float", a.num)
  ELSE IF Whole(a.num) /\ Whole(b.num) /\ b.num \in 0..8
  THEN Made("float", IF b.num = 0 THEN 2 ELSE 2 * (a.num \div 2)^(b.num \div 2))
  ELSE Untracked("float") \cup {NULL}

Binary == {"ADD", "MUL", "DIV", "POW"}

\* Mutant of Apply: the operands of / and ^ are popped in the wrong order.
Apply_Swapped(kind, a, b) ==
  CASE kind = "ADD" -> kop_add(a, b) [] kind = "MUL" -> kop_mul(a, b)
    [] kind = "DIV" -> kop_div(b, a) [] kind = "POW" -> kop_pow(b, a)

Apply(kind, a, b) ==
  CASE kind = "ADD" -> kop_add(a, b) [] kind = "MUL" -> kop_mul(a, b)
    [] kind = "DIV" -> kop_div(a, b) [] kind = "POW" -> kop_pow(a, b)

\* kcall: only functions can be called, and return what they like.
kcall(fn) == IF fn.type = "func" THEN Results \cup {NULL} ELSE {Exit}

-----------------------------------------------------------------------------
\* A frame waits while a call for its next operand is active.
Frame(node) == [node |-> node, vals |-> <<>>, waits |-> FALSE]
Top  == calls[Len(calls)]
Kind == Top.node.kind
With(vals, waits) == [calls EXCEPT ![Len(calls)] = [node |-> Top.node, vals |-> vals, waits |-> waits]]
Active(kinds, waits) == pc = "run" /\ Kind \in kinds /\ Top.waits = waits /\ UNCHANGED tree

\* The call returns v, and gives back the operands it holds.
Return(v) ==
  /\ calls' = Front(calls) /\ val' = v
  /\ refs' = refs - Len(Top.vals) + (IF v = NULL THEN 0 ELSE 1)
  /\ pc' = IF Len(calls) = 1 THEN "done" ELSE "run"

Stop(status) == pc' = status /\ UNCHANGED <<calls, val, refs>>
Fed == UNCHANGED starved
Result(v) == IF v = Exit THEN Stop("abort") ELSE Return(v)

\* VAL: a new reference to the constant.
EvalVal == Active({"VAL"}, FALSE) /\ Return(Literals[Top.node.subs[1].kind]) /\ Fed

\* Names and the other operators are not evaluated yet: an assertion.
EvalUnsupported ==
  /\ pc = "run" /\ Kind \notin {"VAL", "CALL"} \cup Binary
  /\ Stop("abort") /\ UNCHANGED tree /\ Fed

\* The list of a call cannot be made: an assertion.
EvalNoList ==
  /\ Active({"CALL"}, FALSE) /\ Top.vals = <<>> /\ OutOfMemory
  /\ Stop("abort") /\ starved' = TRUE

\* The next operand, in the order of the sub nodes.
EvalOperand ==
  /\ Active({"CALL"} \cup Binary, FALSE)
  /\ Len(Top.vals) < Len(Top.node.subs)
  /\ calls' = Append(With(Top.vals, TRUE), Frame(Top.node.subs[Len(Top.vals) + 1]))
  /\ UNCHANGED <<val, refs, pc>> /\ Fed

\* The capacity klist_push has recorded, in bytes, for n elements.
ListCap[n \in Nat] ==
  IF n = 0 THEN 0 ELSE IF ListCap[n - 1] < n THEN kmem_nextcap(ListCap[n - 1], Pointer * n) ELSE ListCap[n - 1]

\* Mutant of EvalOperandDone: the left operand is kept when the right one has no value.
EvalOperandDone_Keeps ==
  /\ Active({"CALL"} \cup Binary, TRUE) /\ Fed
  /\ IF val = NULL
     THEN /\ calls' = Front(calls) /\ pc' = IF Len(calls) = 1 THEN "done" ELSE "run"
          /\ UNCHANGED <<val, refs>>
     ELSE /\ calls' = With(Append(Top.vals, val), FALSE)
          /\ val' = NULL /\ UNCHANGED <<refs, pc>>

\* An operand without a value ends the call, which gives back the ones before it;
\* a value is kept (for a call in a list, which takes a reference of its own).
EvalOperandDone ==
  /\ Active({"CALL"} \cup Binary, TRUE) /\ Fed
  /\ IF val = NULL THEN Return(NULL)
     ELSE /\ calls' = With(Append(Top.vals, val), FALSE)
          /\ val' = NULL
          /\ pc' = IF Kind = "CALL" /\ Pointer * (Len(Top.vals) + 1) > ListCap[Len(Top.vals) + 1]
                   THEN "wild" ELSE "run"
          /\ UNCHANGED refs

\* All operands are there: the operator, or the function.
Ready(kinds) == Active(kinds, FALSE) /\ Top.vals # <<>> /\ Len(Top.vals) = Len(Top.node.subs)
EvalApply ==
  /\ Ready({"CALL"} \cup Binary) /\ Fed
  /\ \E v \in IF Kind = "CALL" THEN kcall(Top.vals[1]) ELSE Apply(Kind, Top.vals[1], Top.vals[2]) : Result(v)

\* An operator on numbers has a result, in an object that cannot be had.
EvalNoMemory ==
  /\ Ready(Binary) /\ OutOfMemory
  /\ Apply(Kind, Top.vals[1], Top.vals[2]) \ {NULL} # {}
  /\ Number(Top.vals[1]) /\ Number(Top.vals[2])
  /\ Return(NULL) /\ starved' = TRUE

Init ==
  /\ calls = <<Frame(tree)>> /\ val = NULL /\ refs = 0 /\ starved = FALSE /\ pc = "run"

Next ==
  \/ EvalVal \/ EvalUnsupported \/ EvalNoList
  \/ EvalOperand \/ EvalOperandDone \/ EvalApply \/ EvalNoMemory

-----------------------------------------------------------------------------
\* Types, and a frame never holds more operands than its node has.
TypeOK ==
  /\ val = NULL \/ val.type \in Types
  /\ refs \in Nat /\ starved \in BOOLEAN
  /\ \A k \in DOMAIN calls :
       /\ Len(calls[k].vals) <= Len(calls[k].node.subs)
       /\ \A j \in DOMAIN calls[k].vals : calls[k].vals[j].type \in Types
       /\ k < Len(calls) => calls[k].waits
  /\ pc \in {"run", "done", "abort", "wild"} /\ (pc = "run" => calls # <<>>)

\* Every reference taken is held: by a frame, or as the value on its way to a caller.
\* So none is lost and none is given back twice, whichever way a call ends; after the
\* last one only the result is left.
EvalBalanced ==
  pc \in {"run", "done"} =>
    refs = (IF val = NULL THEN 0 ELSE 1) + SumFunction([k \in DOMAIN calls |-> Len(calls[k].vals)])
=============================================================================

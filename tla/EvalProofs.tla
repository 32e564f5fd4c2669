------------------------------ MODULE EvalProofs ------------------------------
(***************************************************************************)
(* Proofs about the evaluator: whatever the tree, the constants and what   *)
(* functions return, and wherever memory runs out, the references it holds *)
(* are those its frames and its result account for (EvalBalanced); no      *)
(* operand is taken that a node has not, and every value has a type.       *)
(***************************************************************************)
EXTENDS Eval, Counting

\* The references a value on its way stands for, and those the frames c hold.
Owed(v) == IF v = NULL THEN 0 ELSE 1
Lens(c) == [k \in DOMAIN c |-> Len(c[k].vals)]
Held(c) == SumFunction(Lens(c))

IsFrame(f) == f = [node |-> f.node, vals |-> f.vals, waits |-> f.waits] /\ IsSeq(f.vals)

\* Frames, of which all but the last wait for the one above.
Frames(c) ==
  /\ IsSeq(c) /\ c # <<>>
  /\ \A k \in 1..Len(c) : IsFrame(c[k])
  /\ \A k \in 1..(Len(c) - 1) : c[k].waits = TRUE

\* The inductive invariant: a value is on its way only to a frame that waits for it.
IInv ==
  /\ pc = "run" => Frames(calls) /\ (val # NULL => Top.waits = TRUE) /\ refs = Owed(val) + Held(calls)
  /\ pc = "done" => refs = Owed(val) /\ calls = <<>>
  /\ pc \in {"abort", "wild"} => refs \in Nat

(***************************************************************************)
(* What the frames hold.                                                   *)
(***************************************************************************)

\* The operands of the frames, counted frame by frame.
LEMMA LensAddends ==
  ASSUME NEW c, IsSeq(c), \A k \in 1..Len(c) : IsSeq(c[k].vals)
  PROVE  Addends(Lens(c), Len(c)) /\ \A k \in 1..Len(c) : Lens(c)[k] = Len(c[k].vals)
<1>1. Len(c) \in Nat /\ DOMAIN c = 1..Len(c)
  BY Longer
<1>2. \A k \in 1..Len(c) : Len(c[k].vals) \in Nat
  BY Longer
<1> QED
  BY <1>1, <1>2 DEF Lens, Addends

LEMMA HeldType ==
  ASSUME NEW c, IsSeq(c), \A k \in 1..Len(c) : IsSeq(c[k].vals)
  PROVE  Held(c) \in Nat /\ (Len(c) = 0 => Held(c) = 0)
BY LensAddends, SeqSum DEF Held

\* One frame more at the end.
LEMMA HeldMore ==
  ASSUME NEW c, IsSeq(c), NEW d, IsSeq(d), Len(d) = Len(c) + 1,
         \A k \in 1..Len(d) : IsSeq(d[k].vals),
         \A k \in 1..Len(c) : d[k].vals = c[k].vals
  PROVE  Held(d) = Held(c) + Len(d[Len(c) + 1].vals)
<1>1. Len(c) \in Nat
  BY Longer
<1>2. \A k \in 1..Len(c) : IsSeq(c[k].vals) /\ k \in 1..Len(d)
  BY <1>1
<1>3. Addends(Lens(c), Len(c)) /\ Addends(Lens(d), Len(c) + 1)
  BY <1>2, LensAddends
<1>4. /\ \A k \in 1..Len(c) : Lens(c)[k] = Len(c[k].vals)
      /\ \A k \in 1..Len(d) : Lens(d)[k] = Len(d[k].vals)
      /\ Len(c) + 1 \in 1..Len(d)
  <2>1. \A k \in 1..Len(c) : Lens(c)[k] = Len(c[k].vals)
    BY <1>2, LensAddends
  <2>2. \A k \in 1..Len(d) : Lens(d)[k] = Len(d[k].vals)
    BY LensAddends
  <2> QED
    BY <1>1, <2>1, <2>2
<1> QED
  <2>1. \A k \in 1..Len(c) : Lens(d)[k] = Lens(c)[k]
    BY <1>2, <1>4
  <2>2. SumFunction(Lens(d)) = SumFunction(Lens(c)) + Lens(d)[Len(c) + 1]
    BY <1>3, <2>1, SeqSumAppend
  <2> QED
    BY <1>4, <2>2 DEF Held

\* The last frame changes.
LEMMA HeldLast ==
  ASSUME NEW c, IsSeq(c), c # <<>>, NEW d, IsSeq(d), Len(d) = Len(c),
         \A k \in 1..Len(c) : IsSeq(c[k].vals) /\ IsSeq(d[k].vals),
         \A k \in 1..(Len(c) - 1) : d[k].vals = c[k].vals
  PROVE  Held(d) = Held(c) - Len(c[Len(c)].vals) + Len(d[Len(c)].vals)
<1> DEFINE n == Len(c) - 1
<1>1. n \in Nat /\ n + 1 = Len(c)
  BY Longer, Shorter
<1>2. Addends(Lens(c), n + 1) /\ Addends(Lens(d), n + 1)
  BY <1>1, LensAddends
<1>3. /\ \A k \in 1..(n + 1) : Lens(c)[k] = Len(c[k].vals) /\ Lens(d)[k] = Len(d[k].vals)
      /\ \A k \in 1..n : k \in 1..(n + 1)
  BY <1>1, LensAddends
<1>4. \A k \in 1..n : Lens(d)[k] = Lens(c)[k]
  BY <1>3
<1> HIDE DEF n
<1>5. SumFunction(Lens(d)) = SumFunction(Lens(c)) - Lens(c)[n + 1] + Lens(d)[n + 1]
  BY <1>1, <1>2, <1>4, SeqSumLast
<1>6. n + 1 \in 1..(n + 1)
  BY <1>1
<1> QED
  BY <1>1, <1>3, <1>5, <1>6 DEF Held

(***************************************************************************)
(* The steps.                                                              *)
(***************************************************************************)

\* An active call: its frame is the last, and its references are counted.
LEMMA InCall ==
  ASSUME IInv, pc = "run"
  PROVE  /\ IsSeq(calls) /\ calls # <<>> /\ Len(calls) \in Nat \ {0} /\ IsFrame(Top)
         /\ \A k \in 1..Len(calls) : IsFrame(calls[k]) /\ IsSeq(calls[k].vals)
         /\ \A k \in 1..(Len(calls) - 1) : calls[k].waits = TRUE /\ k \in 1..Len(calls)
         /\ (val # NULL => Top.waits = TRUE)
         /\ refs = Owed(val) + Held(calls) /\ Held(calls) \in Nat
         /\ Len(Top.vals) \in Nat
<1>1. Frames(calls) /\ (val # NULL => Top.waits = TRUE) /\ refs = Owed(val) + Held(calls)
  BY DEF IInv
<1>2. IsSeq(calls) /\ calls # <<>> /\ Len(calls) \in Nat \ {0}
  BY <1>1, Shorter DEF Frames
<1>3. \A k \in 1..Len(calls) : IsFrame(calls[k]) /\ IsSeq(calls[k].vals)
  BY <1>1 DEF Frames, IsFrame
<1>4. Len(calls) \in 1..Len(calls)
  BY <1>2
<1>5. Held(calls) \in Nat
  BY <1>2, <1>3, HeldType
<1>6. Len(Top.vals) \in Nat
  BY <1>3, <1>4, Longer DEF Top
<1>7. \A k \in 1..(Len(calls) - 1) : k \in 1..Len(calls)
  BY <1>2
<1> QED
  BY <1>1, <1>2, <1>3, <1>4, <1>5, <1>6, <1>7 DEF Frames, Top

\* A call that ends hands its operands back, and its value over.
LEMMA ReturnInv ==
  ASSUME IInv, pc = "run", val = NULL, NEW v, Return(v)
  PROVE  IInv'
<1> DEFINE n == Len(calls)
<1>1. /\ IsSeq(calls) /\ calls # <<>> /\ n \in Nat \ {0}
      /\ \A k \in 1..n : IsFrame(calls[k]) /\ IsSeq(calls[k].vals)
      /\ \A k \in 1..(n - 1) : calls[k].waits = TRUE /\ k \in 1..n
      /\ refs = Held(calls) /\ Held(calls) \in Nat /\ Len(Top.vals) \in Nat
  <2>1. refs = Owed(val) + Held(calls) /\ Held(calls) \in Nat /\ Owed(val) = 0
    BY InCall DEF Owed
  <2>2. refs = Held(calls)
    BY <2>1
  <2>3. IsSeq(calls) /\ calls # <<>> /\ n \in Nat \ {0} /\ Len(Top.vals) \in Nat
    BY InCall
  <2>4. /\ \A k \in 1..n : IsFrame(calls[k]) /\ IsSeq(calls[k].vals)
        /\ \A k \in 1..(n - 1) : calls[k].waits = TRUE /\ k \in 1..n
    BY InCall
  <2> QED
    BY <2>1, <2>2, <2>3, <2>4
<1>2. calls' = SubSeq(calls, 1, n - 1) /\ val' = v /\ refs' = refs - Len(Top.vals) + Owed(v)
  BY DEF Return, Front, Owed
<1>3. IsSeq(calls') /\ Len(calls') = n - 1 /\ \A k \in 1..(n - 1) : calls'[k] = calls[k]
  BY <1>1, <1>2, Shorter
<1>4. \A k \in 1..Len(calls') : IsFrame(calls'[k]) /\ IsSeq(calls'[k].vals) /\ calls'[k].waits = TRUE
  BY <1>1, <1>3
<1>5. Held(calls) = Held(calls') + Len(Top.vals) /\ Held(calls') \in Nat
  <2>1. Held(calls') \in Nat
    BY <1>3, <1>4, HeldType
  <2>2. n = Len(calls') + 1
    BY <1>1, <1>3
  <2>3. \A k \in 1..Len(calls') : calls[k].vals = calls'[k].vals
    BY <1>3
  <2>4. Held(calls) = Held(calls') + Len(calls[Len(calls') + 1].vals)
    BY <1>1, <1>3, <2>2, <2>3, HeldMore
  <2> QED
    BY <2>1, <2>2, <2>4 DEF Top
<1>6. Owed(v) \in Nat
  BY DEF Owed
<1>7. refs' = Owed(v) + Held(calls')
  <2> DEFINE h == Held(calls')
             x == Len(Top.vals)
             y == Owed(v)
  <2>1. h \in Nat /\ x \in Nat /\ y \in Nat /\ refs' = h + x - x + y
    BY <1>1, <1>2, <1>5, <1>6
  <2> HIDE DEF h, x, y
  <2>2. refs' = y + h
    BY <2>1
  <2> QED
    BY <2>2 DEF y, h
<1>8. CASE n = 1
  <2>1. pc' = "done" /\ Len(calls') = 0
    BY <1>3, <1>8 DEF Return
  <2>2. Held(calls') = 0
    BY <1>3, <1>4, <2>1, HeldType
  <2>3. calls' = <<>>
    BY <1>3, <2>1 DEF IsSeq
  <2> QED
    BY <1>2, <1>6, <1>7, <2>1, <2>2, <2>3 DEF IInv
<1>9. CASE n # 1
  <2>1. pc' = "run" /\ Len(calls') \in Nat \ {0} /\ calls' # <<>>
    BY <1>1, <1>3, <1>9 DEF Return
  <2>2. Frames(calls') /\ Len(calls') \in 1..Len(calls')
    <3>1. \A k \in 1..(Len(calls') - 1) : k \in 1..Len(calls')
      BY <2>1
    <3> QED
      BY <1>3, <1>4, <2>1, <3>1 DEF Frames
  <2>3. Top'.waits = TRUE
    BY <1>4, <2>2 DEF Top
  <2> QED
    BY <1>2, <1>7, <2>1, <2>2, <2>3 DEF IInv
<1> QED
  BY <1>8, <1>9

\* A call that stops the program leaves all references where they are.
LEMMA StopInv ==
  ASSUME IInv, pc = "run", NEW status \in {"abort", "wild"}, Stop(status)
  PROVE  IInv'
<1>1. refs \in Nat
  BY InCall DEF Owed
<1> QED
  BY <1>1 DEF Stop, IInv

\* A call for an operand: a new frame above the one that waits for it.
LEMMA OperandInv ==
  ASSUME IInv, EvalOperand
  PROVE  IInv'
<1> DEFINE n == Len(calls)
           f == [node |-> Top.node, vals |-> Top.vals, waits |-> TRUE]
           g == Frame(Top.node.subs[Len(Top.vals) + 1])
           c == [calls EXCEPT ![n] = f]
<1>1. pc = "run" /\ Top.waits = FALSE /\ calls' = Append(c, g) /\ UNCHANGED <<val, refs, pc>>
  BY DEF EvalOperand, Active, With
<1>2. /\ IsSeq(calls) /\ calls # <<>> /\ n \in Nat \ {0}
      /\ refs = Owed(val) + Held(calls) /\ val = NULL
  BY <1>1, InCall
<1>3. /\ \A k \in 1..n : IsFrame(calls[k]) /\ IsSeq(calls[k].vals)
      /\ \A k \in 1..(n - 1) : calls[k].waits = TRUE /\ k \in 1..n
      /\ IsFrame(Top)
  BY <1>1, InCall
<1>4. IsFrame(f) /\ f.waits = TRUE /\ f.vals = calls[n].vals
  BY <1>3 DEF IsFrame, Top
<1>5. IsFrame(g) /\ g.vals = <<>> /\ Len(g.vals) = 0
  <2>1. <<>> \in Seq({})
    OBVIOUS
  <2> QED
    BY <2>1 DEF IsFrame, Frame, IsSeq
<1> HIDE DEF f, g
<1>6. IsSeq(c) /\ c # <<>> /\ Len(c) = n /\ c[n] = f /\ \A k \in 1..(n - 1) : c[k] = calls[k]
  BY <1>2, Changed
<1> HIDE DEF c
<1>7. /\ IsSeq(calls') /\ calls' # <<>> /\ Len(calls') = n + 1 /\ calls'[n + 1] = g
      /\ \A k \in 1..n : calls'[k] = c[k]
  BY <1>1, <1>6, Longer
<1>8. ASSUME NEW k \in 1..n
      PROVE  IsFrame(calls'[k]) /\ calls'[k].waits = TRUE /\ calls'[k].vals = calls[k].vals
  <2>1. CASE k = n
    BY <1>4, <1>6, <1>7, <2>1
  <2>2. CASE k \in 1..(n - 1)
    BY <1>3, <1>6, <1>7, <2>2
  <2>3. k = n \/ k \in 1..(n - 1)
    BY <1>2
  <2> QED
    BY <2>1, <2>2, <2>3
<1>9. /\ \A k \in 1..(n + 1) : k \in 1..n \/ k = n + 1
      /\ n + 1 - 1 = n
  BY <1>2
<1>10. Frames(calls')
  <2>1. \A k \in 1..Len(calls') : IsFrame(calls'[k])
    BY <1>5, <1>7, <1>8, <1>9
  <2>2. \A k \in 1..(Len(calls') - 1) : calls'[k].waits = TRUE
    <3>1. Len(calls') - 1 = n
      BY <1>7, <1>9
    <3> QED
      BY <1>8, <3>1
  <2> QED
    BY <1>7, <2>1, <2>2 DEF Frames
<1>11. Held(calls') = Held(calls)
  <2>1. \A k \in 1..Len(calls') : IsSeq(calls'[k].vals)
    BY <1>10 DEF Frames, IsFrame
  <2>2. Held(calls') = Held(calls) + Len(calls'[n + 1].vals)
    BY <1>2, <1>7, <1>8, <2>1, HeldMore
  <2>3. Len(calls'[n + 1].vals) = 0 /\ Held(calls) \in Nat
    BY <1>1, <1>5, <1>7, InCall
  <2> QED
    BY <2>2, <2>3
<1> QED
  BY <1>1, <1>2, <1>10, <1>11 DEF IInv

\* A value that has come: the waiting frame keeps it, with its reference.
LEMMA OperandDoneInv ==
  ASSUME IInv, EvalOperandDone
  PROVE  IInv'
<1> DEFINE n == Len(calls)
           f == [node |-> Top.node, vals |-> Append(Top.vals, val), waits |-> FALSE]
<1>1. pc = "run" /\ Top.waits = TRUE
  BY DEF EvalOperandDone, Active
<1>2. CASE val = NULL
  BY <1>1, <1>2, ReturnInv DEF EvalOperandDone
<1>3. CASE val # NULL
  <2>1. /\ calls' = [calls EXCEPT ![n] = f] /\ val' = NULL /\ refs' = refs
        /\ pc' \in {"wild", "run"}
    BY <1>3 DEF EvalOperandDone, With
  <2>2. IsSeq(calls) /\ calls # <<>> /\ n \in Nat \ {0}
    BY <1>1, InCall
  <2>3. refs = Owed(val) + Held(calls) /\ Held(calls) \in Nat /\ Owed(val) = 1
    BY <1>1, <1>3, InCall DEF Owed
  <2>4. /\ \A k \in 1..n : IsFrame(calls[k]) /\ IsSeq(calls[k].vals)
        /\ \A k \in 1..(n - 1) : calls[k].waits = TRUE /\ k \in 1..n
        /\ IsFrame(Top)
    BY <1>1, InCall
  <2>5. IsFrame(f) /\ Len(f.vals) = Len(calls[n].vals) + 1 /\ Len(calls[n].vals) \in Nat
    <3>1. /\ IsSeq(Append(Top.vals, val))
          /\ Len(Append(Top.vals, val)) = Len(Top.vals) + 1
          /\ Len(Top.vals) \in Nat
      BY <2>4, Longer DEF IsFrame
    <3> QED
      BY <3>1 DEF IsFrame, Top
  <2> HIDE DEF f
  <2>6. /\ IsSeq(calls') /\ calls' # <<>> /\ Len(calls') = n /\ calls'[n] = f
        /\ \A k \in 1..(n - 1) : calls'[k] = calls[k]
    <3> DEFINE c == [calls EXCEPT ![n] = f]
    <3>1. /\ IsSeq(c) /\ c # <<>> /\ Len(c) = n /\ c[n] = f
          /\ \A k \in 1..(n - 1) : c[k] = calls[k]
      BY <2>2, Changed
    <3>2. calls' = c
      BY <2>1
    <3> HIDE DEF c
    <3> QED
      BY <3>1, <3>2
  <2>7. \A k \in 1..n : k \in 1..(n - 1) \/ k = n
    BY <2>2
  <2>8. Frames(calls')
    <3>1. \A k \in 1..n : IsFrame(calls'[k])
      BY <2>4, <2>5, <2>6, <2>7
    <3>2. \A k \in 1..(n - 1) : calls'[k].waits = TRUE
      BY <2>4, <2>6
    <3> QED
      BY <2>6, <3>1, <3>2 DEF Frames
  <2>9. Held(calls') = Held(calls) - Len(calls[n].vals) + Len(calls'[n].vals)
    <3>1. \A k \in 1..n : IsSeq(calls[k].vals) /\ IsSeq(calls'[k].vals)
      BY <2>4, <2>6, <2>8 DEF Frames, IsFrame
    <3> QED
      BY <2>2, <2>6, <3>1, HeldLast
  <2>10. Held(calls') = Held(calls) + 1
    <3> DEFINE h == Held(calls)
               x == Len(calls[n].vals)
    <3>1. h \in Nat /\ x \in Nat /\ Held(calls') = h - x + (x + 1)
      BY <2>3, <2>5, <2>6, <2>9
    <3> HIDE DEF h, x
    <3>2. Held(calls') = h + 1
      BY <3>1
    <3> QED
      BY <3>2 DEF h
  <2>11. refs' = Owed(val') + Held(calls')
    <3>1. Owed(val') = 0
      BY <2>1 DEF Owed
    <3> QED
      BY <2>1, <2>3, <2>10, <3>1
  <2>12. refs' \in Nat
    BY <2>1, <2>3
  <2> QED
    BY <2>1, <2>8, <2>11, <2>12 DEF IInv
<1> QED
  BY <1>2, <1>3

\* The first frame, of the tree to evaluate.
LEMMA BeginInv ==
  ASSUME NEW node, calls = <<Frame(node)>>, val = NULL, refs = 0, pc = "run"
  PROVE  IInv
<1>1. IsSeq(calls) /\ Len(calls) = 1 /\ calls # <<>> /\ calls[1] = Frame(node)
  <2>1. calls \in Seq({Frame(node)})
    OBVIOUS
  <2> QED
    BY <2>1 DEF IsSeq
<1>2. IsFrame(Frame(node)) /\ Len(Frame(node).vals) = 0
  <2>1. <<>> \in Seq({})
    OBVIOUS
  <2> QED
    BY <2>1 DEF IsFrame, Frame, IsSeq
<1>3. Frames(calls)
  BY <1>1, <1>2 DEF Frames
<1> DEFINE e == <<>>
<1>4. IsSeq(e) /\ Len(e) = 0
  <2>1. e \in Seq({})
    OBVIOUS
  <2> QED
    BY <2>1 DEF IsSeq
<1> HIDE DEF e
<1>5. Held(calls) = 0
  <2>1. \A k \in 1..Len(calls) : IsSeq(calls[k].vals)
    BY <1>3 DEF Frames, IsFrame
  <2>2. Len(calls) = Len(e) + 1 /\ \A k \in 1..Len(e) : calls[k].vals = e[k].vals
    BY <1>1, <1>4
  <2>3. Held(calls) = Held(e) + Len(calls[Len(e) + 1].vals)
    BY <1>1, <1>4, <2>1, <2>2, HeldMore
  <2>4. Held(e) = 0 /\ Len(e) + 1 = 1
    <3>1. \A k \in 1..Len(e) : IsSeq(e[k].vals)
      BY <1>4
    <3> QED
      BY <1>4, <3>1, HeldType
  <2> QED
    BY <1>1, <1>2, <2>3, <2>4
<1> QED
  BY <1>3, <1>5 DEF IInv, Owed

\* Every step of the evaluator keeps the invariant.
LEMMA NextInv ==
  ASSUME IInv, [Next]_vars
  PROVE  IInv'
<1>1. CASE EvalVal
  <2>1. pc = "run" /\ Top.waits = FALSE /\ \E v : Return(v)
    BY <1>1 DEF EvalVal, Active
  <2>2. val = NULL
    BY <2>1, InCall
  <2> QED
    BY <2>1, <2>2, ReturnInv
<1>2. CASE EvalUnsupported \/ EvalNoList
  BY <1>2, StopInv DEF EvalUnsupported, EvalNoList, Active
<1>3. CASE EvalOperand
  BY <1>3, OperandInv
<1>4. CASE EvalOperandDone
  BY <1>4, OperandDoneInv
<1>5. CASE EvalApply
  <2>1. pc = "run" /\ Top.waits = FALSE /\ \E v : Result(v)
    BY <1>5 DEF EvalApply, Ready, Active
  <2>2. val = NULL
    BY <2>1, InCall
  <2>3. PICK v : Result(v)
    BY <2>1
  <2>4. Return(v) \/ Stop("abort")
    BY <2>3 DEF Result
  <2> QED
    BY <2>1, <2>2, <2>4, ReturnInv, StopInv
<1>6. CASE EvalNoMemory
  <2>1. pc = "run" /\ Top.waits = FALSE /\ Return(NULL)
    BY <1>6 DEF EvalNoMemory, Ready, Active
  <2>2. val = NULL
    BY <2>1, InCall
  <2> QED
    BY <2>1, <2>2, ReturnInv
<1>7. CASE UNCHANGED vars
  BY <1>7 DEF IInv, vars, Top
<1> QED
  BY <1>1, <1>2, <1>3, <1>4, <1>5, <1>6, <1>7 DEF Next

\* What the invariant says of the references.
LEMMA InvBalanced ==
  ASSUME IInv
  PROVE  EvalBalanced
<1>1. CASE pc = "run"
  BY <1>1 DEF IInv, EvalBalanced, Owed, Held, Lens
<1>2. CASE pc = "done"
  <2>1. refs = Owed(val) /\ calls = <<>>
    BY <1>2 DEF IInv
  <2>2. IsSeq(<<>>) /\ Len(<<>>) = 0
    <3>1. <<>> \in Seq({})
      OBVIOUS
    <3> QED
      BY <3>1 DEF IsSeq
  <2>3. Held(calls) = 0
    BY <2>1, <2>2, HeldType
  <2>4. refs = Owed(val) + Held(calls)
    BY <2>1, <2>3 DEF Owed
  <2> QED
    BY <2>4 DEF EvalBalanced, Owed, Held, Lens
<1> QED
  BY <1>1, <1>2 DEF EvalBalanced

(***************************************************************************)
(* Types: no call of kvm_eval takes more operands than its node has.       *)
(***************************************************************************)
Statuses == {"run", "done", "abort", "wild"}

\* A set of nodes with all they consist of, in which every VAL holds a constant, and the
\* trees made of such nodes.
Proper(S) ==
  \A n \in S :
    /\ IsSeq(n.subs)
    /\ n.kind = "VAL" => n.subs[1].kind \in DOMAIN Literals
    /\ n.kind \in {"CALL"} \cup Binary => \A k \in DOMAIN n.subs : n.subs[k] \in S
IsTree(n) == \E S : n \in S /\ Proper(S)

\* What a call returns, and what a frame holds: one operand less than its node has, at
\* most, while it waits for another.
IsValue(v) == v = NULL \/ v.type \in Types
Typed(f) ==
  /\ IsTree(f.node) /\ Len(f.vals) <= Len(f.node.subs)
  /\ f.waits = TRUE => Len(f.vals) < Len(f.node.subs)
  /\ \A j \in DOMAIN f.vals : f.vals[j].type \in Types

TInv ==
  /\ IsValue(val) /\ starved \in BOOLEAN /\ pc \in Statuses /\ (pc = "run" => calls # <<>>)
  /\ IsSeq(calls) /\ \A k \in 1..Len(calls) : Typed(calls[k])
  /\ \A k \in 1..(Len(calls) - 1) : calls[k].waits = TRUE

\* The last element of a sequence, and those before it.
LEMMA Places ==
  ASSUME NEW n \in Nat \ {0}
  PROVE  /\ \A k \in 1..n : k \in 1..(n - 1) \/ k = n
         /\ \A k \in 1..(n + 1) : k \in 1..n \/ k = n + 1
         /\ \A k \in 1..(n - 1) : k \in 1..n
         /\ \A k \in 1..(n - 2) : k \in 1..(n - 1)
         /\ n \in 1..n /\ n + 1 - 1 = n /\ (n - 1) - 1 = n - 2
OBVIOUS

\* A node's subs are trees.
LEMMA SubTree ==
  ASSUME NEW n, IsTree(n)
  PROVE  /\ Len(n.subs) \in Nat /\ DOMAIN n.subs = 1..Len(n.subs)
         /\ n.kind = "VAL" => n.subs[1].kind \in DOMAIN Literals
         /\ n.kind \in {"CALL"} \cup Binary => \A k \in 1..Len(n.subs) : IsTree(n.subs[k])
<1>1. PICK S : n \in S /\ Proper(S)
  BY DEF IsTree
<1>2. IsSeq(n.subs)
  BY <1>1 DEF Proper
<1>3. Len(n.subs) \in Nat /\ DOMAIN n.subs = 1..Len(n.subs)
  BY <1>2, Longer
<1>4. n.kind \in {"CALL"} \cup Binary => \A k \in 1..Len(n.subs) : IsTree(n.subs[k])
  BY <1>1, <1>3 DEF Proper, IsTree
<1> QED
  BY <1>1, <1>3, <1>4 DEF Proper

\* A new frame has taken no operand.
LEMMA FrameTyped ==
  ASSUME NEW n, IsTree(n)
  PROVE  Typed(Frame(n)) /\ Frame(n).waits = FALSE
<1> DEFINE g == Frame(n)
           e == <<>>
<1>1. g.node = n /\ g.vals = e /\ g.waits = FALSE
  BY DEF Frame
<1>2. Len(e) = 0 /\ DOMAIN e = {}
  OBVIOUS
<1>3. Len(n.subs) \in Nat
  BY SubTree
<1> HIDE DEF g, e
<1>4. Len(g.vals) <= Len(g.node.subs) /\ \A j \in DOMAIN g.vals : g.vals[j].type \in Types
  BY <1>1, <1>2, <1>3
<1> QED
  BY <1>1, <1>4 DEF Typed, g

\* What the operators and the functions return: a value, or Exit.
LEMMA MadeTypes ==
  ASSUME NEW type \in {"int", "float"}, NEW n
  PROVE  /\ \A v \in Made(type, n) : IsValue(v)
         /\ \A v \in Untracked(type) : IsValue(v)
BY DEF Made, Untracked, IsValue, Value, Types

LEMMA ApplyTypes ==
  ASSUME NEW kind \in Binary, NEW a, NEW b, NEW v \in Apply(kind, a, b)
  PROVE  v = Exit \/ IsValue(v)
<1>1. ASSUME v \in kop_add(a, b)
      PROVE  v = Exit \/ IsValue(v)
  <2>1. \/ v = Exit \/ v \in Untracked("int") \/ v = NULL
        \/ v \in Made("int", a.num + b.num)
    BY <1>1 DEF kop_add
  <2> QED
    BY <2>1, MadeTypes DEF IsValue
<1>2. ASSUME v \in kop_mul(a, b)
      PROVE  v = Exit \/ IsValue(v)
  <2>1. \E type \in {"int", "float"} :
          v = Exit \/ v \in Untracked(type) \/ v \in Made(type, (a.num * b.num) \div 2)
    BY <1>2 DEF kop_mul
  <2> QED
    BY <2>1, MadeTypes
<1>3. ASSUME v \in kop_div(a, b)
      PROVE  v = Exit \/ IsValue(v)
  <2>1. \/ v = Exit \/ v = NULL \/ v \in Untracked("float")
        \/ v \in Made("float", (2 * a.num) \div b.num)
    BY <1>3 DEF kop_div
  <2> QED
    BY <2>1, MadeTypes DEF IsValue
<1>4. ASSUME v \in kop_pow(a, b)
      PROVE  v = Exit \/ IsValue(v)
  <2>1. v = Exit \/ v = NULL \/ v \in Untracked("float") \/ \E n : v \in Made("float", n)
    BY <1>4 DEF kop_pow
  <2> QED
    BY <2>1, MadeTypes DEF IsValue
<1> QED
  BY <1>1, <1>2, <1>3, <1>4 DEF Apply, Binary

\* The ways a step changes the active calls.
LEMMA CallsTyped ==
  ASSUME IInv, TInv, pc = "run", IsValue(val'), starved' \in BOOLEAN, pc' \in Statuses,
         \/ calls' = calls
         \/ calls' = Front(calls) /\ (pc' = "run" => Len(calls) # 1)
         \/ \E f : calls' = [calls EXCEPT ![Len(calls)] = f] /\ Typed(f)
         \/ \E f, g : /\ calls' = Append([calls EXCEPT ![Len(calls)] = f], g)
                      /\ Typed(f) /\ f.waits = TRUE /\ Typed(g)
  PROVE  TInv'
<1> DEFINE n == Len(calls)
           Ok(c) == /\ IsSeq(c) /\ \A k \in 1..Len(c) : Typed(c[k])
                    /\ \A k \in 1..(Len(c) - 1) : c[k].waits = TRUE
                    /\ pc' = "run" => c # <<>>
<1>1. IsSeq(calls) /\ calls # <<>> /\ n \in Nat \ {0}
  BY InCall
<1>2. /\ \A k \in 1..n : Typed(calls[k])
      /\ \A k \in 1..(n - 1) : calls[k].waits = TRUE
  BY DEF TInv
<1>3. /\ \A k \in 1..n : k \in 1..(n - 1) \/ k = n
      /\ \A k \in 1..(n + 1) : k \in 1..n \/ k = n + 1
      /\ \A k \in 1..(n - 1) : k \in 1..n
      /\ \A k \in 1..(n - 2) : k \in 1..(n - 1)
      /\ n + 1 - 1 = n /\ (n - 1) - 1 = n - 2
  BY <1>1, Places
<1>4. ASSUME Ok(calls')
      PROVE  TInv'
  <2>1. (IsValue(val))' /\ (\A k \in 1..Len(calls) : Typed(calls[k]))'
    <3>1. \A k \in 1..Len(calls') : Typed(calls'[k])
      BY <1>4
    <3> QED
      BY <3>1 DEF IsValue, NULL, Typed, IsTree, Proper
  <2> QED
    BY <1>4, <2>1 DEF TInv
<1>5. CASE calls' = calls
  BY <1>1, <1>2, <1>4, <1>5
<1>6. CASE calls' = Front(calls) /\ (pc' = "run" => n # 1)
  <2>1. calls' = SubSeq(calls, 1, n - 1)
    BY <1>6 DEF Front
  <2>2. IsSeq(calls') /\ Len(calls') = n - 1 /\ \A k \in 1..(n - 1) : calls'[k] = calls[k]
    BY <1>1, <2>1, Shorter
  <2>3. \A k \in 1..Len(calls') : Typed(calls'[k])
    BY <1>2, <1>3, <2>2
  <2>4. \A k \in 1..(Len(calls') - 1) : calls'[k].waits = TRUE
    BY <1>2, <1>3, <2>2
  <2>5. pc' = "run" => calls' # <<>>
    <3>1. n # 1 => n - 1 # 0
      BY <1>1
    <3> QED
      BY <1>6, <2>2, <3>1
  <2> QED
    BY <1>4, <2>2, <2>3, <2>4, <2>5
<1>7. ASSUME NEW f, Typed(f)
      PROVE  LET c == [calls EXCEPT ![n] = f]
             IN  /\ IsSeq(c) /\ c # <<>> /\ Len(c) = n /\ c[n] = f
                 /\ \A k \in 1..n : Typed(c[k])
                 /\ \A k \in 1..(n - 1) : c[k].waits = TRUE
  <2> DEFINE c == [calls EXCEPT ![n] = f]
  <2>1. IsSeq(c) /\ c # <<>> /\ Len(c) = n /\ c[n] = f /\ \A k \in 1..(n - 1) : c[k] = calls[k]
    BY <1>1, Changed
  <2> HIDE DEF c
  <2>2. \A k \in 1..n : Typed(c[k])
    BY <1>2, <1>3, <1>7, <2>1
  <2>3. \A k \in 1..(n - 1) : c[k].waits = TRUE
    BY <1>2, <2>1
  <2> QED
    BY <2>1, <2>2, <2>3 DEF c
<1>8. ASSUME NEW f, calls' = [calls EXCEPT ![n] = f], Typed(f)
      PROVE  TInv'
  <2> DEFINE c == [calls EXCEPT ![n] = f]
  <2>1. Ok(c)
    BY <1>7, <1>8
  <2>2. calls' = c
    BY <1>8
  <2> HIDE DEF c
  <2> QED
    BY <1>4, <2>1, <2>2
<1>9. ASSUME NEW f, NEW g, calls' = Append([calls EXCEPT ![n] = f], g),
             Typed(f), f.waits = TRUE, Typed(g)
      PROVE  TInv'
  <2> DEFINE c == [calls EXCEPT ![n] = f]
             t == Append(c, g)
  <2>1. /\ IsSeq(c) /\ Len(c) = n /\ c[n] = f
        /\ \A k \in 1..n : Typed(c[k])
        /\ \A k \in 1..(n - 1) : c[k].waits = TRUE
    BY <1>7, <1>9
  <2>2. calls' = t
    BY <1>9
  <2> HIDE DEF c
  <2>3. IsSeq(t) /\ t # <<>> /\ Len(t) = n + 1 /\ t[n + 1] = g /\ \A k \in 1..n : t[k] = c[k]
    <3>1. IsSeq(c)
      BY <2>1
    <3>2. /\ IsSeq(t) /\ t # <<>> /\ Len(t) = Len(c) + 1 /\ t[Len(c) + 1] = g
          /\ \A k \in 1..Len(c) : t[k] = c[k]
      BY <3>1, Longer
    <3> HIDE DEF t
    <3> QED
      BY <2>1, <3>2
  <2> HIDE DEF t
  <2>4. \A k \in 1..Len(t) : Typed(t[k])
    BY <1>3, <1>9, <2>1, <2>3
  <2>5. \A k \in 1..(Len(t) - 1) : t[k].waits = TRUE
    <3>1. Len(t) - 1 = n
      BY <1>1, <2>3
    <3>2. \A k \in 1..n : c[k].waits = TRUE
      BY <1>3, <1>9, <2>1
    <3> QED
      BY <2>3, <3>1, <3>2
  <2>6. Ok(t)
    BY <2>3, <2>4, <2>5
  <2> QED
    BY <1>4, <2>2, <2>6
<1> QED
  BY <1>5, <1>6, <1>8, <1>9

\* The frame of an active call.
LEMMA TopTyped ==
  ASSUME IInv, TInv, pc = "run"
  PROVE  /\ Typed(Top) /\ IsSeq(Top.vals) /\ Len(Top.vals) \in Nat /\ IsValue(val) /\ IsTree(Top.node)
         /\ IsValue(NULL)
<1>1. Len(calls) \in Nat \ {0} /\ IsFrame(Top) /\ Len(Top.vals) \in Nat
  BY InCall
<1>2. Typed(Top)
  <2>1. Len(calls) \in 1..Len(calls)
    BY <1>1, Places
  <2> QED
    BY <2>1 DEF TInv, Top
<1> QED
  BY <1>1, <1>2 DEF TInv, IsFrame, IsValue, Typed

LEMMA ReturnTypes ==
  ASSUME IInv, TInv, pc = "run", NEW v, IsValue(v), Return(v), starved' \in BOOLEAN
  PROVE  TInv'
<1>1. calls' = Front(calls) /\ IsValue(val') /\ pc' \in Statuses /\ (pc' = "run" => Len(calls) # 1)
  BY DEF Return, Statuses
<1> QED
  BY <1>1, CallsTyped

LEMMA StopTypes ==
  ASSUME IInv, TInv, pc = "run", NEW status \in {"abort", "wild"}, Stop(status), starved' \in BOOLEAN
  PROVE  TInv'
<1>1. calls' = calls /\ IsValue(val') /\ pc' \in Statuses
  BY DEF Stop, Statuses, TInv
<1> QED
  BY <1>1, CallsTyped

LEMMA OperandTypes ==
  ASSUME IInv, TInv, EvalOperand
  PROVE  TInv'
<1> DEFINE m == Len(Top.vals)
           f == [node |-> Top.node, vals |-> Top.vals, waits |-> TRUE]
           g == Frame(Top.node.subs[m + 1])
<1>1. /\ pc = "run" /\ Top.node.kind \in {"CALL"} \cup Binary /\ m < Len(Top.node.subs)
      /\ calls' = Append([calls EXCEPT ![Len(calls)] = f], g) /\ UNCHANGED <<val, starved, pc>>
  BY DEF EvalOperand, Active, Kind, With, Fed
<1>2. Typed(Top) /\ m \in Nat /\ IsValue(val) /\ IsTree(Top.node)
  BY <1>1, TopTyped
<1>3. Typed(f) /\ f.waits = TRUE
  BY <1>1, <1>2 DEF Typed
<1>4. Typed(g)
  <2>1. Len(Top.node.subs) \in Nat /\ \A k \in 1..Len(Top.node.subs) : IsTree(Top.node.subs[k])
    BY <1>1, <1>2, SubTree
  <2>2. m + 1 \in 1..Len(Top.node.subs)
    <3> DEFINE l == Len(Top.node.subs)
    <3>1. l \in Nat /\ m \in Nat /\ m < l
      BY <1>1, <1>2, <2>1
    <3> HIDE DEF l, m
    <3>2. m + 1 \in 1..l
      BY <3>1
    <3> QED
      BY <3>2 DEF l
  <2> HIDE DEF m
  <2> QED
    BY <2>1, <2>2, FrameTyped
<1>5. IsValue(val') /\ starved' \in BOOLEAN /\ pc' \in Statuses
  BY <1>1, <1>2 DEF Statuses, TInv
<1> HIDE DEF f, g
<1> QED
  BY <1>1, <1>3, <1>4, <1>5, CallsTyped

LEMMA OperandDoneTypes ==
  ASSUME IInv, TInv, EvalOperandDone
  PROVE  TInv'
<1> DEFINE f == [node |-> Top.node, vals |-> Append(Top.vals, val), waits |-> FALSE]
<1>1. pc = "run" /\ Top.waits = TRUE /\ starved' \in BOOLEAN
  BY DEF EvalOperandDone, Active, Fed, TInv
<1>2. /\ Typed(Top) /\ IsSeq(Top.vals) /\ Len(Top.vals) \in Nat /\ IsValue(val) /\ IsTree(Top.node)
      /\ IsValue(NULL)
  BY <1>1, TopTyped
<1>3. CASE val = NULL
  BY <1>1, <1>2, <1>3, ReturnTypes DEF EvalOperandDone
<1>4. CASE val # NULL
  <2>1. /\ calls' = [calls EXCEPT ![Len(calls)] = f] /\ val' = NULL /\ pc' \in Statuses
    BY <1>4 DEF EvalOperandDone, With, Statuses
  <2>2. Typed(f)
    <3> DEFINE t == Append(Top.vals, val)
               m == Len(Top.vals)
               l == Len(Top.node.subs)
    <3>1. /\ IsSeq(t) /\ Len(t) = m + 1 /\ t[m + 1] = val /\ \A k \in 1..m : t[k] = Top.vals[k]
      BY <1>2, Longer
    <3>2. DOMAIN t = 1..(m + 1) /\ DOMAIN Top.vals = 1..m
      BY <1>2, <3>1, Longer
    <3>3. m < l /\ m \in Nat /\ l \in Nat /\ \A j \in 1..m : Top.vals[j].type \in Types
      BY <1>1, <1>2, <3>2, SubTree DEF Typed
    <3>4. val.type \in Types
      BY <1>2, <1>4 DEF IsValue
    <3> HIDE DEF t, m, l
    <3>5. Len(t) <= l
      BY <3>1, <3>3
    <3>6. \A j \in 1..(m + 1) : j \in 1..m \/ j = m + 1
      BY <3>3
    <3>7. \A j \in DOMAIN t : t[j].type \in Types
      BY <3>1, <3>2, <3>3, <3>4, <3>6
    <3>8. f.node = Top.node /\ f.vals = t /\ f.waits = FALSE
      BY DEF t
    <3> HIDE DEF f
    <3> QED
      BY <1>2, <3>5, <3>7, <3>8 DEF Typed, l
  <2> HIDE DEF f
  <2> QED
    BY <1>1, <1>2, <2>1, <2>2, CallsTyped
<1> QED
  BY <1>3, <1>4

\* Every step of the evaluator keeps the types.
LEMMA NextTypes ==
  ASSUME EvalAssumption, IInv, TInv, [Next]_vars
  PROVE  TInv'
<1>1. CASE EvalVal
  <2>1. /\ pc = "run" /\ Top.node.kind = "VAL" /\ Return(Literals[Top.node.subs[1].kind])
        /\ starved' \in BOOLEAN
    BY <1>1 DEF EvalVal, Active, Kind, Fed, TInv
  <2>2. Top.node.subs[1].kind \in DOMAIN Literals
    BY <2>1, TopTyped, SubTree
  <2>3. IsValue(Literals[Top.node.subs[1].kind])
    BY <2>2 DEF EvalAssumption, IsValue
  <2> QED
    BY <2>1, <2>3, ReturnTypes
<1>2. CASE EvalUnsupported \/ EvalNoList
  BY <1>2, StopTypes DEF EvalUnsupported, EvalNoList, Active, Fed, TInv
<1>3. CASE EvalOperand
  BY <1>3, OperandTypes
<1>4. CASE EvalOperandDone
  BY <1>4, OperandDoneTypes
<1>5. CASE EvalApply
  <2>1. pc = "run" /\ Kind \in {"CALL"} \cup Binary /\ starved' \in BOOLEAN
    BY <1>5 DEF EvalApply, Ready, Active, Fed, TInv
  <2>2. PICK v \in IF Kind = "CALL" THEN kcall(Top.vals[1]) ELSE Apply(Kind, Top.vals[1], Top.vals[2]) : Result(v)
    BY <1>5 DEF EvalApply
  <2>3. v = Exit \/ IsValue(v)
    <3>1. CASE Kind = "CALL"
      <4>1. v = Exit \/ v = NULL \/ v \in Results
        BY <2>2, <3>1 DEF kcall
      <4> QED
        BY <4>1 DEF EvalAssumption, IsValue
    <3>2. CASE Kind # "CALL"
      BY <2>1, <2>2, <3>2, ApplyTypes
    <3> QED
      BY <3>1, <3>2
  <2>4. Stop("abort") \/ (v # Exit /\ Return(v))
    BY <2>2 DEF Result
  <2> QED
    BY <2>1, <2>3, <2>4, ReturnTypes, StopTypes
<1>6. CASE EvalNoMemory
  <2>1. pc = "run" /\ Return(NULL) /\ starved' \in BOOLEAN
    BY <1>6 DEF EvalNoMemory, Ready, Active
  <2> QED
    BY <2>1, ReturnTypes DEF IsValue
<1>7. CASE UNCHANGED vars
  BY <1>7 DEF TInv, vars, IsValue, Typed, IsTree, Proper, NULL
<1> QED
  BY <1>1, <1>2, <1>3, <1>4, <1>5, <1>6, <1>7 DEF Next

\* The first frame.
LEMMA BeginTypes ==
  ASSUME NEW node, IsTree(node), calls = <<Frame(node)>>, val = NULL, starved = FALSE, pc = "run"
  PROVE  TInv
<1>1. IsSeq(calls) /\ Len(calls) = 1 /\ calls # <<>> /\ calls[1] = Frame(node)
  <2>1. calls \in Seq({Frame(node)})
    OBVIOUS
  <2> QED
    BY <2>1 DEF IsSeq
<1>2. Typed(calls[1])
  BY <1>1, FrameTyped
<1>3. \A k \in 1..(Len(calls) - 1) : calls[k].waits = TRUE
  BY <1>1
<1>4. starved \in BOOLEAN /\ IsValue(val) /\ pc \in Statuses
  BY DEF IsValue, Statuses
<1>5. \A k \in 1..Len(calls) : Typed(calls[k])
  BY <1>1, <1>2
<1> QED
  BY <1>1, <1>3, <1>4, <1>5 DEF TInv

\* What the two invariants say of the types.
LEMMA InvTypes ==
  ASSUME IInv, TInv
  PROVE  TypeOK
<1>1. refs \in Nat
  <2>1. CASE pc = "run"
    BY <2>1, InCall DEF Owed
  <2>2. CASE pc = "done"
    BY <2>2 DEF IInv, Owed
  <2>3. CASE pc \in {"abort", "wild"}
    BY <2>3 DEF IInv
  <2> QED
    BY <2>1, <2>2, <2>3 DEF TInv, Statuses
<1>2. DOMAIN calls = 1..Len(calls) /\ Len(calls) \in Nat
  BY Longer DEF TInv
<1>3. ASSUME NEW k \in DOMAIN calls
      PROVE  /\ Len(calls[k].vals) <= Len(calls[k].node.subs)
             /\ \A j \in DOMAIN calls[k].vals : calls[k].vals[j].type \in Types
             /\ k < Len(calls) => calls[k].waits
  <2>1. Typed(calls[k])
    BY <1>2 DEF TInv
  <2>2. k < Len(calls) => k \in 1..(Len(calls) - 1)
    BY <1>2
  <2> QED
    BY <2>1, <2>2 DEF TInv, Typed
<1> QED
  BY <1>1, <1>3 DEF TypeOK, TInv, IsValue, Statuses
=============================================================================

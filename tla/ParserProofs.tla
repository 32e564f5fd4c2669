----------------------------- MODULE ParserProofs -----------------------------
(***************************************************************************)
(* Proofs about the parser: whatever the tokens, and whichever allocation  *)
(* fails, each object it has allocated is owned once, or is one of those   *)
(* the failing allocation was to hold (Balanced); the parser looks at no   *)
(* token past the last (TypeOK); and no helper buffer is overrun before    *)
(* its 21st element (ShortBuffersHold).                                    *)
(***************************************************************************)
EXTENDS Parser, Counting

\* ks_parse, once called, is never about to be called again.
Statuses == {"run", "done", "abort", "wild"}

LEMMA NextStatus ==
  ASSUME Next
  PROVE  pc = "run" /\ pc' \in Statuses
<1> USE DEF At, Pure, Abort, AbortShort, Return, ReturnWithout, After, Status, Statuses
<1>1. CASE Binary
  BY <1>1 DEF Binary, Operand, LeftOperand, Operator, RightOperand, NoOperator
<1>2. CASE Postfix
  <2>1. CASE Atom
    BY <2>1 DEF Atom
  <2>2. CASE Attribute
    BY <2>2 DEF Attribute
  <2>3. CASE OpenCall \/ Argument
    BY <2>3 DEF OpenCall, Argument
  <2>4. CASE PushArgument
    BY <2>4 DEF PushArgument
  <2>5. CASE CloseCall \/ NoPostfix
    BY <2>5 DEF CloseCall, NoPostfix
  <2> QED
    BY <1>2, <2>1, <2>2, <2>3, <2>4, <2>5 DEF Postfix
<1>3. CASE Statement
  <2>1. CASE ExpressionStatement \/ Unimplemented \/ Import \/ RetOrThrow
    BY <2>1 DEF ExpressionStatement, Unimplemented, Import, RetOrThrow
  <2>2. CASE EndStatement
    BY <2>2 DEF EndStatement
  <2>3. CASE BeginIf \/ IfCondition
    BY <2>3 DEF BeginIf, IfCondition
  <2>4. CASE IfBody
    BY <2>4 DEF IfBody
  <2>5. CASE IfElse \/ IfBuild
    BY <2>5 DEF IfElse, IfBuild
  <2>6. CASE BeginBlock \/ BlockStatement \/ PushStatement \/ EndBlock \/ PushFails
    BY <2>6 DEF BeginBlock, BlockStatement, PushStatement, EndBlock, PushFails
  <2> QED
    BY <1>3, <2>1, <2>2, <2>3, <2>4, <2>5, <2>6 DEF Statement
<1> QED
  BY <1>1, <1>2, <1>3 DEF Next

(***************************************************************************)
(* The objects of several nodes.                                           *)
(***************************************************************************)
AreNodes(s) == IsSeq(s) /\ \A k \in 1..Len(s) : s[k].size \in Nat
Sizes(s) == [k \in DOMAIN s |-> s[k].size]

LEMMA SizeAddends ==
  ASSUME NEW s, AreNodes(s)
  PROVE  /\ Addends(Sizes(s), Len(s)) /\ \A k \in 1..Len(s) : Sizes(s)[k] = s[k].size
         /\ Size(s) = SumFunction(Sizes(s))
<1>1. Len(s) \in Nat /\ DOMAIN s = 1..Len(s)
  BY Longer DEF AreNodes
<1> QED
  BY <1>1 DEF AreNodes, Sizes, Addends, Size

LEMMA SizeType ==
  ASSUME NEW s, AreNodes(s)
  PROVE  Len(s) \in Nat /\ Size(s) \in Nat /\ (Len(s) = 0 => Size(s) = 0)
BY SizeAddends, SeqSum, Longer DEF AreNodes

\* One node more at the end.
LEMMA SizeMore ==
  ASSUME NEW s, AreNodes(s), NEW t, AreNodes(t), Len(t) = Len(s) + 1,
         \A k \in 1..Len(s) : t[k].size = s[k].size
  PROVE  Size(t) = Size(s) + t[Len(s) + 1].size
<1>1. Len(s) \in Nat
  BY SizeType
<1>2. Len(s) + 1 \in 1..Len(t) /\ \A k \in 1..Len(s) : k \in 1..Len(t)
  BY <1>1
<1>3. Addends(Sizes(s), Len(s)) /\ Addends(Sizes(t), Len(s) + 1)
  BY SizeAddends
<1>4. /\ \A k \in 1..Len(s) : Sizes(s)[k] = s[k].size
      /\ \A k \in 1..Len(t) : Sizes(t)[k] = t[k].size
  BY SizeAddends
<1>5. \A k \in 1..Len(s) : Sizes(t)[k] = Sizes(s)[k]
  BY <1>2, <1>4
<1>6. SumFunction(Sizes(t)) = SumFunction(Sizes(s)) + Sizes(t)[Len(s) + 1]
  BY <1>3, <1>5, SeqSumAppend
<1> QED
  BY <1>2, <1>4, <1>6, SizeAddends

LEMMA SizeAppend ==
  ASSUME NEW s, AreNodes(s), NEW x, x.size \in Nat
  PROVE  AreNodes(Append(s, x)) /\ Size(Append(s, x)) = Size(s) + x.size
<1> DEFINE t == Append(s, x)
<1>1. /\ Len(s) \in Nat /\ IsSeq(t) /\ Len(t) = Len(s) + 1 /\ t[Len(s) + 1] = x
      /\ \A k \in 1..Len(s) : t[k] = s[k]
  BY Longer DEF AreNodes
<1> HIDE DEF t
<1>2. \A k \in 1..Len(t) : k \in 1..Len(s) \/ k = Len(s) + 1
  BY <1>1
<1>3. AreNodes(t)
  BY <1>1, <1>2 DEF AreNodes
<1>4. Size(t) = Size(s) + x.size
  BY <1>1, <1>3, SizeMore
<1> QED
  BY <1>3, <1>4 DEF t

\* No node, one, and two.
LEMMA SizeFew ==
  /\ AreNodes(<<>>) /\ Size(<<>>) = 0
  /\ \A x : x.size \in Nat => AreNodes(<<x>>) /\ Size(<<x>>) = x.size
  /\ \A x, y : x.size \in Nat /\ y.size \in Nat =>
       AreNodes(<<x, y>>) /\ Size(<<x, y>>) = x.size + y.size
<1> DEFINE e == <<>>
<1>1. AreNodes(e) /\ Len(e) = 0
  <2>1. e \in Seq({})
    OBVIOUS
  <2> QED
    BY <2>1 DEF AreNodes, IsSeq
<1>2. Size(e) = 0
  <2> HIDE DEF e
  <2> QED
    BY <1>1, SizeType
<1>3. ASSUME NEW x, x.size \in Nat
      PROVE  AreNodes(<<x>>) /\ Size(<<x>>) = x.size
  <2>1. Append(e, x) = <<x>>
    OBVIOUS
  <2> HIDE DEF e
  <2>2. AreNodes(Append(e, x)) /\ Size(Append(e, x)) = Size(e) + x.size
    BY <1>1, <1>3, SizeAppend
  <2> QED
    BY <1>2, <1>3, <2>1, <2>2
<1>4. ASSUME NEW x, NEW y, x.size \in Nat, y.size \in Nat
      PROVE  AreNodes(<<x, y>>) /\ Size(<<x, y>>) = x.size + y.size
  <2> DEFINE s == <<x>>
             t == <<x, y>>
  <2>1. AreNodes(s) /\ Size(s) = x.size /\ Len(s) = 1 /\ s[1] = x
    BY <1>3, <1>4
  <2>2. IsSeq(t) /\ Len(t) = 2 /\ t[1] = x /\ t[2] = y
    <3>1. t \in Seq({x, y})
      OBVIOUS
    <3> QED
      BY <3>1 DEF IsSeq
  <2> HIDE DEF s, t
  <2>3. AreNodes(t)
    BY <1>4, <2>2 DEF AreNodes
  <2>4. Size(t) = Size(s) + t[2].size
    <3>1. Len(t) = Len(s) + 1 /\ Len(s) + 1 = 2
      BY <2>1, <2>2
    <3>2. \A k \in 1..Len(s) : t[k].size = s[k].size
      BY <2>1, <2>2
    <3>3. Size(t) = Size(s) + t[Len(s) + 1].size
      BY <2>1, <2>3, <3>1, <3>2, SizeMore
    <3> QED
      BY <3>1, <3>3
  <2> QED
    BY <2>1, <2>2, <2>3, <2>4 DEF t
<1> QED
  BY <1>1, <1>2, <1>3, <1>4

\* A sequence of nodes cut in two.
LEMMA SizeCut ==
  ASSUME NEW s, AreNodes(s), NEW m \in 0..Len(s)
  PROVE  /\ AreNodes(SubSeq(s, 1, m)) /\ AreNodes(SubSeq(s, m + 1, Len(s)))
         /\ Len(SubSeq(s, 1, m)) = m
         /\ Size(s) = Size(SubSeq(s, 1, m)) + Size(SubSeq(s, m + 1, Len(s)))
<1> DEFINE P(n) == SubSeq(s, 0 + 1, n)
           Q(n) == SubSeq(s, m + 1, n)
           L == Len(s)
<1>1. L \in Nat /\ m \in Nat /\ m <= L /\ 0 + 1 = 1
  BY SizeType
<1>2. ASSUME NEW n \in 0..L
      PROVE  AreNodes(P(n)) /\ Len(P(n)) = n /\ \A k \in 1..n : P(n)[k] = s[k]
  <2>1. n \in Nat /\ 0 <= n /\ n <= L /\ n - 0 = n /\ \A k \in 1..n : 0 + k = k /\ k \in 1..L
    BY <1>1
  <2>2. IsSeq(P(n)) /\ Len(P(n)) = n - 0 /\ \A k \in 1..(n - 0) : P(n)[k] = s[0 + k]
    <3>1. IsSeq(s) /\ 0 \in Nat
      BY DEF AreNodes
    <3> QED
      BY <2>1, <3>1, Part
  <2> HIDE DEF P
  <2>3. IsSeq(P(n)) /\ Len(P(n)) = n /\ \A k \in 1..n : P(n)[k] = s[k]
    BY <2>1, <2>2
  <2> QED
    BY <2>1, <2>3 DEF AreNodes
<1>3. ASSUME NEW n \in m..L
      PROVE  AreNodes(Q(n)) /\ Len(Q(n)) = n - m /\ \A k \in 1..(n - m) : Q(n)[k] = s[m + k]
  <2>1. n \in Nat /\ m <= n /\ n <= L /\ \A k \in 1..(n - m) : m + k \in 1..L
    BY <1>1
  <2>2. IsSeq(Q(n)) /\ Len(Q(n)) = n - m /\ \A k \in 1..(n - m) : Q(n)[k] = s[m + k]
    BY <1>1, <2>1, Part DEF AreNodes
  <2> HIDE DEF Q
  <2> QED
    BY <2>1, <2>2 DEF AreNodes
<1> HIDE DEF P, Q
<1> DEFINE Bad == {n \in Nat : n \in m..L /\ Size(P(n)) # Size(P(m)) + Size(Q(n))}
<1>4. Bad = {}
  <2>1. SUFFICES ASSUME Bad # {} PROVE FALSE
    OBVIOUS
  <2>2. PICK n \in Bad : \A j \in Bad : n <= j
    <3> HIDE DEF Bad
    <3>1. Bad \in SUBSET Nat
      BY DEF Bad
    <3> QED
      BY <2>1, <3>1, LeastNat
  <2>3. n # m
    <3>1. SUFFICES ASSUME n = m PROVE FALSE
      OBVIOUS
    <3>2. m \in m..L /\ m \in 0..L /\ m - m = 0
      BY <1>1
    <3>3. AreNodes(Q(m)) /\ Len(Q(m)) = 0 /\ AreNodes(P(m))
      BY <1>2, <1>3, <3>2
    <3>4. Size(Q(m)) = 0 /\ Size(P(m)) \in Nat
      BY <3>3, SizeType
    <3> QED
      BY <2>2, <3>1, <3>4
  <2> DEFINE j == n - 1
  <2>4. j \in Nat /\ j \in m..L /\ j < n /\ n = j + 1 /\ n \in m..L /\ n \in 0..L /\ j \in 0..L
        /\ n - m = j - m + 1 /\ m + (j - m + 1) = n /\ m \in 0..L
    BY <1>1, <2>2, <2>3
  <2>5. j \notin Bad
    BY <2>2, <2>4
  <2> HIDE DEF j
  <2>6. Size(P(j)) = Size(P(m)) + Size(Q(j))
    BY <2>4, <2>5
  <2>7. Size(P(n)) = Size(P(j)) + s[n].size
    <3>1. AreNodes(P(j)) /\ AreNodes(P(n)) /\ Len(P(n)) = Len(P(j)) + 1 /\ Len(P(j)) = j
      BY <1>2, <2>4
    <3>2. \A k \in 1..j : k \in 1..n /\ P(j)[k] = s[k]
      BY <1>2, <2>4
    <3>3. \A k \in 1..n : P(n)[k] = s[k]
      BY <1>2, <2>4
    <3>4. \A k \in 1..Len(P(j)) : P(n)[k].size = P(j)[k].size
      BY <3>1, <3>2, <3>3
    <3>5. Size(P(n)) = Size(P(j)) + P(n)[j + 1].size
      BY <3>1, <3>4, SizeMore
    <3>6. j + 1 \in 1..n
      BY <2>4
    <3> QED
      BY <2>4, <3>3, <3>5, <3>6
  <2>8. Size(Q(n)) = Size(Q(j)) + s[n].size
    <3> DEFINE d == j - m
    <3>0. d \in Nat /\ n - m = d + 1 /\ m + (d + 1) = n
      BY <1>1, <2>4
    <3>1. AreNodes(Q(j)) /\ AreNodes(Q(n)) /\ Len(Q(n)) = d + 1 /\ Len(Q(j)) = d
      BY <1>3, <2>4, <3>0
    <3>2. \A k \in 1..d : Q(j)[k] = s[m + k]
      BY <1>3, <2>4
    <3>3. \A k \in 1..(d + 1) : Q(n)[k] = s[m + k]
      BY <1>3, <2>4, <3>0
    <3> HIDE DEF d
    <3>4. (\A k \in 1..d : k \in 1..(d + 1)) /\ d + 1 \in 1..(d + 1)
      BY <3>0
    <3>5. \A k \in 1..Len(Q(j)) : Q(n)[k].size = Q(j)[k].size
      BY <3>1, <3>2, <3>3, <3>4
    <3>6. Size(Q(n)) = Size(Q(j)) + Q(n)[d + 1].size
      BY <3>1, <3>5, SizeMore
    <3> QED
      BY <3>0, <3>3, <3>4, <3>6
  <2>9. /\ Size(P(m)) \in Nat /\ Size(Q(j)) \in Nat /\ s[n].size \in Nat
        /\ Size(P(n)) # Size(P(m)) + Size(Q(n))
    <3>1. AreNodes(P(m)) /\ AreNodes(Q(j))
      BY <1>2, <1>3, <2>4
    <3>2. n \in 1..L
      BY <2>4
    <3> QED
      BY <2>2, <3>1, <3>2, SizeType DEF AreNodes
  <2> DEFINE x == Size(P(m))
             y == Size(Q(j))
             z == s[n].size
  <2>10. /\ x \in Nat /\ y \in Nat /\ z \in Nat
         /\ Size(P(n)) = (x + y) + z /\ Size(Q(n)) = y + z /\ Size(P(n)) # x + Size(Q(n))
    BY <2>6, <2>7, <2>8, <2>9
  <2> HIDE DEF x, y, z
  <2> QED
    BY <2>10
<1>5. L \in m..L /\ L \in 0..L /\ m \in 0..L
  BY <1>1
<1>6. Size(P(L)) = Size(P(m)) + Size(Q(L))
  BY <1>1, <1>4, <1>5
<1>7. P(L) = s
  <2>1. AreNodes(P(L)) /\ Len(P(L)) = L /\ \A k \in 1..L : P(L)[k] = s[k]
    BY <1>2, <1>5
  <2>2. PICK S : s \in Seq(S)
    BY DEF AreNodes, IsSeq
  <2>3. PICK T : P(L) \in Seq(T)
    BY <2>1 DEF AreNodes, IsSeq
  <2> QED
    BY <2>1, <2>2, <2>3
<1>8. AreNodes(P(m)) /\ AreNodes(Q(L)) /\ Len(P(m)) = m
  BY <1>2, <1>3, <1>5
<1> QED
  BY <1>1, <1>6, <1>7, <1>8 DEF P, Q

(***************************************************************************)
(* Allocations.                                                            *)
(***************************************************************************)

\* Outcome o of an operation that takes n objects over from its caller: what it
\* returns accounts for them and for what it has allocated, but for what is lost.
Accounts(o, n) ==
  /\ o.val.size \in Nat /\ o.lost \in Nat /\ o.live \in Int
  /\ o.live - o.lost = live - lost - n + o.val.size

LEMMA NodeSizes ==
  /\ NULL.size = 0
  /\ \A kind, tok : Hollow(kind, tok).size = 1
  /\ \A text : Value(text).size = 1
  /\ \A kind, tok, subs : Node(kind, tok, subs).size = 2 + Size(subs)
BY DEF NULL, Hollow, Value, Node

LEMMA NewzAccounts ==
  ASSUME live \in Int, lost \in Nat, NEW tok, NEW kind, NEW subs, AreNodes(subs),
         NEW o \in ks_ast_newz(tok, kind, subs)
  PROVE  Accounts(o, Size(subs)) /\ DOMAIN o = {"val", "live", "fails", "lost"}
<1> DEFINE n == Size(subs)
<1>1. n \in Nat
  BY SizeType
<1>2. \/ o = Outcome(NULL, -n) \/ o = Outcome(Node(kind, tok, subs), 2)
      \/ o = Short(NULL, 0, n) \/ o = Short(Hollow(kind, tok), 1, n)
  BY DEF ks_ast_newz, OrShort
<1>3. Node(kind, tok, subs).size = 2 + n
  BY NodeSizes
<1> DEFINE new == Node(kind, tok, subs)
           hollow == Hollow(kind, tok)
<1>4. NULL.size = 0 /\ new.size = 2 + n /\ hollow.size = 1
  BY <1>3, NodeSizes
<1> HIDE DEF n, new, hollow
<1>5. CASE o = Outcome(NULL, -n)
  BY <1>1, <1>4, <1>5 DEF Outcome, Accounts, n
<1>6. CASE o = Outcome(new, 2)
  BY <1>1, <1>4, <1>6 DEF Outcome, Accounts, n
<1>7. CASE o = Short(NULL, 0, n)
  BY <1>1, <1>4, <1>7 DEF Short, Accounts, n
<1>8. CASE o = Short(hollow, 1, n)
  BY <1>1, <1>4, <1>8 DEF Short, Accounts, n
<1> QED
  BY <1>2, <1>5, <1>6, <1>7, <1>8 DEF new, hollow

LEMMA WrapAccounts ==
  ASSUME live \in Int, lost \in Nat, NEW k, NEW o \in WrapString(k) \cup WrapNumber(k)
  PROVE  Accounts(o, 0)
<1>1. PICK kind : \/ o = Outcome(Wrapped(kind, k), 2) \/ o = Short(NULL, 1, 1)
                  \/ o = Short(Hollow("NAME", {k}), 1, 0)
  BY DEF WrapString, WrapNumber, OrShort
<1>2. Wrapped(kind, k).size = 2
  BY SizeFew DEF Wrapped, Node
<1> DEFINE new == Wrapped(kind, k)
           hollow == Hollow("NAME", {k})
<1>3. NULL.size = 0 /\ new.size = 2 /\ hollow.size = 1
  BY <1>2, NodeSizes
<1> HIDE DEF new, hollow
<1>4. CASE o = Outcome(new, 2)
  BY <1>3, <1>4 DEF Outcome, Accounts
<1>5. CASE o = Short(NULL, 1, 1)
  BY <1>3, <1>5 DEF Short, Accounts
<1>6. CASE o = Short(hollow, 1, 0)
  BY <1>3, <1>6 DEF Short, Accounts
<1> QED
  BY <1>1, <1>4, <1>5, <1>6 DEF new, hollow

(***************************************************************************)
(* The inductive invariant.                                                *)
(***************************************************************************)

\* The points where a rule waits for the one it has called.
Waiting == {"left", "right", "arg", "N", "cond", "body", "else", "stmt"}

\* A frame has a node of its own only in a loop over operators, and nodes in
\* its buffer only where arguments, branches or statements are gathered.
Fields == {"rule", "at", "res", "op", "hb", "room", "maxn"}
IsFrame(f) ==
  /\ DOMAIN f = Fields
  /\ f.res.size \in Nat /\ AreNodes(f.hb)
  /\ f.at \notin {"loop", "right"} => f.res = NULL
  /\ f.at \in {"start", "left", "loop", "right", "N"} => f.hb = <<>>

Frames(st) ==
  /\ IsSeq(st) /\ st # <<>>
  /\ \A k \in 1..Len(st) : IsFrame(st[k])
  /\ \A k \in 1..(Len(st) - 1) : st[k].at \in Waiting

\* The objects of a frame, and those of all frames.
Own(f) == f.res.size + Size(f.hb)
Owns(st) == [k \in DOMAIN st |-> st[k].res.size + Size(st[k].hb)]
Held(st) == SumFunction(Owns(st))

IInv ==
  /\ pc = "run" =>
       /\ Frames(stack) /\ ret.size \in Nat /\ (Top.at \notin Waiting => ret = NULL)
       /\ lost \in Nat /\ live = ret.size + Held(stack) + lost
  /\ pc = "done" =>
       stack = <<>> /\ ret.size \in Nat /\ lost \in Nat /\ live = ret.size + lost
  /\ pc \in {"abort", "wild"} => live \in Nat /\ lost \in Nat

LEMMA OwnType ==
  ASSUME NEW f, IsFrame(f)
  PROVE  Own(f) \in Nat /\ Size(f.hb) \in Nat
BY SizeType DEF IsFrame, Own

LEMMA OwnsAddends ==
  ASSUME NEW st, IsSeq(st), \A k \in 1..Len(st) : IsFrame(st[k])
  PROVE  Addends(Owns(st), Len(st)) /\ \A k \in 1..Len(st) : Owns(st)[k] = Own(st[k])
<1>1. Len(st) \in Nat /\ DOMAIN st = 1..Len(st)
  BY Longer
<1>2. \A k \in 1..Len(st) : Own(st[k]) \in Nat
  BY OwnType
<1>3. \A k \in 1..Len(st) : Owns(st)[k] = Own(st[k])
  BY <1>1 DEF Owns, Own
<1>4. DOMAIN Owns(st) = 1..Len(st)
  BY <1>1 DEF Owns
<1> QED
  BY <1>1, <1>2, <1>3, <1>4 DEF Addends

LEMMA HeldType ==
  ASSUME NEW st, IsSeq(st), \A k \in 1..Len(st) : IsFrame(st[k])
  PROVE  Held(st) \in Nat /\ (Len(st) = 0 => Held(st) = 0)
BY OwnsAddends, SeqSum DEF Held

\* One frame more at the end.
LEMMA HeldMore ==
  ASSUME NEW c, IsSeq(c), NEW d, IsSeq(d), Len(d) = Len(c) + 1,
         \A k \in 1..Len(d) : IsFrame(d[k]),
         \A k \in 1..Len(c) : d[k] = c[k]
  PROVE  Held(d) = Held(c) + Own(d[Len(c) + 1])
<1>1. Len(c) \in Nat
  BY Longer
<1>2. \A k \in 1..Len(c) : IsFrame(c[k]) /\ k \in 1..Len(d)
  BY <1>1
<1>3. Addends(Owns(c), Len(c)) /\ Addends(Owns(d), Len(c) + 1)
  BY <1>2, OwnsAddends
<1>4. \A k \in 1..Len(c) : Owns(c)[k] = Own(c[k])
  BY <1>2, OwnsAddends
<1>5. \A k \in 1..Len(d) : Owns(d)[k] = Own(d[k])
  BY OwnsAddends
<1>6. \A k \in 1..Len(c) : Owns(d)[k] = Owns(c)[k]
  BY <1>2, <1>4, <1>5
<1>7. SumFunction(Owns(d)) = SumFunction(Owns(c)) + Owns(d)[Len(c) + 1]
  BY <1>3, <1>6, SeqSumAppend
<1>8. Len(c) + 1 \in 1..Len(d)
  BY <1>1
<1> QED
  BY <1>5, <1>7, <1>8 DEF Held

\* The last frame changes.
LEMMA HeldLast ==
  ASSUME NEW c, IsSeq(c), c # <<>>, NEW d, IsSeq(d), Len(d) = Len(c),
         \A k \in 1..Len(c) : IsFrame(c[k]) /\ IsFrame(d[k]),
         \A k \in 1..(Len(c) - 1) : d[k] = c[k]
  PROVE  Held(d) = Held(c) - Own(c[Len(c)]) + Own(d[Len(c)])
<1> DEFINE n == Len(c) - 1
<1>1. n \in Nat /\ n + 1 = Len(c)
  BY Longer, Shorter
<1>2. Addends(Owns(c), n + 1) /\ Addends(Owns(d), n + 1)
  BY <1>1, OwnsAddends
<1>3. /\ \A k \in 1..(n + 1) : Owns(c)[k] = Own(c[k]) /\ Owns(d)[k] = Own(d[k])
      /\ \A k \in 1..n : k \in 1..(n + 1)
  BY <1>1, OwnsAddends
<1>4. \A k \in 1..n : Owns(d)[k] = Owns(c)[k]
  BY <1>3
<1> HIDE DEF n
<1>5. SumFunction(Owns(d)) = SumFunction(Owns(c)) - Owns(c)[n + 1] + Owns(d)[n + 1]
  BY <1>1, <1>2, <1>4, SeqSumLast
<1>6. n + 1 \in 1..(n + 1)
  BY <1>1
<1> QED
  BY <1>1, <1>3, <1>5, <1>6 DEF Held

(***************************************************************************)
(* What a step does to the stack.                                          *)
(***************************************************************************)

\* In an active call.
LEMMA InRun ==
  ASSUME IInv, pc = "run"
  PROVE  /\ IsSeq(stack) /\ stack # <<>> /\ Len(stack) \in Nat \ {0} /\ IsFrame(Top)
         /\ \A k \in 1..Len(stack) : IsFrame(stack[k])
         /\ \A k \in 1..(Len(stack) - 1) : stack[k].at \in Waiting /\ k \in 1..Len(stack)
         /\ ret.size \in Nat /\ (Top.at \notin Waiting => ret = NULL)
         /\ lost \in Nat /\ live \in Int /\ Held(stack) \in Nat
         /\ live - lost = ret.size + Held(stack)
         /\ Own(Top) \in Nat /\ Size(Top.hb) \in Nat
<1>1. Frames(stack) /\ ret.size \in Nat /\ (Top.at \notin Waiting => ret = NULL)
  BY DEF IInv
<1>2. lost \in Nat /\ live = ret.size + Held(stack) + lost
  BY DEF IInv
<1>3. IsSeq(stack) /\ stack # <<>> /\ Len(stack) \in Nat \ {0}
  BY <1>1, Shorter DEF Frames
<1>4. \A k \in 1..Len(stack) : IsFrame(stack[k])
  BY <1>1 DEF Frames
<1>5. \A k \in 1..(Len(stack) - 1) : stack[k].at \in Waiting /\ k \in 1..Len(stack)
  BY <1>1, <1>3 DEF Frames
<1>6. IsFrame(Top)
  BY <1>3, <1>4 DEF Top
<1>7. Held(stack) \in Nat
  BY <1>3, <1>4, HeldType
<1>8. live \in Int /\ live - lost = ret.size + Held(stack)
  BY <1>1, <1>2, <1>7
<1> QED
  BY <1>1, <1>2, <1>3, <1>4, <1>5, <1>6, <1>7, <1>8, OwnType

\* A rule returns v.
LEMMA ReturnStep ==
  ASSUME IInv, pc = "run", NEW v, v.size \in Nat,
         stack' = Front(stack), ret' = v,
         lost' \in Nat, live' \in Int,
         live' - lost' = live - lost - ret.size - Own(Top) + v.size,
         pc' = "wild" \/ pc' = IF Len(stack) = 1 THEN "done" ELSE "run"
  PROVE  IInv'
<1> DEFINE n == Len(stack)
<1>1. IsSeq(stack) /\ stack # <<>> /\ n \in Nat \ {0} /\ Own(Top) \in Nat
  BY InRun
<1>2. /\ \A k \in 1..n : IsFrame(stack[k])
      /\ \A k \in 1..(n - 1) : stack[k].at \in Waiting /\ k \in 1..n
  BY InRun
<1>3. ret.size \in Nat /\ live - lost = ret.size + Held(stack) /\ Held(stack) \in Nat
      /\ lost \in Nat /\ live \in Int
  BY InRun
<1>4. stack' = SubSeq(stack, 1, n - 1)
  BY DEF Front
<1>5. IsSeq(stack') /\ Len(stack') = n - 1 /\ \A k \in 1..(n - 1) : stack'[k] = stack[k]
  BY <1>1, <1>4, Shorter
<1>6. \A k \in 1..Len(stack') : IsFrame(stack'[k]) /\ stack'[k].at \in Waiting
  BY <1>2, <1>5
<1>7. Held(stack') \in Nat /\ (Len(stack') = 0 => Held(stack') = 0)
  BY <1>5, <1>6, HeldType
<1>8. Held(stack) = Held(stack') + Own(Top)
  <2>1. n = Len(stack') + 1 /\ n = n - 1 + 1
    BY <1>1, <1>5
  <2>2. \A k \in 1..Len(stack') : stack[k] = stack'[k]
    BY <1>5
  <2>3. Held(stack) = Held(stack') + Own(stack[Len(stack') + 1])
    BY <1>1, <1>2, <1>5, <2>1, <2>2, HeldMore
  <2> QED
    BY <2>1, <2>3 DEF Top
<1>9. live' = v.size + Held(stack') + lost'
  <2> DEFINE h == Held(stack')
             x == Own(Top)
             y == ret.size
             z == v.size
             d == live - lost
             m == live'
             l == lost'
  <2>1. /\ h \in Nat /\ x \in Nat /\ y \in Nat /\ z \in Nat /\ m \in Int /\ l \in Nat
        /\ d = y + (h + x) /\ m - l = d - y - x + z
    BY <1>1, <1>3, <1>7, <1>8
  <2> HIDE DEF h, x, y, z, d, m, l
  <2>2. m = z + h + l
    BY <2>1
  <2> QED
    BY <2>2 DEF m, z, h, l
<1>12. live' \in Nat
  BY <1>7, <1>9
<1>10. CASE n = 1
  <2>1. pc' \in {"wild", "done"} /\ Len(stack') = 0
    BY <1>5, <1>10
  <2>2. stack' = <<>>
    BY <1>5, <2>1 DEF IsSeq
  <2>3. live' = v.size + lost'
    BY <1>7, <1>9, <2>1
  <2> QED
    BY <1>12, <2>1, <2>2, <2>3 DEF IInv
<1>11. CASE n # 1
  <2>1. pc' \in {"wild", "run"} /\ Len(stack') \in Nat \ {0} /\ stack' # <<>>
    BY <1>1, <1>5, <1>11
  <2>2. Frames(stack') /\ Len(stack') \in 1..Len(stack')
    <3>1. \A k \in 1..(Len(stack') - 1) : k \in 1..Len(stack')
      BY <2>1
    <3> QED
      BY <1>5, <1>6, <2>1, <3>1 DEF Frames
  <2>3. Top'.at \in Waiting
    BY <1>6, <2>2 DEF Top
  <2> QED
    BY <1>9, <1>12, <2>1, <2>2, <2>3 DEF IInv
<1> QED
  BY <1>10, <1>11

\* The frame of a rule becomes f.
LEMMA WithFrame ==
  ASSUME IInv, pc = "run", NEW f, IsFrame(f)
  PROVE  /\ IsSeq(With(f)) /\ With(f) # <<>> /\ Len(With(f)) = Len(stack)
         /\ With(f)[Len(stack)] = f
         /\ \A k \in 1..Len(stack) : IsFrame(With(f)[k])
         /\ \A k \in 1..(Len(stack) - 1) : With(f)[k].at \in Waiting
         /\ Held(With(f)) = Held(stack) - Own(Top) + Own(f)
         /\ Held(With(f)) \in Nat /\ Own(f) \in Nat
<1> DEFINE n == Len(stack)
           w == With(f)
<1>1. IsSeq(stack) /\ stack # <<>> /\ n \in Nat \ {0}
  BY InRun
<1>2. /\ \A k \in 1..n : IsFrame(stack[k])
      /\ \A k \in 1..(n - 1) : stack[k].at \in Waiting /\ k \in 1..n
  BY InRun
<1>3. IsSeq(w) /\ w # <<>> /\ Len(w) = n /\ w[n] = f /\ \A k \in 1..(n - 1) : w[k] = stack[k]
  BY <1>1, Changed DEF With
<1> HIDE DEF w
<1>4. \A k \in 1..n : k \in 1..(n - 1) \/ k = n
  BY <1>1
<1>5. \A k \in 1..n : IsFrame(w[k])
  BY <1>2, <1>3, <1>4
<1>6. \A k \in 1..(n - 1) : w[k].at \in Waiting
  BY <1>2, <1>3
<1>7. Held(w) = Held(stack) - Own(Top) + Own(f)
  <2>1. \A k \in 1..n : IsFrame(stack[k]) /\ IsFrame(w[k])
    BY <1>2, <1>5
  <2>2. Held(w) = Held(stack) - Own(stack[n]) + Own(w[n])
    BY <1>1, <1>3, <2>1, HeldLast
  <2> QED
    BY <1>3, <2>2 DEF Top
<1>8. Held(w) \in Nat
  BY <1>3, <1>5, HeldType
<1> QED
  BY <1>3, <1>5, <1>6, <1>7, <1>8, OwnType DEF w

\* A rule goes on, and has taken what was returned to it.
LEMMA ContinueStep ==
  ASSUME IInv, pc = "run", NEW f, IsFrame(f), Continue(f),
         ret'.size \in Nat, f.at \notin Waiting => ret' = NULL,
         lost' \in Nat, live' \in Int,
         live' - lost' = live - lost - ret.size - Own(Top) + ret'.size + Own(f),
         pc' \in {"run", "wild"}
  PROVE  IInv'
<1> DEFINE n == Len(stack)
<1>1. /\ IsSeq(stack') /\ stack' # <<>> /\ Len(stack') = n /\ stack'[n] = f
      /\ \A k \in 1..n : IsFrame(stack'[k])
      /\ \A k \in 1..(n - 1) : stack'[k].at \in Waiting
      /\ Held(stack') = Held(stack) - Own(Top) + Own(f)
      /\ Held(stack') \in Nat /\ Own(f) \in Nat
  BY WithFrame DEF Continue
<1>2. ret.size \in Nat /\ live - lost = ret.size + Held(stack) /\ Held(stack) \in Nat
      /\ Own(Top) \in Nat /\ lost \in Nat /\ live \in Int
  BY InRun
<1>3. live' = ret'.size + Held(stack') + lost'
  <2> DEFINE h == Held(stack)
             x == Own(Top)
             y == ret.size
             z == ret'.size
             g == Own(f)
             d == live - lost
             m == live'
             l == lost'
             j == Held(stack')
  <2>1. /\ h \in Nat /\ x \in Nat /\ y \in Nat /\ z \in Nat /\ g \in Nat /\ m \in Int /\ l \in Nat
        /\ d = y + h /\ m - l = d - y - x + z + g /\ j = h - x + g
    BY <1>1, <1>2
  <2> HIDE DEF h, x, y, z, g, d, m, l, j
  <2>2. m = z + j + l
    BY <2>1
  <2> QED
    BY <2>2 DEF m, z, j, l
<1>4. Frames(stack')
  BY <1>1 DEF Frames
<1>5. Top' = f
  BY <1>1 DEF Top
<1>6. live' \in Nat
  BY <1>1, <1>3
<1> QED
  BY <1>3, <1>4, <1>5, <1>6 DEF IInv

\* A rule that begins has nothing.
LEMMA NewFrame ==
  ASSUME NEW rule
  PROVE  IsFrame(Frame(rule)) /\ Own(Frame(rule)) = 0 /\ Frame(rule).at = "start"
BY SizeFew, NodeSizes DEF IsFrame, Frame, Own, Fields

\* A rule calls another.
LEMMA CallStep ==
  ASSUME IInv, pc = "run", NEW f, IsFrame(f), NEW rule, Call(f, rule), f.at \in Waiting,
         ret' = NULL, lost' \in Nat, live' \in Int,
         live' - lost' = live - lost - ret.size - Own(Top) + Own(f),
         pc' \in {"run", "wild"}
  PROVE  IInv'
<1> DEFINE n == Len(stack)
           w == With(f)
           g == Frame(rule)
<1>1. /\ IsSeq(w) /\ w # <<>> /\ Len(w) = n /\ w[n] = f
      /\ \A k \in 1..n : IsFrame(w[k])
      /\ \A k \in 1..(n - 1) : w[k].at \in Waiting
      /\ Held(w) = Held(stack) - Own(Top) + Own(f)
      /\ Held(w) \in Nat /\ Own(f) \in Nat
  BY WithFrame
<1>2. IsFrame(g) /\ Own(g) = 0
  BY NewFrame
<1>3. stack' = Append(w, g)
  BY DEF Call
<1> HIDE DEF w, g
<1>4. /\ IsSeq(stack') /\ stack' # <<>> /\ Len(stack') = n + 1 /\ stack'[n + 1] = g
      /\ \A k \in 1..n : stack'[k] = w[k]
  <2> DEFINE t == Append(w, g)
  <2>1. /\ IsSeq(t) /\ t # <<>> /\ Len(t) = Len(w) + 1 /\ t[Len(w) + 1] = g
        /\ \A k \in 1..Len(w) : t[k] = w[k]
    <3>1. IsSeq(w)
      BY <1>1
    <3> QED
      BY <3>1, Longer, SMTT(30)
  <2> HIDE DEF t
  <2>2. stack' = t /\ Len(w) = n
    BY <1>1, <1>3 DEF t
  <2> QED
    BY <2>1, <2>2
<1>5. /\ n \in Nat \ {0} /\ n + 1 - 1 = n
      /\ \A k \in 1..n : k \in 1..(n - 1) \/ k = n
      /\ \A k \in 1..(n + 1) : k \in 1..n \/ k = n + 1
  <2>1. n \in Nat \ {0}
    BY InRun
  <2> QED
    BY <2>1
<1>6. \A k \in 1..Len(stack') : IsFrame(stack'[k])
  BY <1>1, <1>2, <1>4, <1>5
<1>7. Frames(stack')
  <2>1. \A k \in 1..n : w[k].at \in Waiting
    BY <1>1, <1>5
  <2>2. Len(stack') - 1 = n + 1 - 1
    BY <1>4
  <2>3. \A k \in 1..(Len(stack') - 1) : k \in 1..n
    BY <1>5, <2>2
  <2>4. \A k \in 1..(Len(stack') - 1) : stack'[k].at \in Waiting
    BY <1>4, <2>1, <2>3
  <2> QED
    BY <1>4, <1>6, <2>4 DEF Frames
<1>8. Held(stack') = Held(w)
  <2>1. Held(stack') = Held(w) + Own(stack'[Len(w) + 1])
    BY <1>1, <1>4, <1>6, HeldMore
  <2> QED
    BY <1>1, <1>2, <1>4, <2>1
<1>9. ret.size \in Nat /\ live - lost = ret.size + Held(stack) /\ Held(stack) \in Nat
      /\ Own(Top) \in Nat /\ lost \in Nat /\ live \in Int
  BY InRun
<1>10. live' = ret'.size + Held(stack') + lost' /\ ret'.size \in Nat
  <2> DEFINE h == Held(stack)
             x == Own(Top)
             y == ret.size
             i == Own(f)
             d == live - lost
             m == live'
             l == lost'
             j == Held(stack')
  <2>1. /\ h \in Nat /\ x \in Nat /\ y \in Nat /\ i \in Nat /\ m \in Int /\ l \in Nat
        /\ d = y + h /\ m - l = d - y - x + i /\ j = h - x + i
    BY <1>1, <1>8, <1>9
  <2> HIDE DEF h, x, y, i, d, m, l, j
  <2>2. m = 0 + j + l
    BY <2>1
  <2>3. ret'.size = 0
    BY NodeSizes
  <2> QED
    BY <2>2, <2>3 DEF m, j, l
<1>11. live' \in Nat
  BY <1>1, <1>8, <1>10
<1> QED
  BY <1>7, <1>10, <1>11 DEF IInv

(***************************************************************************)
(* The shapes the steps have.                                              *)
(***************************************************************************)

LEMMA OwnParts ==
  ASSUME NEW f, IsFrame(f)
  PROVE  /\ f.hb = <<>> => Own(f) = f.res.size
         /\ f.res = NULL => Own(f) = Size(f.hb)
         /\ f.res = NULL /\ f.hb = <<>> => Own(f) = 0
<1>1. f.res.size \in Nat /\ Size(f.hb) \in Nat /\ NULL.size = 0 /\ Size(<<>>) = 0
  BY OwnType, NodeSizes, SizeFew DEF IsFrame
<1> QED
  BY <1>1 DEF Own

\* The frame with another point, and with another node too.
LEMMA Moved ==
  ASSUME NEW f, IsFrame(f), NEW a, NEW v
  PROVE  /\ LET g == [f EXCEPT !.at = a]
            IN  DOMAIN g = Fields /\ g.at = a /\ g.res = f.res /\ g.hb = f.hb
         /\ LET g == [f EXCEPT !.at = a, !.res = v]
            IN  DOMAIN g = Fields /\ g.at = a /\ g.res = v /\ g.hb = f.hb
         /\ LET g == [f EXCEPT !.res = v]
            IN  DOMAIN g = Fields /\ g.at = f.at /\ g.res = v /\ g.hb = f.hb
BY DEF IsFrame, Fields

\* A push moves a node to the buffer.
LEMMA PushedFrame ==
  ASSUME NEW f, IsFrame(f), NEW qn, NEW node, node.size \in Nat
  PROVE  LET g == Pushed(f, qn, node)
         IN  /\ DOMAIN g = Fields /\ g.at = f.at /\ g.res = f.res
             /\ AreNodes(g.hb) /\ Size(g.hb) = Size(f.hb) + node.size
<1>1. AreNodes(f.hb) /\ DOMAIN f = Fields
  BY DEF IsFrame
<1>2. AreNodes(Append(f.hb, node)) /\ Size(Append(f.hb, node)) = Size(f.hb) + node.size
  BY <1>1, SizeAppend
<1>3. LET g == Pushed(f, qn, node)
      IN  DOMAIN g = Fields /\ g.at = f.at /\ g.res = f.res /\ g.hb = Append(f.hb, node)
  BY <1>1 DEF Pushed, Fields
<1> QED
  BY <1>2, <1>3

\* The same at another point, one where a buffer is filled.
Filled(f, qn, node, a) == [Pushed(f, qn, node) EXCEPT !.at = a]

LEMMA PushedOwn ==
  ASSUME NEW f, IsFrame(f), f.res = NULL, NEW qn, NEW node, node.size \in Nat,
         NEW a, a \notin {"start", "left", "loop", "right", "N"}
  PROVE  LET g == Filled(f, qn, node, a)
         IN  IsFrame(g) /\ g.at = a /\ Own(g) = Own(f) + node.size
<1> DEFINE h == Pushed(f, qn, node)
           g == [h EXCEPT !.at = a]
<1>1. /\ DOMAIN h = Fields /\ h.res = NULL
      /\ AreNodes(h.hb) /\ Size(h.hb) = Size(f.hb) + node.size
  BY PushedFrame
<1> HIDE DEF h
<1>2. DOMAIN g = Fields /\ g.at = a /\ g.res = NULL /\ g.hb = h.hb
  BY <1>1 DEF Fields
<1> HIDE DEF g
<1>3. IsFrame(g)
  BY <1>1, <1>2, NodeSizes DEF IsFrame
<1>4. Own(g) = Size(h.hb) /\ Own(f) = Size(f.hb)
  BY <1>2, <1>3, OwnParts
<1> QED
  BY <1>1, <1>2, <1>3, <1>4 DEF g, h, Filled

\* A call or a step that leaves what the frame has.
LEMMA QuietCall ==
  ASSUME IInv, pc = "run", NEW f, IsFrame(f), Own(f) = Own(Top), NEW rule, Call(f, rule),
         f.at \in Waiting, ret = NULL, ret' = NULL, UNCHANGED memory, pc' = "run"
  PROVE  IInv'
<1>1. lost \in Nat /\ live \in Int /\ Own(Top) \in Nat /\ ret.size = 0
  BY InRun, NodeSizes
<1>2. lost' = lost /\ live' = live
  BY DEF memory
<1>3. live' - lost' = live - lost - ret.size - Own(Top) + Own(f)
  BY <1>1, <1>2
<1> QED
  BY <1>1, <1>2, <1>3, CallStep

LEMMA QuietContinue ==
  ASSUME IInv, pc = "run", NEW f, IsFrame(f), Own(f) = Own(Top), Continue(f),
         f.at \notin Waiting => ret = NULL, UNCHANGED ret, UNCHANGED memory, pc' = "run"
  PROVE  IInv'
<1>1. lost \in Nat /\ live \in Int /\ Own(Top) \in Nat /\ ret.size \in Nat
  BY InRun
<1>2. lost' = lost /\ live' = live /\ ret' = ret
  BY DEF memory
<1>3. live' - lost' = live - lost - ret.size - Own(Top) + ret'.size + Own(f)
  BY <1>1, <1>2
<1> QED
  BY <1>1, <1>2, <1>3, ContinueStep

\* Return of v, which is all there is.
LEMMA QuietReturn ==
  ASSUME IInv, pc = "run", NEW v, v.size \in Nat, v.size = ret.size + Own(Top),
         Return(v), UNCHANGED memory
  PROVE  IInv'
<1>1. lost \in Nat /\ live \in Int /\ Own(Top) \in Nat /\ ret.size \in Nat
  BY InRun
<1>2. lost' = lost /\ live' = live
  BY DEF memory
<1>3. live' - lost' = live - lost - ret.size - Own(Top) + v.size
  BY <1>1, <1>2
<1> QED
  BY <1>1, <1>2, <1>3, ReturnStep DEF Return

\* An allocation that takes over all there is, whose node is returned.
LEMMA AllocReturn ==
  ASSUME IInv, pc = "run", NEW o, Accounts(o, ret.size + Own(Top)), Return(o.val), Take(o)
  PROVE  IInv'
<1>1. lost \in Nat /\ live \in Int /\ Own(Top) \in Nat /\ ret.size \in Nat
  BY InRun
<1>2. lost' = o.lost /\ live' = o.live
  BY DEF Take
<1>3. /\ o.val.size \in Nat /\ o.lost \in Nat /\ o.live \in Int
      /\ o.live - o.lost = live - lost - (ret.size + Own(Top)) + o.val.size
  BY DEF Accounts
<1>4. live' - lost' = live - lost - ret.size - Own(Top) + o.val.size
  <2> DEFINE x == ret.size
             y == Own(Top)
             z == o.val.size
             d == live - lost
             e == o.live - o.lost
  <2>1. x \in Nat /\ y \in Nat /\ z \in Nat /\ d \in Int /\ e = d - (x + y) + z
    BY <1>1, <1>3
  <2> HIDE DEF x, y, z, d, e
  <2>2. e = d - x - y + z
    BY <2>1
  <2> QED
    BY <1>2, <2>2 DEF x, y, z, d, e
<1> QED
  BY <1>2, <1>3, <1>4, ReturnStep DEF Return

\* An allocation whose node the frame keeps; it takes over all but rest.
LEMMA AllocContinue ==
  ASSUME IInv, pc = "run", NEW o, NEW n \in Nat, NEW rest \in Nat, Accounts(o, n),
         ret.size + Own(Top) = n + rest,
         NEW f, IsFrame(f), Own(f) = o.val.size + rest, Continue(f), Take(o),
         ret' = NULL, pc' = "run"
  PROVE  IInv'
<1>1. lost \in Nat /\ live \in Int /\ Own(Top) \in Nat /\ ret.size \in Nat
  BY InRun
<1>2. lost' = o.lost /\ live' = o.live /\ ret'.size = 0
  BY NodeSizes DEF Take
<1>3. /\ o.val.size \in Nat /\ o.lost \in Nat /\ o.live \in Int
      /\ o.live - o.lost = live - lost - n + o.val.size
  BY DEF Accounts
<1>4. live' - lost' = live - lost - ret.size - Own(Top) + ret'.size + Own(f)
  <2> DEFINE x == ret.size
             y == Own(Top)
             z == o.val.size
             d == live - lost
             e == o.live - o.lost
             g == Own(f)
  <2>1. /\ x \in Nat /\ y \in Nat /\ z \in Nat /\ d \in Int /\ e = d - n + z
        /\ x + y = n + rest /\ g = z + rest
    BY <1>1, <1>3
  <2> HIDE DEF x, y, z, d, e, g
  <2>2. n \in Nat /\ rest \in Nat
    OBVIOUS
  <2>3. e = d - n + z /\ n = x + y - rest
    BY <2>1, <2>2
  <2>4. e = d - x - y + 0 + g
    BY <2>1, <2>2, <2>3
  <2> QED
    BY <1>2, <2>4 DEF x, y, z, d, e, g
<1> QED
  BY <1>2, <1>3, <1>4, ContinueStep

\* A rule that gives up what it has gathered.
LEMMA GiveUp ==
  ASSUME IInv, pc = "run", ret = NULL, Top.res = NULL, ReturnWithout(Top.hb)
  PROVE  IInv'
<1>1. lost \in Nat /\ live \in Int /\ Own(Top) \in Nat /\ IsFrame(Top) /\ Size(Top.hb) \in Nat
  BY InRun
<1>2. Own(Top) = Size(Top.hb) /\ NULL.size = 0
  BY <1>1, OwnParts, NodeSizes
<1>3. /\ stack' = Front(stack) /\ ret' = NULL /\ live' = live - Size(Top.hb) /\ lost' = lost
      /\ pc' = "wild" \/ pc' = IF Len(stack) = 1 THEN "done" ELSE "run"
  BY DEF ReturnWithout, After
<1>4. live' \in Int /\ live' - lost' = live - lost - ret.size - Own(Top) + NULL.size
  BY <1>1, <1>2, <1>3
<1> QED
  BY <1>1, <1>2, <1>3, <1>4, ReturnStep

\* A push of what was returned: the frame owns it from now on.
LEMMA PushStep ==
  ASSUME IInv, pc = "run", Top.res = NULL, NEW qn,
         NEW a, a \notin {"start", "left", "loop", "right", "N"},
         LET f == Filled(Top, qn, ret, a)
         IN  Continue(f) \/ (a \in Waiting /\ \E rule : Call(f, rule)),
         ret' = NULL, UNCHANGED memory, pc' \in {"run", "wild"}
  PROVE  IInv'
<1> DEFINE f == Filled(Top, qn, ret, a)
<1>1. lost \in Nat /\ live \in Int /\ Own(Top) \in Nat /\ IsFrame(Top) /\ ret.size \in Nat
  BY InRun
<1>2. IsFrame(f) /\ f.at = a /\ Own(f) = Own(Top) + ret.size
  BY <1>1, PushedOwn
<1>3. Continue(f) \/ (a \in Waiting /\ \E rule : Call(f, rule))
  OBVIOUS
<1> HIDE DEF f
<1>4. lost' = lost /\ live' = live /\ ret'.size = 0
  BY NodeSizes DEF memory
<1>5. /\ live' - lost' = live - lost - ret.size - Own(Top) + Own(f)
      /\ live' - lost' = live - lost - ret.size - Own(Top) + ret'.size + Own(f)
  BY <1>1, <1>2, <1>4
<1>6. CASE Continue(f)
  BY <1>1, <1>2, <1>4, <1>5, <1>6, ContinueStep
<1>7. CASE a \in Waiting /\ \E rule : Call(f, rule)
  BY <1>1, <1>2, <1>4, <1>5, <1>7, CallStep
<1> QED
  BY <1>3, <1>6, <1>7

\* A step that ends the run otherwise.
LEMMA StopStep ==
  ASSUME IInv, pc = "run", pc' \in {"abort", "wild"}, UNCHANGED <<live, lost>>
  PROVE  IInv'
<1>1. lost \in Nat /\ ret.size \in Nat /\ Held(stack) \in Nat /\ live = ret.size + Held(stack) + lost
  BY InRun DEF IInv
<1>2. live \in Nat
  BY <1>1
<1> QED
  BY <1>1, <1>2 DEF IInv, memory

(***************************************************************************)
(* The steps, one by one.                                                  *)
(***************************************************************************)

\* What a rule has at each of its points.
LEMMA AtPoint ==
  ASSUME IInv, pc = "run"
  PROVE  /\ IsFrame(Top) /\ ret.size \in Nat /\ Own(Top) \in Nat
         /\ AreNodes(Top.hb) /\ Top.res.size \in Nat
         /\ Top.at \notin Waiting => ret = NULL /\ ret.size = 0
         /\ Top.at \in {"start", "left", "N"} => Top.res = NULL /\ Top.hb = <<>> /\ Own(Top) = 0
         /\ Top.at \in {"loop", "right"} => Top.hb = <<>> /\ Own(Top) = Top.res.size
         /\ Top.at \notin {"loop", "right"} => Top.res = NULL /\ Own(Top) = Size(Top.hb)
<1>1. IsFrame(Top) /\ ret.size \in Nat /\ Own(Top) \in Nat /\ (Top.at \notin Waiting => ret = NULL)
  BY InRun
<1>2. /\ AreNodes(Top.hb) /\ Top.res.size \in Nat
      /\ Top.at \notin {"loop", "right"} => Top.res = NULL
      /\ Top.at \in {"start", "left", "loop", "right", "N"} => Top.hb = <<>>
  BY <1>1 DEF IsFrame
<1> QED
  BY <1>1, <1>2, OwnParts, NodeSizes

\* The frame of a rule that has moved on to another point.
LEMMA SameNodes ==
  ASSUME NEW f, IsFrame(f), NEW g, DOMAIN g = Fields, g.res = f.res, g.hb = f.hb,
         g.at \in {"loop", "right"} \/ f.at \notin {"loop", "right"},
         g.at \notin {"start", "left", "loop", "right", "N"} \/ f.hb = <<>>
  PROVE  IsFrame(g) /\ Own(g) = Own(f)
BY DEF IsFrame, Own

LEMMA MovedOn ==
  ASSUME NEW f, IsFrame(f), NEW a,
         a \in {"loop", "right"} \/ f.at \notin {"loop", "right"},
         a \notin {"start", "left", "loop", "right", "N"} \/ f.hb = <<>>
  PROVE  /\ IsFrame([f EXCEPT !.at = a]) /\ [f EXCEPT !.at = a].at = a
         /\ Own([f EXCEPT !.at = a]) = Own(f)
<1> DEFINE g == [f EXCEPT !.at = a]
<1>1. DOMAIN g = Fields /\ g.at = a /\ g.res = f.res /\ g.hb = f.hb
  BY Moved
<1> HIDE DEF g
<1>2. IsFrame(g) /\ Own(g) = Own(f)
  BY <1>1, SameNodes
<1> QED
  BY <1>1, <1>2 DEF g

\* The frame of a rule with another node and nothing in its buffer.
LEMMA Holding ==
  ASSUME NEW f, IsFrame(f), f.hb = <<>>, NEW v, v.size \in Nat
  PROVE  /\ IsFrame([f EXCEPT !.at = "loop", !.res = v])
         /\ [f EXCEPT !.at = "loop", !.res = v].at = "loop"
         /\ Own([f EXCEPT !.at = "loop", !.res = v]) = v.size
         /\ f.at \in {"loop", "right"} =>
              /\ IsFrame([f EXCEPT !.res = v]) /\ [f EXCEPT !.res = v].at = f.at
              /\ Own([f EXCEPT !.res = v]) = v.size
<1> DEFINE g == [f EXCEPT !.at = "loop", !.res = v]
           h == [f EXCEPT !.res = v]
<1>1. DOMAIN g = Fields /\ g.at = "loop" /\ g.res = v /\ g.hb = f.hb
  BY Moved
<1>2. DOMAIN h = Fields /\ h.at = f.at /\ h.res = v /\ h.hb = f.hb
  BY Moved
<1> HIDE DEF g, h
<1>3. IsFrame(g) /\ Own(g) = v.size
  <2>1. IsFrame(g)
    BY <1>1 DEF IsFrame
  <2> QED
    BY <1>1, <2>1, OwnParts
<1>4. f.at \in {"loop", "right"} => IsFrame(h) /\ Own(h) = v.size
  <2>1. f.at \in {"loop", "right"} => IsFrame(h)
    BY <1>2 DEF IsFrame
  <2> QED
    BY <1>2, <2>1, OwnParts
<1> QED
  BY <1>1, <1>2, <1>3, <1>4 DEF g, h

LEMMA BinaryInv ==
  ASSUME IInv, NEW r \in Levels,
         Operand(r) \/ LeftOperand(r) \/ Operator(r) \/ RightOperand(r) \/ NoOperator(r)
  PROVE  IInv'
<1>0. pc = "run" /\ pc' \in Statuses
  BY NextStatus DEF Next, Binary
<1>1. CASE Operand(r)
  <2> DEFINE f == [Top EXCEPT !.at = "left"]
  <2>1. Top.at = "start" /\ Call(f, Left(r)) /\ ret' = ret /\ UNCHANGED memory /\ pc' = pc
    BY <1>1 DEF Operand, At, Pure
  <2>2. IsFrame(f) /\ f.at = "left" /\ Own(f) = Own(Top) /\ ret = NULL
    BY <1>0, <2>1, AtPoint, MovedOn DEF Waiting
  <2> HIDE DEF f
  <2> QED
    BY <1>0, <2>1, <2>2, QuietCall DEF Waiting
<1>2. CASE LeftOperand(r)
  <2>1. Top.at = "left" /\ UNCHANGED memory
    BY <1>2 DEF LeftOperand, At
  <2>2. IsFrame(Top) /\ Top.hb = <<>> /\ Own(Top) = 0 /\ ret.size \in Nat
    BY <1>0, <2>1, AtPoint
  <2>3. CASE ret = NULL
    <3>1. Return(NULL) /\ NULL.size = 0
      BY <1>2, <2>3, NodeSizes DEF LeftOperand
    <3> QED
      BY <1>0, <2>1, <2>2, <2>3, <3>1, QuietReturn
  <2>4. CASE ret # NULL
    <3> DEFINE f == [Top EXCEPT !.at = "loop", !.res = ret]
    <3>1. Continue(f) /\ ret' = NULL /\ pc' = "run"
      BY <1>0, <1>2, <2>4 DEF LeftOperand, Taken
    <3>2. IsFrame(f) /\ Own(f) = ret.size
      BY <2>2, Holding
    <3> HIDE DEF f
    <3>3. lost \in Nat /\ live \in Int /\ lost' = lost /\ live' = live /\ ret'.size = 0
      BY <1>0, <2>1, <3>1, InRun, NodeSizes DEF memory
    <3>4. live' - lost' = live - lost - ret.size - Own(Top) + ret'.size + Own(f)
      BY <2>2, <3>2, <3>3
    <3> QED
      BY <1>0, <3>1, <3>2, <3>3, <3>4, ContinueStep
  <2> QED
    BY <2>3, <2>4
<1>3. CASE Operator(r)
  <2> DEFINE f == [Top EXCEPT !.at = "right", !.op = toki]
  <2>1. Top.at = "loop" /\ Call(f, Right(r)) /\ ret' = ret /\ UNCHANGED memory /\ pc' = pc
    BY <1>3 DEF Operator, At, Pure
  <2>2. IsFrame(f) /\ f.at = "right" /\ Own(f) = Own(Top) /\ ret = NULL
    <3>1. IsFrame(Top) /\ Top.hb = <<>> /\ ret = NULL
      BY <1>0, <2>1, AtPoint DEF Waiting
    <3>2. DOMAIN f = Fields /\ f.at = "right" /\ f.res = Top.res /\ f.hb = Top.hb
      BY <3>1 DEF IsFrame, Fields
    <3> HIDE DEF f
    <3> QED
      BY <3>1, <3>2, SameNodes
  <2> HIDE DEF f
  <2> QED
    BY <1>0, <2>1, <2>2, QuietCall DEF Waiting
<1>4. CASE RightOperand(r)
  <2>1. Top.at = "right" /\ ret' = NULL /\ pc' = pc
    BY <1>4 DEF RightOperand, At, Taken
  <2> DEFINE tok == {Top.op, toki - 1}
             kind == Operators[r][KindOf(toks[Top.op])]
  <2>2. PICK o \in ks_ast_newz(tok, kind, <<Top.res, ret>>) :
          Continue([Top EXCEPT !.at = "loop", !.res = o.val]) /\ Take(o)
    BY <1>4 DEF RightOperand
  <2> HIDE DEF tok, kind
  <2>3. /\ IsFrame(Top) /\ Top.hb = <<>> /\ Own(Top) = Top.res.size
        /\ ret.size \in Nat /\ Top.res.size \in Nat
    BY <1>0, <2>1, AtPoint
  <2> DEFINE n == Size(<<Top.res, ret>>)
             f == [Top EXCEPT !.at = "loop", !.res = o.val]
  <2>4. AreNodes(<<Top.res, ret>>) /\ n = Top.res.size + ret.size /\ n \in Nat
    BY <2>3, SizeFew
  <2>5. Accounts(o, n)
    BY <1>0, <2>4, InRun, NewzAccounts
  <2>6. o.val.size \in Nat
    BY <2>5 DEF Accounts
  <2>7. IsFrame(f) /\ Own(f) = o.val.size + 0
    <3>1. IsFrame(f) /\ Own(f) = o.val.size
      BY <2>3, <2>6, Holding
    <3> HIDE DEF f
    <3> QED
      BY <2>6, <3>1
  <2>8. Continue(f) /\ Take(o) /\ pc' = "run"
    BY <1>0, <2>1, <2>2
  <2> HIDE DEF f, n
  <2>9. ret.size + Own(Top) = n + 0
    BY <2>3, <2>4
  <2> QED
    BY <1>0, <2>1, <2>4, <2>5, <2>7, <2>8, <2>9, AllocContinue
<1>5. CASE NoOperator(r)
  <2>1. Top.at = "loop" /\ Return(Top.res) /\ UNCHANGED memory
    BY <1>5 DEF NoOperator, At
  <2>2. Top.res.size \in Nat /\ Top.res.size = ret.size + Own(Top)
    BY <1>0, <2>1, AtPoint DEF Waiting
  <2> QED
    BY <1>0, <2>1, <2>2, QuietReturn
<1> QED
  BY <1>1, <1>2, <1>3, <1>4, <1>5

LEMMA AtomInv ==
  ASSUME IInv, Atom
  PROVE  IInv'
<1>1. pc = "run" /\ Top.at = "start"
  BY DEF Atom, At
<1>2. IsFrame(Top) /\ Top.hb = <<>> /\ Own(Top) = 0 /\ ret.size = 0
  BY <1>1, AtPoint DEF Waiting
<1>3. lost \in Nat /\ live \in Int
  BY <1>1, InRun
<1>4. CASE pc' = "abort"
  BY <1>1, <1>4, StopStep DEF Atom, Abort, AbortShort, Return, memory
<1>5. CASE \E o \in WrapString(toki) \cup WrapNumber(toki) :
             /\ Take(o)
             /\ IF o.val = NULL THEN Return(NULL)
                ELSE Continue([Top EXCEPT !.at = "loop", !.res = o.val]) /\ Taken /\ UNCHANGED pc
  <2>1. PICK o \in WrapString(toki) \cup WrapNumber(toki) :
             /\ Take(o)
             /\ IF o.val = NULL THEN Return(NULL)
                ELSE Continue([Top EXCEPT !.at = "loop", !.res = o.val]) /\ Taken /\ UNCHANGED pc
    BY <1>5
  <2>2. Accounts(o, 0) /\ o.val.size \in Nat
    <3>1. Accounts(o, 0)
      BY <1>3, <2>1, WrapAccounts
    <3> QED
      BY <3>1 DEF Accounts
  <2>3. ret.size + Own(Top) = 0 /\ ret.size + Own(Top) = 0 + 0
    BY <1>2
  <2>4. CASE o.val = NULL
    BY <1>1, <2>1, <2>2, <2>3, <2>4, AllocReturn
  <2>5. CASE o.val # NULL
    <3> DEFINE f == [Top EXCEPT !.at = "loop", !.res = o.val]
    <3>1. Continue(f) /\ ret' = NULL /\ pc' = "run" /\ Take(o)
      BY <1>1, <2>1, <2>5 DEF Taken
    <3>2. IsFrame(f) /\ Own(f) = o.val.size
      BY <1>2, <2>2, Holding
    <3> HIDE DEF f
    <3>3. Own(f) = o.val.size + 0
      BY <2>2, <3>2
    <3> QED
      BY <1>1, <2>2, <2>3, <3>1, <3>2, <3>3, AllocContinue
  <2> QED
    BY <2>4, <2>5
<1>6. pc' = "abort" \/
      \E o \in WrapString(toki) \cup WrapNumber(toki) :
             /\ Take(o)
             /\ IF o.val = NULL THEN Return(NULL)
                ELSE Continue([Top EXCEPT !.at = "loop", !.res = o.val]) /\ Taken /\ UNCHANGED pc
  BY DEF Atom, Abort, AbortShort
<1> QED
  BY <1>4, <1>5, <1>6

LEMMA AttributeInv ==
  ASSUME IInv, Attribute
  PROVE  IInv'
<1>1. pc = "run" /\ Top.at = "loop"
  BY DEF Attribute, At
<1>2. /\ IsFrame(Top) /\ Top.hb = <<>> /\ Own(Top) = Top.res.size /\ Top.res.size \in Nat
      /\ ret = NULL /\ ret.size = 0
  BY <1>1, AtPoint DEF Waiting
<1>3. lost \in Nat /\ live \in Int
  BY <1>1, InRun
<1>4. CASE pc' = "abort"
  BY <1>1, <1>4, StopStep DEF Attribute, Abort, memory
<1>5. CASE pc' # "abort"
  <2> DEFINE n == Top.res.size
             new == Value(toks[toki])
             named == ks_ast_newz({toki}, "ATTR", <<Top.res, new>>)
             unnamed == IF fails > 0 THEN {Short(NULL, -Top.res.size, 0)} ELSE {}
             f(o) == [Top EXCEPT !.res = o.val]
  <2>1. PICK o \in {[q EXCEPT !.live = @ + 1] : q \in named} \cup unnamed : Continue(f(o)) /\ Take(o)
    BY <1>5 DEF Attribute, Abort
  <2>2. ret' = ret /\ pc' = pc
    BY <1>5 DEF Attribute, Abort
  <2>3. AreNodes(<<Top.res, new>>) /\ Size(<<Top.res, new>>) = n + 1
    BY <1>2, SizeFew, NodeSizes
  <2>4. Accounts(o, n)
    <3>1. CASE o \in {[q EXCEPT !.live = @ + 1] : q \in named}
      <4>1. PICK q \in named : o = [q EXCEPT !.live = @ + 1]
        BY <3>1
      <4>2. Accounts(q, n + 1) /\ DOMAIN q = {"val", "live", "fails", "lost"}
        BY <1>3, <2>3, NewzAccounts
      <4>3. o.val = q.val /\ o.lost = q.lost /\ o.live = q.live + 1
        BY <4>1, <4>2
      <4> DEFINE v == q.val.size
                 l == q.lost
                 m == q.live
      <4>4. v \in Nat /\ l \in Nat /\ m \in Int /\ m - l = live - lost - (n + 1) + v
        BY <4>2 DEF Accounts
      <4> HIDE DEF n
      <4>5. n \in Nat
        BY <1>2 DEF n
      <4> HIDE DEF v, l, m
      <4>6. m + 1 - l = live - lost - n + v /\ m + 1 \in Int
        BY <1>3, <4>4, <4>5
      <4> QED
        BY <4>3, <4>4, <4>6 DEF Accounts, v, l, m
    <3>2. CASE o \in unnamed
      <4>1. o = Short(NULL, -n, 0)
        BY <3>2
      <4> HIDE DEF n
      <4>2. n \in Nat /\ NULL.size = 0
        BY <1>2, NodeSizes DEF n
      <4> QED
        BY <1>3, <4>1, <4>2 DEF Short, Accounts
    <3> QED
      BY <2>1, <3>1, <3>2
  <2>5. o.val.size \in Nat
    BY <2>4 DEF Accounts
  <2>6. IsFrame(f(o)) /\ Own(f(o)) = o.val.size
    BY <1>1, <1>2, <2>5, Holding
  <2> HIDE DEF f
  <2>7. Own(f(o)) = o.val.size + 0 /\ ret.size + Own(Top) = n + 0
    BY <1>2, <2>5, <2>6
  <2>8. Continue(f(o)) /\ Take(o) /\ ret' = NULL /\ pc' = "run"
    BY <1>1, <1>2, <2>1, <2>2
  <2> HIDE DEF named, unnamed, new
  <2> QED
    BY <1>1, <1>2, <2>4, <2>6, <2>7, <2>8, AllocContinue
<1> QED
  BY <1>4, <1>5

LEMMA ArgumentsInv ==
  ASSUME IInv, OpenCall \/ Argument \/ PushArgument
  PROVE  IInv'
<1>1. CASE OpenCall
  <2> DEFINE h == Pushed(Top, 8, Top.res)
             f == [h EXCEPT !.at = "args", !.res = NULL]
  <2>1. /\ pc = "run" /\ Top.at = "loop" /\ Continue(f) /\ ret' = ret
        /\ UNCHANGED memory /\ pc' = pc
    BY <1>1 DEF OpenCall, At, Pure
  <2>2. /\ IsFrame(Top) /\ Top.hb = <<>> /\ Own(Top) = Top.res.size /\ Top.res.size \in Nat
        /\ ret = NULL
    BY <2>1, AtPoint DEF Waiting
  <2>3. DOMAIN h = Fields /\ AreNodes(h.hb) /\ Size(h.hb) = Size(Top.hb) + Top.res.size
    BY <2>2, PushedFrame
  <2> HIDE DEF h
  <2>4. DOMAIN f = Fields /\ f.at = "args" /\ f.res = NULL /\ f.hb = h.hb
    BY <2>3 DEF Fields
  <2> HIDE DEF f
  <2>5. IsFrame(f)
    BY <2>3, <2>4, NodeSizes DEF IsFrame
  <2>6. Own(f) = Own(Top)
    BY <2>2, <2>3, <2>4, <2>5, OwnParts, SizeFew
  <2> QED
    BY <2>1, <2>2, <2>5, <2>6, QuietContinue
<1>2. CASE Argument
  <2> DEFINE f(a) == [Top EXCEPT !.at = a]
  <2>1. /\ pc = "run" /\ Top.at = "args"
        /\ Continue(f("close")) \/ Call(f("arg"), "E0")
        /\ ret' = ret /\ UNCHANGED memory /\ pc' = pc
    BY <1>2 DEF Argument, At, Pure
  <2>2. IsFrame(Top) /\ ret = NULL
    BY <2>1, AtPoint DEF Waiting
  <2>3. ASSUME NEW a \in {"close", "arg"}
        PROVE  IsFrame(f(a)) /\ f(a).at = a /\ Own(f(a)) = Own(Top)
    BY <2>1, <2>2, MovedOn
  <2> HIDE DEF f
  <2> QED
    BY <2>1, <2>2, <2>3, QuietContinue, QuietCall DEF Waiting
<1>3. CASE PushArgument
  <2>1. pc = "run" /\ Top.at = "arg"
    BY <1>3 DEF PushArgument, At
  <2>2. Top.res = NULL
    BY <2>1, AtPoint
  <2>3. CASE ret = NULL
    BY <1>3, <2>1, <2>2, <2>3, GiveUp DEF PushArgument
  <2>4. CASE ret # NULL
    <3>1. PICK a \in {"args", "close"} : Continue(Filled(Top, 8, ret, a))
      BY <1>3, <2>4 DEF PushArgument, Filled
    <3>2. ret' = NULL /\ UNCHANGED memory /\ pc' \in {"run", "wild"}
      BY <1>3, <2>4 DEF PushArgument, Taken, Status
    <3> QED
      BY <2>1, <2>2, <3>1, <3>2, PushStep
  <2> QED
    BY <2>3, <2>4
<1> QED
  BY <1>1, <1>2, <1>3

\* A node of all that is in the buffer is returned.
LEMMA BufferReturn ==
  ASSUME IInv, pc = "run", Top.at \notin {"loop", "right"}, ret = NULL, NEW tok, NEW kind,
         \E o \in ks_ast_newz(tok, kind, Top.hb) : Return(o.val) /\ Take(o)
  PROVE  IInv'
<1>1. PICK o \in ks_ast_newz(tok, kind, Top.hb) : Return(o.val) /\ Take(o)
  OBVIOUS
<1>2. AreNodes(Top.hb) /\ Own(Top) = Size(Top.hb) /\ Own(Top) \in Nat /\ ret.size = 0
  BY AtPoint, NodeSizes
<1>3. Accounts(o, Size(Top.hb))
  BY <1>1, <1>2, InRun, NewzAccounts
<1>4. Size(Top.hb) = ret.size + Own(Top)
  BY <1>2
<1> QED
  BY <1>1, <1>3, <1>4, AllocReturn

LEMMA PostfixInv ==
  ASSUME IInv, Postfix
  PROVE  IInv'
<1>1. CASE CloseCall
  <2>1. pc = "run" /\ Top.at = "close" /\ ret = NULL
    BY <1>1, AtPoint DEF CloseCall, At, Waiting
  <2>2. \/ pc' = "abort" /\ UNCHANGED memory
        \/ \E o \in ks_ast_newz({toki}, "CALL", Top.hb) : Return(o.val) /\ Take(o)
    BY <1>1 DEF CloseCall, Abort
  <2> QED
    BY <2>1, <2>2, BufferReturn, StopStep DEF memory
<1>2. CASE NoPostfix
  <2>1. pc = "run" /\ Top.at = "loop" /\ Return(Top.res) /\ UNCHANGED memory
    BY <1>2 DEF NoPostfix, At
  <2>2. Top.res.size \in Nat /\ Top.res.size = ret.size + Own(Top)
    BY <2>1, AtPoint DEF Waiting
  <2> QED
    BY <2>1, <2>2, QuietReturn
<1> QED
  BY <1>1, <1>2, AtomInv, AttributeInv, ArgumentsInv DEF Postfix

LEMMA StartInv ==
  ASSUME IInv, ExpressionStatement \/ Unimplemented \/ Import \/ RetOrThrow \/ BeginIf
  PROVE  IInv'
<1>0. pc = "run" /\ Top.at = "start"
  BY DEF ExpressionStatement, Unimplemented, Import, RetOrThrow, BeginIf, At
<1>1. /\ IsFrame(Top) /\ Top.res = NULL /\ Top.hb = <<>> /\ Own(Top) = 0
      /\ ret = NULL /\ ret.size = 0
  BY <1>0, AtPoint DEF Waiting
<1>2. lost \in Nat /\ live \in Int
  BY <1>0, InRun
<1>3. CASE ExpressionStatement
  <2> DEFINE f == Frame("E0")
  <2>1. Continue(f) /\ ret' = ret /\ UNCHANGED memory /\ pc' = "run"
    BY <1>0, <1>3 DEF ExpressionStatement, Pure
  <2>2. IsFrame(f) /\ Own(f) = 0
    BY NewFrame
  <2> HIDE DEF f
  <2> QED
    BY <1>0, <1>1, <2>1, <2>2, QuietContinue
<1>4. CASE Unimplemented
  BY <1>0, <1>4, StopStep DEF Unimplemented, Abort, memory
<1> DEFINE g == [Top EXCEPT !.at = "N", !.op = toki]
<1>5. IsFrame(g) /\ Own(g) = 0 /\ g.at = "N"
  <2>1. DOMAIN g = Fields /\ g.at = "N" /\ g.res = Top.res /\ g.hb = Top.hb
    BY <1>1 DEF IsFrame, Fields
  <2> HIDE DEF g
  <2> QED
    BY <1>0, <1>1, <2>1, SameNodes
<1>6. CASE Import
  <2>1. CASE pc' = "abort"
    BY <1>0, <1>6, <2>1, StopStep DEF Import, Abort, memory
  <2>2. CASE pc' # "abort"
    <3>1. PICK o \in WrapString(toki + 1) : ret' = o.val /\ Take(o)
      BY <1>6, <2>2 DEF Import, Abort
    <3>2. Continue(g) /\ pc' = "run"
      BY <1>0, <1>6, <2>2 DEF Import, Abort
    <3>3. Accounts(o, 0)
      BY <1>2, <3>1, WrapAccounts
    <3> HIDE DEF g
    <3>4. ret'.size \in Nat /\ lost' \in Nat /\ live' \in Int /\ live' - lost' = live - lost - 0 + ret'.size
      BY <3>1, <3>3 DEF Accounts, Take
    <3>5. live' - lost' = live - lost - ret.size - Own(Top) + ret'.size + Own(g)
      BY <1>1, <1>2, <1>5, <3>4
    <3> QED
      BY <1>0, <1>5, <3>2, <3>4, <3>5, ContinueStep DEF Waiting
  <2> QED
    BY <2>1, <2>2
<1>7. CASE RetOrThrow
  <2>1. CASE toks[toki + 1] \in Separators
    <3>1. \/ \E o \in ks_ast_newz({toki + 1}, "RET", <<>>) : Return(o.val) /\ Take(o)
          \/ \E o \in ks_ast_newz({toki}, "THROW", <<>>) : Return(o.val) /\ Take(o)
      BY <1>7, <2>1 DEF RetOrThrow
    <3>2. AreNodes(<<>>) /\ Size(<<>>) = 0 /\ ret.size + Own(Top) = 0
      BY <1>1, SizeFew
    <3>3. ASSUME NEW tok, NEW kind, NEW o \in ks_ast_newz(tok, kind, <<>>), Return(o.val), Take(o)
          PROVE  IInv'
      <4>1. Accounts(o, Size(<<>>))
        BY <1>2, <3>2, <3>3, NewzAccounts
      <4>2. Accounts(o, ret.size + Own(Top))
        BY <3>2, <4>1
      <4> QED
        BY <1>0, <3>3, <4>2, AllocReturn
    <3> QED
      BY <3>1, <3>3
  <2>2. CASE toks[toki + 1] \notin Separators
    <3>1. Call(g, "E0") /\ ret' = ret /\ UNCHANGED memory /\ pc' = "run"
      BY <1>0, <1>7, <2>2 DEF RetOrThrow, Pure
    <3> HIDE DEF g
    <3> QED
      BY <1>0, <1>1, <1>5, <3>1, QuietCall DEF Waiting
  <2> QED
    BY <2>1, <2>2
<1>8. CASE BeginIf
  <2> DEFINE f == [Top EXCEPT !.at = "cond"]
  <2>1. Call(f, "E0") /\ ret' = ret /\ UNCHANGED memory /\ pc' = "run"
    BY <1>0, <1>8 DEF BeginIf, Pure
  <2>2. IsFrame(f) /\ Own(f) = Own(Top) /\ f.at = "cond"
    BY <1>0, <1>1, MovedOn
  <2> HIDE DEF f
  <2> QED
    BY <1>0, <1>1, <2>1, <2>2, QuietCall DEF Waiting
<1> QED
  BY <1>3, <1>4, <1>6, <1>7, <1>8

LEMMA EndStatementInv ==
  ASSUME IInv, EndStatement
  PROVE  IInv'
<1> DEFINE kind == [import |-> "IMPORT", ret |-> "RET", throw |-> "THROW"][toks[Top.op]]
           tok  == IF kind = "THROW" THEN {Top.op} ELSE {Top.op, toki - 1}
<1>1. pc = "run" /\ Top.at = "N"
  BY DEF EndStatement, At
<1>2. PICK o \in ks_ast_newz(tok, kind, <<ret>>) :
        \/ Return(o.val) /\ Take(o)
        \/ /\ stack' = Front(stack) /\ ret' = NULL
           /\ Take([o EXCEPT !.live = @ - o.val.size])
           /\ pc' = After(<<o.val>>)
  BY DEF EndStatement
<1> HIDE DEF tok, kind
<1>3. Own(Top) = 0 /\ ret.size \in Nat /\ lost \in Nat /\ live \in Int
  BY <1>1, AtPoint, InRun
<1>4. AreNodes(<<ret>>) /\ Size(<<ret>>) = ret.size /\ ret.size + Own(Top) = ret.size
  BY <1>3, SizeFew
<1>5. Accounts(o, Size(<<ret>>)) /\ DOMAIN o = {"val", "live", "fails", "lost"}
  BY <1>2, <1>3, <1>4, NewzAccounts
<1>6. Accounts(o, ret.size)
  BY <1>4, <1>5
<1>7. CASE Return(o.val) /\ Take(o)
  BY <1>1, <1>4, <1>6, <1>7, AllocReturn
<1>8. CASE /\ stack' = Front(stack) /\ ret' = NULL
           /\ Take([o EXCEPT !.live = @ - o.val.size])
           /\ pc' = After(<<o.val>>)
  <2>1. live' = o.live - o.val.size /\ lost' = o.lost
    BY <1>5, <1>8 DEF Take
  <2>2. /\ o.val.size \in Nat /\ o.lost \in Nat /\ o.live \in Int
        /\ o.live - o.lost = live - lost - ret.size + o.val.size
    BY <1>6 DEF Accounts
  <2>3. live' - lost' = live - lost - ret.size
    <3> DEFINE x == o.live
               y == o.lost
               z == o.val.size
    <3>1. /\ x \in Int /\ y \in Nat /\ z \in Nat /\ live' = x - z /\ lost' = y
          /\ x - y = live - lost - ret.size + z
      BY <2>1, <2>2
    <3> HIDE DEF x, y, z
    <3> QED
      BY <1>3, <3>1
  <2>4. live' - lost' = live - lost - ret.size - Own(Top) + NULL.size /\ NULL.size \in Nat
    BY <1>3, <2>3, NodeSizes
  <2>5. lost' \in Nat /\ live' \in Int
    BY <2>1, <2>2
  <2>6. pc' = "wild" \/ pc' = IF Len(stack) = 1 THEN "done" ELSE "run"
    BY <1>8 DEF After
  <2> QED
    BY <1>1, <1>8, <2>4, <2>5, <2>6, ReturnStep
<1> QED
  BY <1>2, <1>7, <1>8

LEMMA GatherInv ==
  ASSUME IInv, IfCondition \/ IfBody \/ IfElse \/ PushStatement
  PROVE  IInv'
<1>1. pc = "run" /\ Top.at \in {"cond", "body", "else", "stmt"}
  BY DEF IfCondition, IfBody, IfElse, PushStatement, At
<1>2. Top.res = NULL
  BY <1>1, AtPoint
<1>3. CASE ret = NULL
  <2>1. ReturnWithout(Top.hb)
    BY <1>3 DEF IfCondition, IfBody, IfElse, PushStatement
  <2> QED
    BY <1>1, <1>2, <1>3, <2>1, GiveUp
<1>4. CASE ret # NULL
  <2>1. CASE IfCondition
    <3>1. CASE pc' \in {"abort", "wild"}
      BY <1>1, <1>4, <2>1, <3>1, StopStep DEF IfCondition, Abort, Pure, memory
    <3>2. CASE pc' \notin {"abort", "wild"}
      <4>1. /\ \E rule : Call(Filled(Top, 8, ret, "body"), rule)
            /\ ret' = NULL /\ UNCHANGED memory /\ pc' = "run"
        BY <1>1, <1>4, <2>1, <3>2 DEF IfCondition, Filled, Pure, Taken, Abort
      <4> QED
        BY <1>1, <1>2, <4>1, PushStep DEF Waiting
    <3> QED
      BY <3>1, <3>2
  <2>2. CASE IfBody
    <3>1. /\ \/ \E rule : Call(Filled(Top, 8, ret, "cond"), rule)
             \/ \E rule : Call(Filled(Top, 8, ret, "else"), rule)
             \/ Continue(Filled(Top, 8, ret, "build"))
          /\ ret' = NULL /\ UNCHANGED memory /\ pc' \in {"run", "wild"}
      BY <1>4, <2>2 DEF IfBody, Filled, Taken, Status
    <3> QED
      BY <1>1, <1>2, <3>1, PushStep DEF Waiting
  <2>3. CASE IfElse
    <3>1. /\ Continue(Filled(Top, 8, ret, "build"))
          /\ ret' = NULL /\ UNCHANGED memory /\ pc' \in {"run", "wild"}
      BY <1>4, <2>3 DEF IfElse, Filled, Taken, Status
    <3> QED
      BY <1>1, <1>2, <3>1, PushStep
  <2>4. CASE PushStatement
    <3>1. /\ Continue(Filled(Top, 16, ret, "stmts"))
          /\ ret' = NULL /\ UNCHANGED memory /\ pc' \in {"run", "wild"}
      BY <1>4, <2>4 DEF PushStatement, Filled, Taken, Status
    <3> QED
      BY <1>1, <1>2, <3>1, PushStep
  <2> QED
    BY <2>1, <2>2, <2>3, <2>4
<1> QED
  BY <1>3, <1>4

LEMMA IfBuildInv ==
  ASSUME IInv, IfBuild
  PROVE  IInv'
<1> DEFINE n == Len(Top.hb)
           rest == Rest(Top)
           m == n - Taking(Top)
           front == SubSeq(Top.hb, 1, m)
           tail == SubSeq(Top.hb, m + 1, n)
<1>1. pc = "run" /\ Top.at = "build" /\ ret' = ret
  BY DEF IfBuild, At
<1>2. /\ IsFrame(Top) /\ AreNodes(Top.hb) /\ Top.res = NULL /\ Own(Top) = Size(Top.hb)
      /\ ret = NULL /\ ret.size = 0
  BY <1>1, AtPoint DEF Waiting
<1>3. lost \in Nat /\ live \in Int
  BY <1>1, InRun
<1>4. CASE n < Taking(Top)
  BY <1>1, <1>4, StopStep DEF IfBuild, memory
<1>5. CASE ~(n < Taking(Top))
  <2>1. n \in Nat /\ m \in 0..n
    <3>1. Taking(Top) \in {2, 3}
      BY DEF Taking
    <3>2. n \in Nat
      BY <1>2, SizeType
    <3> QED
      BY <1>5, <3>1, <3>2
  <2>2. /\ AreNodes(front) /\ AreNodes(tail) /\ Len(front) = m
        /\ Size(Top.hb) = Size(front) + Size(tail)
    BY <1>2, <2>1, SizeCut
  <2>3. DOMAIN rest = Fields /\ rest.at = "build" /\ rest.res = NULL /\ rest.hb = front
    BY <1>1, <1>2 DEF Rest, IsFrame, Fields
  <2>4. IsFrame(rest)
    BY <2>2, <2>3, NodeSizes DEF IsFrame
  <2>5. PICK o \in ks_ast_newz({}, "IF", SubSeq(Top.hb, Len(rest.hb) + 1, n)) :
          IF o.val = NULL
          THEN /\ stack' = Front(stack)
               /\ Take([o EXCEPT !.live = @ - Size(rest.hb)])
               /\ pc' = After(rest.hb)
          ELSE Continue(Pushed(rest, 8, o.val)) /\ Take(o) /\ UNCHANGED pc
    BY <1>5 DEF IfBuild
  <2>6. o \in ks_ast_newz({}, "IF", tail)
    BY <2>2, <2>3, <2>5
  <2> DEFINE x == Size(front)
             y == Size(tail)
  <2>7. Accounts(o, y) /\ DOMAIN o = {"val", "live", "fails", "lost"} /\ x \in Nat /\ y \in Nat
    BY <1>3, <2>2, <2>6, NewzAccounts, SizeType
  <2> HIDE DEF rest, m, front, tail
  <2>8. Size(rest.hb) = x /\ Size(Top.hb) = x + y
    BY <2>2, <2>3
  <2>9. /\ o.val.size \in Nat /\ o.lost \in Nat /\ o.live \in Int
        /\ o.live - o.lost = live - lost - y + o.val.size
    BY <2>7 DEF Accounts
  <2> HIDE DEF x, y
  <2>10. CASE o.val = NULL
    <3>1. /\ stack' = Front(stack) /\ pc' = After(rest.hb)
          /\ live' = o.live - x /\ lost' = o.lost
      BY <2>5, <2>7, <2>8, <2>10 DEF Take
    <3>2. o.val.size = 0
      BY <2>10, NodeSizes
    <3> DEFINE v == o.live
               w == o.lost
    <3>3. v \in Int /\ w \in Nat /\ v - w = live - lost - y + 0 /\ live' = v - x /\ lost' = w
      BY <2>9, <3>1, <3>2
    <3> HIDE DEF v, w
    <3>4. live' - lost' = live - lost - 0 - (x + y) + 0 /\ live' \in Int /\ lost' \in Nat
      BY <1>3, <2>7, <3>3
    <3>5. live' - lost' = live - lost - ret.size - Own(Top) + NULL.size
      BY <1>2, <2>8, <3>4, NodeSizes
    <3>6. pc' = "wild" \/ pc' = IF Len(stack) = 1 THEN "done" ELSE "run"
      BY <3>1 DEF After
    <3>7. NULL.size \in Nat /\ ret' = NULL
      BY <1>1, <1>2, NodeSizes
    <3> QED
      BY <1>1, <3>1, <3>4, <3>5, <3>6, <3>7, ReturnStep
  <2>11. CASE o.val # NULL
    <3> DEFINE f == Pushed(rest, 8, o.val)
    <3>1. Continue(f) /\ Take(o) /\ pc' = "run" /\ ret' = NULL
      BY <1>1, <1>2, <2>5, <2>11
    <3>2. /\ DOMAIN f = Fields /\ f.at = "build" /\ f.res = NULL
          /\ AreNodes(f.hb) /\ Size(f.hb) = x + o.val.size
      BY <2>3, <2>4, <2>8, <2>9, PushedFrame
    <3> HIDE DEF f
    <3>3. IsFrame(f)
      BY <3>2, NodeSizes DEF IsFrame
    <3>4. Own(f) = o.val.size + x
      <4>1. Own(f) = x + o.val.size
        BY <3>2, <3>3, OwnParts
      <4> QED
        BY <2>7, <2>9, <4>1
    <3>5. ret.size + Own(Top) = y + x
      BY <1>2, <2>7, <2>8
    <3> QED
      BY <1>1, <2>7, <3>1, <3>3, <3>4, <3>5, AllocContinue
  <2> QED
    BY <2>10, <2>11
<1> QED
  BY <1>4, <1>5

LEMMA BlockInv ==
  ASSUME IInv, BeginBlock \/ BlockStatement \/ EndBlock
  PROVE  IInv'
<1>1. CASE BeginBlock
  <2> DEFINE f == [Top EXCEPT !.at = "stmts", !.op = toki]
  <2>1. /\ pc = "run" /\ Top.at = "start" /\ Continue(f)
        /\ ret' = ret /\ UNCHANGED memory /\ pc' = pc
    BY <1>1 DEF BeginBlock, At, Pure
  <2>2. IsFrame(Top) /\ Top.res = NULL /\ Top.hb = <<>> /\ ret = NULL
    BY <2>1, AtPoint DEF Waiting
  <2>3. DOMAIN f = Fields /\ f.at = "stmts" /\ f.res = Top.res /\ f.hb = Top.hb
    BY <2>2 DEF IsFrame, Fields
  <2> HIDE DEF f
  <2>4. IsFrame(f) /\ Own(f) = Own(Top)
    BY <2>1, <2>2, <2>3, SameNodes
  <2> QED
    BY <2>1, <2>2, <2>3, <2>4, QuietContinue
<1>2. CASE BlockStatement
  <2> DEFINE f == [Top EXCEPT !.at = "stmt"]
  <2>1. /\ pc = "run" /\ Top.at = "stmts" /\ Call(f, "STMT")
        /\ ret' = ret /\ UNCHANGED memory /\ pc' = pc
    BY <1>2 DEF BlockStatement, At, Pure
  <2>2. IsFrame(Top) /\ ret = NULL
    BY <2>1, AtPoint DEF Waiting
  <2>3. IsFrame(f) /\ Own(f) = Own(Top) /\ f.at = "stmt"
    BY <2>1, <2>2, MovedOn
  <2> HIDE DEF f
  <2> QED
    BY <2>1, <2>2, <2>3, QuietCall DEF Waiting
<1>3. CASE EndBlock
  <2>1. pc = "run" /\ Top.at = "stmts"
    BY <1>3 DEF EndBlock, At
  <2>2. ret = NULL
    BY <2>1, AtPoint DEF Waiting
  <2>3. \E o \in ks_ast_newz({Top.op}, "BLOCK", Top.hb) : Return(o.val) /\ Take(o)
    BY <1>3 DEF EndBlock
  <2> QED
    BY <2>1, <2>2, <2>3, BufferReturn
<1> QED
  BY <1>1, <1>2, <1>3

(***************************************************************************)
(* The invariant, and what follows from it.                                *)
(***************************************************************************)
\* The first frame, of the statement, with nothing allocated.
LEMMA FirstFrame ==
  ASSUME NEW rule, stack = <<Frame(rule)>>, ret = NULL, live = 0, lost = 0
  PROVE  IInv \/ pc = "done"
<1> DEFINE e == <<>>
           g == Frame(rule)
<1>1. IsFrame(g) /\ Own(g) = 0
  BY NewFrame
<1>2. IsSeq(stack) /\ Len(stack) = 1 /\ stack # <<>> /\ stack[1] = g
  <2>1. stack \in Seq({g})
    OBVIOUS
  <2> QED
    BY <2>1 DEF IsSeq
<1>3. IsSeq(e) /\ Len(e) = 0
  <2>1. e \in Seq({})
    OBVIOUS
  <2> QED
    BY <2>1 DEF IsSeq
<1>4. Top = g /\ g.at = "start"
  BY <1>2, NewFrame DEF Top
<1> HIDE DEF e, g
<1>5. Frames(stack)
  BY <1>1, <1>2 DEF Frames
<1>6. Held(stack) = 0
  <2>1. \A k \in 1..Len(stack) : IsFrame(stack[k])
    BY <1>5 DEF Frames
  <2>2. Len(stack) = Len(e) + 1 /\ (\A k \in 1..Len(e) : stack[k] = e[k]) /\ Len(e) + 1 = 1
    BY <1>2, <1>3
  <2>3. Held(stack) = Held(e) + Own(stack[Len(e) + 1])
    BY <1>2, <1>3, <2>1, <2>2, HeldMore
  <2>4. Held(e) = 0
    <3>1. \A k \in 1..Len(e) : IsFrame(e[k])
      BY <1>3
    <3> QED
      BY <1>3, <3>1, HeldType
  <2> QED
    BY <1>1, <1>2, <2>2, <2>3, <2>4
<1> QED
  BY <1>4, <1>5, <1>6, NodeSizes DEF IInv

LEMMA InitInv ==
  ASSUME Init
  PROVE  IInv
BY FirstFrame DEF Init

LEMMA NextInv ==
  ASSUME IInv, [Next]_vars
  PROVE  IInv'
<1>1. CASE Binary
  BY <1>1, BinaryInv DEF Binary
<1>2. CASE Statement
  <2>1. CASE PushFails
    BY <2>1, StopStep DEF PushFails, AbortShort
  <2> QED
    BY <1>2, <2>1, StartInv, EndStatementInv, GatherInv, IfBuildInv, BlockInv DEF Statement
<1>3. CASE UNCHANGED vars
  BY <1>3 DEF IInv, vars, Top
<1> QED
  BY <1>1, <1>2, <1>3, PostfixInv DEF Next

LEMMA InvBalanced ==
  ASSUME IInv
  PROVE  Balanced
<1>1. Owned = ret.size + Held(stack)
  BY DEF Owned, Held, Owns
<1>2. CASE pc = "run"
  BY <1>1, <1>2 DEF IInv, Balanced
<1>3. CASE pc = "done"
  <2>1. stack = <<>> /\ ret.size \in Nat /\ lost \in Nat /\ live = ret.size + lost
    BY <1>3 DEF IInv
  <2>2. IsSeq(stack) /\ Len(stack) = 0
    <3>1. stack \in Seq({})
      BY <2>1
    <3> QED
      BY <2>1, <3>1 DEF IsSeq
  <2>3. Held(stack) = 0
    BY <2>2, HeldType
  <2> QED
    BY <1>1, <2>1, <2>3 DEF Balanced
<1> QED
  BY <1>2, <1>3 DEF Balanced

\* Every object the parser has allocated is owned exactly once, or lost with the
\* allocation that has failed, for all tokens: Balanced.
THEOREM NodesBalance ==
  Spec => []Balanced
<1>1. Init => IInv
  BY InitInv
<1>2. IInv /\ [Next]_vars => IInv'
  BY NextInv
<1>3. IInv => Balanced
  BY InvBalanced
<1> QED
  BY <1>1, <1>2, <1>3, PTL DEF Spec

(***************************************************************************)
(* The parser keeps to the tokens: whatever the tokens, toki never passes  *)
(* the final EOF, and every rule is at a point of its own.                 *)
(***************************************************************************)
Rules == Levels \cup DOMAIN Points
Stops(r) == IF r \in Levels THEN {"start", "left", "loop", "right"} ELSE Points[r]

\* A set of nodes with all they consist of, in which every VAL holds a number, and the
\* trees made of such nodes.
Proper(S) ==
  \A n \in S :
    /\ IsSeq(n.subs)
    /\ n.kind = "VAL" => n.subs[1].kind \in Ints \cup Floats
    /\ n.kind \notin {"VAL", "NAME", "ATTR"} => \A k \in DOMAIN n.subs : n.subs[k] \in S
IsTree(n) == (n = NULL \/ n.kind \in NodeKinds) /\ \E S : n \in S /\ Proper(S)
AreTrees(s) == IsSeq(s) /\ \A k \in DOMAIN s : IsTree(s[k])
PrefixWords == {"import", "ret", "throw"}

\* A frame when the current token is t: the token it has recorded is behind t, and is
\* the operator or the keyword whose operand it waits for.
Typed(f, t) ==
  /\ f.rule \in Rules /\ f.at \in Stops(f.rule) /\ IsTree(f.res) /\ AreTrees(f.hb)
  /\ f.op \in 0..(t - 1) /\ f.room \in Nat /\ f.maxn \in Nat
  /\ f.at = "right" => KindOf(toks[f.op]) \in DOMAIN Operators[f.rule]
  /\ f.at = "N" => toks[f.op] \in PrefixWords

\* Rule B, which skips the token it begins at, is called at a brace only.
AtBrace(f) == f.rule = "B" /\ f.at = "start"
PInv ==
  /\ Len(toks) \in Nat /\ toks[Len(toks)] = EOF /\ toki \in 1..Len(toks)
  /\ IsSeq(stack) /\ \A k \in 1..Len(stack) : Typed(stack[k], toki)
  /\ IsTree(ret) /\ fails \in 0..MaxFails /\ pc \in Statuses
  /\ pc = "run" => stack # <<>> /\ (AtBrace(Top) => Tok = "{")

\* A token whose text or kind is known is not the last one.
LEMMA NotLast ==
  ASSUME Len(toks) \in Nat, toks[Len(toks)] = EOF, NEW k \in 1..Len(toks),
         toks[k] # EOF \/ KindOf(toks[k]) # EOF
  PROVE  k + 1 \in 1..Len(toks)
<1>1. KindOf(EOF) = EOF
  BY ParserAssumption DEF KindOf
<1> QED
  BY <1>1

LEMMA LaterTyped ==
  ASSUME NEW t \in Nat, NEW u \in Nat, t <= u, NEW f, Typed(f, t)
  PROVE  Typed(f, u)
BY DEF Typed

LEMMA Ahead ==
  ASSUME NEW m \in Nat, NEW t \in 1..m, NEW v \in t..m
  PROVE  v \in Nat \ {0} /\ t \in Nat /\ t <= v /\ v \in 1..m
OBVIOUS

LEMMA Indices ==
  ASSUME NEW n \in Nat \ {0}
  PROVE  /\ \A k \in 1..n : k \in 1..(n - 1) \/ k = n
         /\ \A k \in 1..(n + 1) : k \in 1..n \/ k = n + 1
         /\ n \in 1..n
         /\ n # 1 => n - 1 \in 1..(n - 1) /\ n - 1 # 0
OBVIOUS

LEMMA Beyond ==
  ASSUME NEW m \in Nat, NEW t \in Nat, NEW v \in (t + 1)..m
  PROVE  v \in t..m /\ t \in 0..(v - 1)
OBVIOUS

LEMMA Ones ==
  ASSUME NEW n \in Nat \ {0}
  PROVE  1 \in 1..n /\ n \in Nat
OBVIOUS

\* Nodes are made of nodes.
LEMMA NodeTree ==
  ASSUME NEW n, NEW kind \in NodeKinds \ {"VAL"}, n.kind = kind, IsSeq(n.subs),
         kind \notin {"NAME", "ATTR"} => AreTrees(n.subs)
  PROVE  IsTree(n)
<1> DEFINE I == IF kind \in {"NAME", "ATTR"} THEN {} ELSE DOMAIN n.subs
           T(k) == CHOOSE S : n.subs[k] \in S /\ Proper(S)
           U == {n} \cup UNION {T(k) : k \in I}
<1>1. ASSUME NEW k \in I
      PROVE  n.subs[k] \in T(k) /\ Proper(T(k))
  <2>1. \E S : n.subs[k] \in S /\ Proper(S)
    BY DEF AreTrees, IsTree
  <2> QED
    BY <2>1
<1> HIDE DEF T
<1>2. ASSUME NEW m \in U
      PROVE  /\ IsSeq(m.subs)
             /\ m.kind = "VAL" => m.subs[1].kind \in Ints \cup Floats
             /\ m.kind \notin {"VAL", "NAME", "ATTR"} => \A k \in DOMAIN m.subs : m.subs[k] \in U
  <2>1. CASE m = n
    BY <1>1, <2>1
  <2>2. CASE m # n
    <3>1. PICK k \in I : m \in T(k)
      BY <2>2
    <3>2. Proper(T(k)) /\ T(k) \subseteq U
      BY <1>1
    <3> QED
      BY <3>1, <3>2 DEF Proper
  <2> QED
    BY <2>1, <2>2
<1> HIDE DEF U
<1>3. Proper(U)
  BY <1>2 DEF Proper
<1>4. n \in U
  BY DEF U
<1> QED
  BY <1>3, <1>4 DEF IsTree

\* Tuples are sequences.
LEMMA Tuples == IsSeq(<<>>) /\ (\A x : IsSeq(<<x>>)) /\ (\A x, y : IsSeq(<<x, y>>))
<1>1. <<>> \in Seq({})
  OBVIOUS
<1>2. ASSUME NEW x, NEW y
      PROVE  IsSeq(<<x>>) /\ IsSeq(<<x, y>>)
  <2>1. <<x>> \in Seq({x}) /\ <<x, y>> \in Seq({x, y})
    OBVIOUS
  <2> QED
    BY <2>1 DEF IsSeq
<1> QED
  BY <1>1, <1>2 DEF IsSeq

LEMMA NoTree == IsTree(NULL) /\ AreTrees(<<>>)
<1>1. IsSeq(<<>>)
  BY Tuples
<1>2. Proper({NULL})
  BY <1>1 DEF Proper, NULL
<1> QED
  BY <1>1, <1>2 DEF IsTree, AreTrees

LEMMA TreeTuples ==
  ASSUME NEW x, IsTree(x), NEW y, IsTree(y)
  PROVE  /\ AreTrees(<<x>>) /\ AreTrees(<<x, y>>)
         /\ IsSeq(<<x>>) /\ IsSeq(<<x, y>>)
<1>1. IsSeq(<<x>>) /\ IsSeq(<<x, y>>)
  BY Tuples
<1>2. \A k \in DOMAIN <<x>> : IsTree(<<x>>[k])
  OBVIOUS
<1>3. \A k \in DOMAIN <<x, y>> : IsTree(<<x, y>>[k])
  OBVIOUS
<1> QED
  BY <1>1, <1>2, <1>3 DEF AreTrees

LEMMA NewTyped ==
  ASSUME NEW u \in Nat \ {0}, NEW rule \in Rules
  PROVE  Typed(Frame(rule), u) /\ Frame(rule).rule = rule /\ Frame(rule).at = "start"
<1> DEFINE g == Frame(rule)
<1>1. g.rule = rule /\ g.at = "start" /\ g.res = NULL /\ g.op = 0 /\ g.room = 0 /\ g.maxn = 0
      /\ g.hb = <<>>
  BY DEF Frame
<1>2. "start" \in Stops(rule)
  BY DEF Stops, Rules, Points
<1> HIDE DEF g
<1>3. g.op \in 0..(u - 1)
  BY <1>1
<1> QED
  BY <1>1, <1>2, <1>3, NoTree DEF Typed, g

LEMMA MoveStep ==
  ASSUME IInv, PInv, pc = "run", toks' = toks, toki' \in toki..Len(toks), IsTree(ret'),
         fails' \in 0..MaxFails, pc' \in Statuses,
         \/ stack' = stack /\ pc' # "run"
         \/ stack' = Front(stack) /\ (pc' = "run" => Len(stack) # 1)
         \/ \E f : Continue(f) /\ Typed(f, toki') /\ ~AtBrace(f)
         \/ \E f, rule : /\ Call(f, rule) /\ Typed(f, toki') /\ rule \in Rules
                         /\ rule = "B" => toks[toki'] = "{"
  PROVE  PInv'
<1> DEFINE n == Len(stack)
           u == toki'
           Ok(st) == /\ IsSeq(st) /\ \A k \in 1..Len(st) : Typed(st[k], u)
                     /\ pc' = "run" => st # <<>> /\ (AtBrace(st[Len(st)]) => toks[u] = "{")
<1>1. IsSeq(stack) /\ stack # <<>> /\ n \in Nat \ {0}
      /\ \A k \in 1..(n - 1) : stack[k].at \in Waiting /\ k \in 1..n
  BY InRun
<1>2. /\ Len(toks) \in Nat /\ toks[Len(toks)] = EOF /\ toki \in 1..Len(toks)
      /\ \A k \in 1..n : Typed(stack[k], toki)
  BY DEF PInv
<1>3. u \in Nat \ {0} /\ toki \in Nat /\ toki <= u /\ u \in 1..Len(toks)
  BY <1>2, Ahead
<1>4. \A k \in 1..n : Typed(stack[k], u)
  BY <1>2, <1>3, LaterTyped
<1>5. Ok(stack') => PInv'
  <2> SUFFICES ASSUME Ok(stack')
               PROVE  PInv'
    OBVIOUS
  <2>1. \A k \in 1..Len(stack') : Typed(stack[k], toki)'
    <3> TAKE k \in 1..Len(stack')
    <3>1. Typed(stack'[k], toki')
      OBVIOUS
    <3> QED
      BY <3>1 DEF Typed
  <2>2. Top' = stack'[Len(stack')] /\ Tok' = toks[toki']
    BY DEF Top, Tok
  <2>3. (pc = "run" => stack # <<>> /\ (AtBrace(Top) => Tok = "{"))'
    BY <2>2 DEF AtBrace
  <2> QED
    BY <1>2, <1>3, <2>1, <2>3 DEF PInv, IsTree, Proper, NULL
<1>6. CASE stack' = stack /\ pc' # "run"
  BY <1>1, <1>4, <1>5, <1>6
<1>0. /\ \A k \in 1..n : k \in 1..(n - 1) \/ k = n
      /\ \A k \in 1..(n + 1) : k \in 1..n \/ k = n + 1
      /\ n # 1 => n - 1 \in 1..(n - 1) /\ n - 1 # 0
  BY <1>1, Indices
<1>7. CASE stack' = Front(stack) /\ (pc' = "run" => n # 1)
  <2>1. stack' = SubSeq(stack, 1, n - 1)
    BY <1>7 DEF Front
  <2>2. IsSeq(stack') /\ Len(stack') = n - 1 /\ \A k \in 1..(n - 1) : stack'[k] = stack[k]
    BY <1>1, <2>1, Shorter
  <2>3. \A k \in 1..Len(stack') : Typed(stack'[k], u)
    BY <1>1, <1>4, <2>2
  <2>4. ASSUME pc' = "run"
        PROVE  stack' # <<>> /\ ~AtBrace(stack'[Len(stack')])
    <3>1. n - 1 \in 1..(n - 1) /\ n - 1 # 0
      BY <1>0, <1>7, <2>4
    <3>2. stack'[n - 1].at \in Waiting
      BY <1>1, <2>2, <3>1
    <3>3. stack' # <<>>
      BY <2>2, <3>1
    <3> QED
      BY <2>2, <3>2, <3>3 DEF AtBrace, Waiting
  <2> QED
    BY <1>5, <2>2, <2>3, <2>4
<1>8. ASSUME NEW f, Typed(f, u)
      PROVE  /\ IsSeq(With(f)) /\ With(f) # <<>> /\ Len(With(f)) = n /\ With(f)[n] = f
             /\ \A k \in 1..n : Typed(With(f)[k], u)
  <2> DEFINE w == With(f)
  <2>1. IsSeq(w) /\ w # <<>> /\ Len(w) = n /\ w[n] = f /\ \A k \in 1..(n - 1) : w[k] = stack[k]
    BY <1>1, Changed DEF With
  <2> HIDE DEF w
  <2>2. \A k \in 1..n : Typed(w[k], u)
    BY <1>0, <1>4, <1>8, <2>1
  <2> QED
    BY <2>1, <2>2 DEF w
<1>9. ASSUME NEW f, Continue(f), Typed(f, u), ~AtBrace(f)
      PROVE  PInv'
  BY <1>5, <1>8, <1>9 DEF Continue
<1>10. ASSUME NEW f, NEW rule, Call(f, rule), Typed(f, u), rule \in Rules, rule = "B" => toks[u] = "{"
       PROVE  PInv'
  <2> DEFINE w == With(f)
             g == Frame(rule)
  <2>1. IsSeq(w) /\ Len(w) = n /\ \A k \in 1..n : Typed(w[k], u)
    BY <1>8, <1>10
  <2>2. Typed(g, u) /\ g.rule = rule
    BY <1>3, <1>10, NewTyped
  <2>3. stack' = Append(w, g)
    BY <1>10 DEF Call
  <2> DEFINE t == Append(w, g)
  <2>4. /\ IsSeq(t) /\ t # <<>> /\ Len(t) = Len(w) + 1 /\ t[Len(w) + 1] = g
        /\ \A k \in 1..Len(w) : t[k] = w[k]
    BY <2>1, Longer
  <2> HIDE DEF t, w, g
  <2>5. \A k \in 1..Len(t) : Typed(t[k], u)
    BY <1>0, <2>1, <2>2, <2>4
  <2>6. AtBrace(t[Len(t)]) => toks[u] = "{"
    BY <1>10, <2>1, <2>2, <2>4 DEF AtBrace
  <2> QED
    BY <1>5, <2>3, <2>4, <2>5, <2>6 DEF t
<1> QED
  BY <1>6, <1>7, <1>9, <1>10

\* What an allocation returns, and that it fails once at most.
LEMMA NewzTyped ==
  ASSUME fails \in 0..MaxFails, NEW tok, NEW kind \in NodeKinds \ {"VAL"}, NEW subs, IsSeq(subs),
         kind \notin {"NAME", "ATTR"} => AreTrees(subs),
         NEW o \in ks_ast_newz(tok, kind, subs)
  PROVE  IsTree(o.val) /\ o.fails \in 0..MaxFails /\ DOMAIN o = {"val", "live", "fails", "lost"}
<1>1. \/ o = Outcome(NULL, -Size(subs)) \/ o = Outcome(Node(kind, tok, subs), 2)
      \/ /\ fails > 0
         /\ o = Short(NULL, 0, Size(subs)) \/ o = Short(Hollow(kind, tok), 1, Size(subs))
  BY DEF ks_ast_newz, OrShort
<1>2. IsTree(o.val)
  <2> DEFINE new == Node(kind, tok, subs)
             hollow == Hollow(kind, tok)
  <2>1. new.kind = kind /\ new.subs = subs /\ hollow.kind = kind /\ hollow.subs = <<>>
    BY DEF Node, Hollow
  <2>2. o.val \in {NULL, new, hollow}
    BY <1>1 DEF Outcome, Short
  <2> HIDE DEF new, hollow
  <2>3. IsTree(new) /\ IsTree(hollow)
    BY <2>1, NodeTree, NoTree, Tuples
  <2> QED
    BY <2>2, <2>3, NoTree
<1>3. o.fails = fails \/ (fails > 0 /\ o.fails = fails - 1)
  BY <1>1 DEF Outcome, Short
<1>4. DOMAIN o = {"val", "live", "fails", "lost"}
  BY <1>1 DEF Outcome, Short
<1>5. o.fails \in 0..MaxFails
  BY <1>3, ParserAssumption
<1> QED
  BY <1>2, <1>4, <1>5

LEMMA WrapTyped ==
  ASSUME fails \in 0..MaxFails, NEW k, NEW o,
         o \in WrapString(k) \/ (o \in WrapNumber(k) /\ toks[k] \in Ints \cup Floats)
  PROVE  IsTree(o.val) /\ o.fails \in 0..MaxFails
<1> DEFINE name == Wrapped("NAME", k)
           number == Wrapped("VAL", k)
           hollow == Hollow("NAME", {k})
<1>1. \/ o = Outcome(name, 2)
      \/ o = Outcome(number, 2) /\ toks[k] \in Ints \cup Floats
      \/ fails > 0 /\ (o = Short(NULL, 1, 1) \/ o = Short(hollow, 1, 0))
  BY DEF WrapString, WrapNumber, OrShort
<1>2. name.kind = "NAME" /\ number.kind = "VAL" /\ number.subs = <<Value(toks[k])>> /\ hollow.kind = "NAME"
  BY DEF Wrapped, Node, Hollow
<1>3. \/ o.val \in {NULL, name, hollow}
      \/ o.val = number /\ toks[k] \in Ints \cup Floats
  BY <1>1 DEF Outcome, Short
<1>4. o.fails = fails \/ (fails > 0 /\ o.fails = fails - 1)
  BY <1>1 DEF Outcome, Short
<1>9. IsSeq(name.subs) /\ IsSeq(number.subs) /\ IsSeq(hollow.subs)
  BY Tuples DEF Wrapped, Node, Hollow
<1> HIDE DEF name, number, hollow
<1>5. o.fails \in 0..MaxFails
  BY <1>4, ParserAssumption
<1>6. IsTree(name) /\ IsTree(hollow)
  BY <1>2, <1>9, NodeTree DEF NodeKinds
<1>7. toks[k] \in Ints \cup Floats => IsTree(number)
  <2>1. number.subs[1].kind = toks[k]
    BY <1>2 DEF Value
  <2>2. toks[k] \in Ints \cup Floats => Proper({number})
    BY <1>2, <1>9, <2>1 DEF Proper
  <2> QED
    BY <1>2, <2>2 DEF IsTree, NodeKinds
<1> QED
  BY <1>3, <1>5, <1>6, <1>7, NoTree

LEMMA TopTyped ==
  ASSUME IInv, PInv, pc = "run"
  PROVE  /\ Typed(Top, toki) /\ DOMAIN Top = Fields /\ AreNodes(Top.hb) /\ IsTree(Top.res) /\ IsTree(ret)
         /\ AreTrees(Top.hb)
         /\ Len(toks) \in Nat /\ toki \in 1..Len(toks) /\ toki \in toki..Len(toks)
         /\ toks[Len(toks)] = EOF /\ fails \in 0..MaxFails /\ (AtBrace(Top) => Tok = "{")
         /\ IsTree(NULL)
<1>1. Len(stack) \in Nat \ {0} /\ IsFrame(Top)
  BY InRun
<1>2. Typed(stack[Len(stack)], toki)
  <2>1. Len(stack) \in 1..Len(stack)
    BY <1>1, Indices
  <2> QED
    BY <2>1 DEF PInv
<1>3. Typed(Top, toki) /\ IsTree(Top.res) /\ AreTrees(Top.hb)
  BY <1>2 DEF Top, Typed
<1>4. DOMAIN Top = Fields /\ AreNodes(Top.hb)
  BY <1>1 DEF IsFrame
<1>5. Len(toks) \in Nat /\ toki \in 1..Len(toks)
  BY DEF PInv
<1>6. toki \in toki..Len(toks)
  BY <1>5
<1> QED
  BY <1>3, <1>4, <1>5, <1>6, NoTree DEF PInv

\* The current token, or the one after it, is not the final EOF: the parser moves on.
LEMMA MayEat ==
  ASSUME IInv, PInv, pc = "run"
  PROVE  /\ Tok # EOF \/ KindOf(Tok) # EOF =>
              toki + 1 \in toki..Len(toks) /\ toki + 1 \in 1..Len(toks) /\ toki \in 0..(toki + 1 - 1)
         /\ Tok # EOF \/ KindOf(Tok) # EOF =>
              (toks[toki + 1] # EOF \/ KindOf(toks[toki + 1]) # EOF =>
                toki + 2 \in toki..Len(toks) /\ toki \in 0..(toki + 2 - 1))
<1>1. Len(toks) \in Nat /\ toki \in 1..Len(toks) /\ toks[Len(toks)] = EOF
  BY TopTyped
<1>2. Tok # EOF \/ KindOf(Tok) # EOF => toki + 1 \in 1..Len(toks)
  BY <1>1, NotLast DEF Tok
<1>3. Tok # EOF \/ KindOf(Tok) # EOF =>
        (toks[toki + 1] # EOF \/ KindOf(toks[toki + 1]) # EOF => toki + 1 + 1 \in 1..Len(toks))
  BY <1>1, <1>2, NotLast
<1> DEFINE m == Len(toks)
<1>4. m \in Nat /\ toki \in 1..m
  BY <1>1
<1> HIDE DEF m
<1>5. /\ toki + 1 \in 1..m => toki + 1 \in toki..m /\ toki \in 0..(toki + 1 - 1)
      /\ toki + 1 + 1 \in 1..m => toki + 2 \in toki..m /\ toki \in 0..(toki + 2 - 1)
  BY <1>4
<1> QED
  BY <1>2, <1>3, <1>5 DEF m

\* The frame of a rule that goes on to another point, with the token it is at recorded or not.
LEMMA NextPoint ==
  ASSUME IInv, PInv, pc = "run", NEW u, u \in toki..Len(toks), NEW g,
         g.rule = Top.rule, g.at \in Stops(Top.rule), IsTree(g.res),
         g.op = Top.op \/ (g.op = toki /\ toki \in 0..(u - 1)), g.room \in Nat, g.maxn \in Nat,
         g.hb = Top.hb \/ AreTrees(g.hb),
         g.at = "right" => KindOf(toks[g.op]) \in DOMAIN Operators[g.rule],
         g.at = "N" => toks[g.op] \in PrefixWords
  PROVE  Typed(g, u)
<1>1. Typed(Top, toki) /\ toki \in 1..Len(toks) /\ Len(toks) \in Nat
  BY TopTyped
<1>2. Top.rule \in Rules /\ Top.op \in 0..(toki - 1) /\ AreTrees(Top.hb)
  BY <1>1 DEF Typed
<1> DEFINE p == Top.op
           m == Len(toks)
<1>3. p \in 0..(toki - 1) /\ toki \in 1..m /\ u \in toki..m /\ m \in Nat
  BY <1>1, <1>2
<1> HIDE DEF p, m
<1>4. p \in 0..(u - 1)
  BY <1>3
<1>5. g.op \in 0..(u - 1)
  BY <1>4 DEF p
<1> QED
  BY <1>2, <1>5 DEF Typed

\* A frame g that is f with more nodes.
Grown(f, g) ==
  /\ DOMAIN g = Fields /\ g.rule = f.rule /\ g.at = f.at /\ g.res = f.res /\ g.op = f.op
  /\ g.room \in Nat /\ g.maxn \in Nat /\ AreTrees(g.hb)

\* A push leaves a frame its rule and what it has recorded.
LEMMA PushedTyped ==
  ASSUME NEW f, DOMAIN f = Fields, AreNodes(f.hb), f.room \in Nat, f.maxn \in Nat, NEW qn \in Nat, NEW node,
         AreTrees(f.hb), IsTree(node)
  PROVE  Grown(f, Pushed(f, qn, node))
<1> DEFINE n == Len(f.hb)
           c == kmem_nextcap(f.maxn, Pointer * (n + 1))
           g == Pushed(f, qn, node)
<1>1. n \in Nat
  BY SizeType
<1> HIDE DEF n
<1>2. c \in Nat
  <2> DEFINE d == f.maxn
  <2>1. d \in Nat
    OBVIOUS
  <2> HIDE DEF d
  <2>2. kmem_nextcap(d, Pointer * (n + 1)) \in Nat
    BY <1>1, <2>1 DEF kmem_nextcap, Pointer
  <2> QED
    BY <2>2 DEF d
<1> HIDE DEF c
<1>3. c \div Pointer \in Nat
  BY <1>2 DEF Pointer
<1>4. \/ g = [f EXCEPT !.hb = Append(@, node), !.room = qn + 1]
      \/ g = [f EXCEPT !.hb = Append(@, node), !.room = c \div Pointer, !.maxn = c]
      \/ g = [f EXCEPT !.hb = Append(@, node)]
  BY DEF Pushed, c, n
<1>8. AreTrees(Append(f.hb, node))
  <2> DEFINE t == Append(f.hb, node)
  <2>1. IsSeq(t) /\ Len(t) = n + 1 /\ t[n + 1] = node /\ \A k \in 1..n : t[k] = f.hb[k]
    BY Longer DEF AreNodes, n
  <2>2. DOMAIN t = 1..(n + 1) /\ DOMAIN f.hb = 1..n
    BY <2>1, Longer DEF AreNodes, n
  <2> HIDE DEF t
  <2>3. \A k \in 1..(n + 1) : k \in 1..n \/ k = n + 1
    BY <1>1
  <2> QED
    BY <2>1, <2>2, <2>3 DEF AreTrees, t
<1> HIDE DEF g
<1>5. CASE g = [f EXCEPT !.hb = Append(@, node), !.room = qn + 1]
  BY <1>5, <1>8 DEF Fields, g, Grown
<1>6. CASE g = [f EXCEPT !.hb = Append(@, node), !.room = c \div Pointer, !.maxn = c]
  BY <1>2, <1>3, <1>6, <1>8 DEF Fields, g, Grown
<1>7. CASE g = [f EXCEPT !.hb = Append(@, node)]
  BY <1>7, <1>8 DEF Fields, g, Grown
<1> QED
  BY <1>4, <1>5, <1>6, <1>7 DEF g

\* A rule that returns v, or gives up.
LEMMA ReturnMoves ==
  ASSUME IInv, PInv, pc = "run", toks' = toks, toki' \in toki..Len(toks), NEW v, IsTree(v),
         fails' \in 0..MaxFails, ret' = v, stack' = Front(stack), pc' \in Statuses,
         pc' = "run" => Len(stack) # 1
  PROVE  PInv'
<1>1. ret' = v /\ stack' = Front(stack)
  OBVIOUS
<1> QED
  BY <1>1, MoveStep

\* Each level has its rules, its operators and their kinds of nodes.
LEMMA LevelFacts ==
  ASSUME NEW r \in Levels
  PROVE  /\ Left(r) \in Rules \ {"B"} /\ Right(r) \in Rules \ {"B"} /\ r # "B"
         /\ Stops(r) = {"start", "left", "loop", "right"}
         /\ EOF \notin DOMAIN Operators[r]
         /\ \A o \in DOMAIN Operators[r] : Operators[r][o] \in NodeKinds \ {"VAL", "NAME", "ATTR"}
<1>1. r \in {"E0", "E1", "E8", "E9", "E10"}
  BY DEF Levels, Operators
<1>2. Left(r) \in Rules \ {"B"} /\ Right(r) \in Rules \ {"B"} /\ r # "B"
  BY <1>1 DEF Left, Right, Rules, Levels, Operators, Points
<1>3. Stops(r) = {"start", "left", "loop", "right"}
  BY DEF Stops
<1>4. EOF \notin DOMAIN Operators[r]
  BY <1>1 DEF Operators, EOF
<1>5. \A o \in DOMAIN Operators[r] : Operators[r][o] \in NodeKinds \ {"VAL", "NAME", "ATTR"}
  <2>1. \A o \in DOMAIN Operators[r] : Operators[r][o] \in NodeKinds
    BY DEF NodeKinds
  <2>2. \A o \in DOMAIN Operators[r] : Operators[r][o] \notin {"VAL", "NAME", "ATTR"}
    BY <1>1 DEF Operators
  <2> QED
    BY <2>1, <2>2
<1> QED
  BY <1>2, <1>3, <1>4, <1>5

LEMMA BinaryMoves ==
  ASSUME IInv, PInv, NEW r \in Levels,
         Operand(r) \/ LeftOperand(r) \/ Operator(r) \/ RightOperand(r) \/ NoOperator(r)
  PROVE  PInv'
<1>1. pc = "run" /\ Top.rule = r /\ toks' = toks
  BY DEF Operand, LeftOperand, Operator, RightOperand, NoOperator, At
<1>2. pc' \in Statuses
  <2>1. Next
    BY DEF Next, Binary
  <2> QED
    BY <2>1, NextStatus
<1>3. /\ Typed(Top, toki) /\ DOMAIN Top = Fields /\ AreTrees(Top.hb) /\ IsTree(Top.res) /\ IsTree(ret) /\ IsTree(NULL)
      /\ toki \in toki..Len(toks) /\ fails \in 0..MaxFails
  BY <1>1, TopTyped
<1>4. Top.room \in Nat /\ Top.maxn \in Nat
  BY <1>3 DEF Typed
<1>5. CASE Operand(r)
  <2> DEFINE g == [Top EXCEPT !.at = "left"]
  <2>1. Call(g, Left(r)) /\ toki' = toki /\ ret' = ret /\ fails' = fails
    BY <1>5 DEF Operand, Pure, memory
  <2>2. /\ g.rule = Top.rule /\ g.at = "left" /\ g.res = Top.res /\ g.op = Top.op
        /\ g.room = Top.room /\ g.maxn = Top.maxn /\ g.hb = Top.hb
    BY <1>3 DEF Fields
  <2> HIDE DEF g
  <2>3. Typed(g, toki')
    BY <1>1, <1>3, <1>4, <2>1, <2>2, NextPoint, LevelFacts
  <2> QED
    BY <1>1, <1>2, <1>3, <2>1, <2>3, MoveStep, LevelFacts
<1>6. CASE LeftOperand(r)
  <2> DEFINE g == [Top EXCEPT !.at = "loop", !.res = ret]
  <2>1. toki' = toki /\ fails' = fails
    BY <1>6 DEF LeftOperand, memory
  <2>2. CASE Return(NULL)
    BY <1>1, <1>2, <1>3, <2>1, <2>2, ReturnMoves DEF Return
  <2>3. CASE Continue(g) /\ ret' = NULL
    <3>1. /\ g.rule = Top.rule /\ g.at = "loop" /\ g.res = ret /\ g.op = Top.op
          /\ g.room = Top.room /\ g.maxn = Top.maxn /\ g.hb = Top.hb
      BY <1>3 DEF Fields
    <3> HIDE DEF g
    <3>2. Typed(g, toki')
      BY <1>1, <1>3, <1>4, <2>1, <3>1, NextPoint, LevelFacts
    <3> QED
      BY <1>1, <1>2, <1>3, <2>1, <2>3, <3>1, <3>2, MoveStep DEF AtBrace
  <2> QED
    BY <1>6, <2>2, <2>3 DEF LeftOperand, Taken
<1>7. CASE Operator(r)
  <2> DEFINE g == [Top EXCEPT !.at = "right", !.op = toki]
  <2>1. /\ Call(g, Right(r)) /\ toki' = toki + 1 /\ ret' = ret /\ fails' = fails
        /\ KindOf(Tok) \in DOMAIN Operators[r]
    BY <1>7 DEF Operator, Pure, memory, EAT
  <2>2. /\ g.rule = Top.rule /\ g.at = "right" /\ g.res = Top.res /\ g.op = toki
        /\ g.room = Top.room /\ g.maxn = Top.maxn /\ g.hb = Top.hb
    BY <1>3 DEF Fields
  <2> HIDE DEF g
  <2>3. KindOf(Tok) # EOF
    BY <2>1, LevelFacts
  <2>4. toki' \in toki..Len(toks) /\ toki \in 0..(toki' - 1)
    BY <1>1, <2>1, <2>3, MayEat
  <2>5. Typed(g, toki')
    BY <1>1, <1>3, <1>4, <2>1, <2>2, <2>4, NextPoint, LevelFacts DEF Tok
  <2> QED
    BY <1>1, <1>2, <1>3, <2>1, <2>4, <2>5, MoveStep, LevelFacts
<1>8. CASE RightOperand(r)
  <2> DEFINE k == Operators[r][KindOf(toks[Top.op])]
  <2>1. k \in NodeKinds \ {"VAL", "NAME", "ATTR"}
    <3>1. Top.at = "right"
      BY <1>8 DEF RightOperand, At
    <3>2. KindOf(toks[Top.op]) \in DOMAIN Operators[r]
      BY <1>1, <1>3, <3>1 DEF Typed
    <3> QED
      BY <3>2, LevelFacts
  <2>2. PICK o \in ks_ast_newz({Top.op, toki - 1}, k, <<Top.res, ret>>) :
          Continue([Top EXCEPT !.at = "loop", !.res = o.val]) /\ Take(o)
    BY <1>8 DEF RightOperand
  <2> HIDE DEF k
  <2>3. IsTree(o.val) /\ o.fails \in 0..MaxFails
    <3>1. AreTrees(<<Top.res, ret>>) /\ IsSeq(<<Top.res, ret>>)
      BY <1>3, TreeTuples
    <3> QED
      BY <1>3, <2>1, <2>2, <3>1, NewzTyped
  <2>4. toki' = toki /\ ret' = NULL /\ fails' = o.fails
    BY <1>8, <2>2 DEF RightOperand, Taken, Take
  <2> DEFINE g == [Top EXCEPT !.at = "loop", !.res = o.val]
  <2>5. /\ g.rule = Top.rule /\ g.at = "loop" /\ g.res = o.val /\ g.op = Top.op
        /\ g.room = Top.room /\ g.maxn = Top.maxn /\ g.hb = Top.hb
    BY <1>3 DEF Fields
  <2>6. Continue(g)
    BY <2>2
  <2> HIDE DEF g
  <2>7. Typed(g, toki')
    BY <1>1, <1>3, <1>4, <2>3, <2>4, <2>5, NextPoint, LevelFacts
  <2> QED
    BY <1>1, <1>2, <1>3, <2>3, <2>4, <2>5, <2>6, <2>7, MoveStep DEF AtBrace
<1>9. CASE NoOperator(r)
  <2>1. Return(Top.res) /\ toki' = toki /\ fails' = fails
    BY <1>9 DEF NoOperator, memory
  <2> QED
    BY <1>1, <1>2, <1>3, <2>1, ReturnMoves DEF Return
<1> QED
  BY <1>5, <1>6, <1>7, <1>8, <1>9

\* A rule that calls another; only B is called at a brace.
LEMMA CallMoves ==
  ASSUME IInv, PInv, pc = "run", toks' = toks, toki' \in toki..Len(toks), IsTree(ret'),
         fails' \in 0..MaxFails, pc' \in Statuses, NEW f, NEW rule, Call(f, rule), Typed(f, toki'),
         rule \in Rules, rule = "B" => toks[toki'] = "{"
  PROVE  PInv'
<1>1. /\ Call(f, rule) /\ Typed(f, toki') /\ rule \in Rules
      /\ rule = "B" => toks[toki'] = "{"
  OBVIOUS
<1> QED
  BY <1>1, MoveStep

LEMMA AbortMoves ==
  ASSUME IInv, PInv, pc = "run", Abort \/ (fails > 0 /\ AbortShort)
  PROVE  PInv'
<1>1. pc' = "abort" /\ UNCHANGED <<toks, toki, stack, ret>>
  BY DEF Abort, AbortShort
<1>2. fails' = fails \/ (fails > 0 /\ fails' = fails - 1)
  BY DEF Abort, AbortShort, memory
<1>3. toki \in toki..Len(toks) /\ IsTree(ret) /\ fails \in 0..MaxFails
  BY TopTyped
<1>4. fails' \in 0..MaxFails
  BY <1>2, <1>3, ParserAssumption
<1> QED
  BY <1>1, <1>3, <1>4, MoveStep DEF Statuses

\* The points of E12.
LEMMA PostfixFacts ==
  ASSUME IInv, PInv, Postfix
  PROVE  /\ pc = "run" /\ Top.rule = "E12" /\ toks' = toks /\ pc' \in Statuses
         /\ Typed(Top, toki) /\ DOMAIN Top = Fields /\ AreNodes(Top.hb) /\ AreTrees(Top.hb) /\ IsTree(Top.res) /\ IsTree(ret)
         /\ IsTree(NULL) /\ toki \in toki..Len(toks) /\ fails \in 0..MaxFails
         /\ Top.room \in Nat /\ Top.maxn \in Nat
         /\ Stops("E12") = {"start", "loop", "args", "arg", "close"}
<1>1. pc = "run" /\ Top.rule = "E12" /\ toks' = toks
  BY DEF Postfix, Atom, Attribute, OpenCall, Argument, PushArgument, CloseCall, NoPostfix, At
<1>2. pc' \in Statuses
  <2>1. Next
    BY DEF Next
  <2> QED
    BY <2>1, NextStatus
<1>3. Stops("E12") = {"start", "loop", "args", "arg", "close"}
  BY DEF Stops, Levels, Operators, Points
<1>4. Typed(Top, toki)
  BY <1>1, TopTyped
<1>5. Top.room \in Nat /\ Top.maxn \in Nat
  BY <1>4 DEF Typed
<1> QED
  BY <1>1, <1>2, <1>3, <1>5, TopTyped

\* The current token is no final EOF if its kind is known.
LEMMA AtomMoves ==
  ASSUME IInv, PInv, Atom
  PROVE  PInv'
<1>1. Postfix
  BY DEF Postfix
<1>2. /\ pc = "run" /\ Top.rule = "E12" /\ toks' = toks /\ pc' \in Statuses
      /\ Typed(Top, toki) /\ DOMAIN Top = Fields /\ AreTrees(Top.hb) /\ IsTree(Top.res) /\ IsTree(ret)
      /\ IsTree(NULL) /\ fails \in 0..MaxFails
      /\ Top.room \in Nat /\ Top.maxn \in Nat
      /\ Stops("E12") = {"start", "loop", "args", "arg", "close"}
  BY <1>1, PostfixFacts
<1>3. CASE Abort \/ (fails > 0 /\ AbortShort)
  BY <1>2, <1>3, AbortMoves
<1>4. CASE ~Abort /\ ~(fails > 0 /\ AbortShort)
  <2>1. KindOf(Tok) \in {"NAME", "INT", "FLOAT"} /\ toki' = toki + 1
    BY <1>4 DEF Atom, EAT
  <2>2. PICK o \in WrapString(toki) \cup WrapNumber(toki) :
          /\ Take(o) /\ (o \in WrapString(toki) \/ KindOf(Tok) \in {"INT", "FLOAT"})
          /\ IF o.val = NULL THEN Return(NULL)
             ELSE Continue([Top EXCEPT !.at = "loop", !.res = o.val]) /\ ret' = NULL
    BY <1>4, <2>1 DEF Atom, Taken
  <2>3. toki' \in toki..Len(toks)
    BY <1>2, <2>1, MayEat DEF EOF
  <2>4. IsTree(o.val) /\ fails' \in 0..MaxFails
    <3>1. KindOf(Tok) \in {"INT", "FLOAT"} => toks[toki] \in Ints \cup Floats
      BY ParserAssumption DEF KindOf, Tok
    <3> QED
      BY <1>2, <2>2, <3>1, WrapTyped DEF Take
  <2>5. CASE o.val = NULL
    BY <1>2, <2>2, <2>3, <2>4, <2>5, ReturnMoves DEF Return
  <2>6. CASE o.val # NULL
    <3> DEFINE g == [Top EXCEPT !.at = "loop", !.res = o.val]
    <3>1. Continue(g) /\ ret' = NULL
      BY <2>2, <2>6
    <3>2. /\ g.rule = Top.rule /\ g.at = "loop" /\ g.res = o.val /\ g.op = Top.op
          /\ g.room = Top.room /\ g.maxn = Top.maxn /\ g.hb = Top.hb
      BY <1>2 DEF Fields
    <3> HIDE DEF g
    <3>3. Typed(g, toki')
      BY <1>2, <2>3, <2>4, <3>2, NextPoint
    <3> QED
      BY <1>2, <2>3, <2>4, <3>1, <3>2, <3>3, MoveStep DEF AtBrace
  <2> QED
    BY <2>5, <2>6
<1> QED
  BY <1>3, <1>4

LEMMA AttributeMoves ==
  ASSUME IInv, PInv, Attribute
  PROVE  PInv'
<1>1. Postfix
  BY DEF Postfix
<1>2. /\ pc = "run" /\ Top.rule = "E12" /\ toks' = toks /\ pc' \in Statuses
      /\ Typed(Top, toki) /\ DOMAIN Top = Fields /\ AreTrees(Top.hb) /\ IsTree(ret)
      /\ IsTree(NULL) /\ fails \in 0..MaxFails
      /\ Top.room \in Nat /\ Top.maxn \in Nat
      /\ Stops("E12") = {"start", "loop", "args", "arg", "close"}
  BY <1>1, PostfixFacts
<1>3. CASE Abort
  BY <1>2, <1>3, AbortMoves
<1>4. CASE ~Abort
  <2>1. KindOf(Tok) = "." /\ KindOf(toks[toki + 1]) = "NAME" /\ toki' = toki + 2 /\ ret' = ret
        /\ Top.at = "loop"
    BY <1>4 DEF Attribute, At
  <2>2. toki' \in toki..Len(toks)
    BY <1>2, <2>1, MayEat DEF EOF
  <2> DEFINE named   == ks_ast_newz({toki}, "ATTR", <<Top.res, Value(toks[toki])>>)
             unnamed == IF fails > 0 THEN {Short(NULL, -Top.res.size, 0)} ELSE {}
  <2>3. PICK o \in {[q EXCEPT !.live = @ + 1] : q \in named} \cup unnamed :
          Continue([Top EXCEPT !.res = o.val]) /\ Take(o)
    BY <1>4 DEF Attribute
  <2>4. IsTree(o.val) /\ o.fails \in 0..MaxFails
    <3>1. CASE o \in unnamed
      <4>1. fails > 0 /\ o.val = NULL /\ o.fails = fails - 1
        BY <3>1 DEF Short
      <4> QED
        BY <1>2, <4>1, ParserAssumption
    <3>2. CASE o \in {[q EXCEPT !.live = @ + 1] : q \in named}
      <4>1. PICK q \in named : o = [q EXCEPT !.live = @ + 1]
        BY <3>2
      <4>2. "ATTR" \in NodeKinds \ {"VAL"} /\ IsSeq(<<Top.res, Value(toks[toki])>>)
        BY Tuples DEF NodeKinds
      <4>3. IsTree(q.val) /\ q.fails \in 0..MaxFails /\ DOMAIN q = {"val", "live", "fails", "lost"}
        BY <1>2, <4>1, <4>2, NewzTyped
      <4> QED
        BY <4>1, <4>3
    <3> QED
      BY <2>3, <3>1, <3>2
  <2>5. fails' = o.fails
    BY <2>3 DEF Take
  <2> DEFINE g == [Top EXCEPT !.res = o.val]
  <2>6. /\ g.rule = Top.rule /\ g.at = "loop" /\ g.res = o.val /\ g.op = Top.op
        /\ g.room = Top.room /\ g.maxn = Top.maxn /\ g.hb = Top.hb
    BY <1>2, <2>1 DEF Fields
  <2>7. Continue(g)
    BY <2>3
  <2> HIDE DEF g
  <2>8. Typed(g, toki')
    BY <1>2, <2>2, <2>4, <2>6, NextPoint
  <2> QED
    BY <1>2, <2>1, <2>2, <2>4, <2>5, <2>6, <2>7, <2>8, MoveStep DEF AtBrace
<1> QED
  BY <1>3, <1>4

LEMMA ArgumentMoves ==
  ASSUME IInv, PInv, OpenCall \/ Argument \/ PushArgument
  PROVE  PInv'
<1>1. Postfix
  BY DEF Postfix
<1>2. /\ pc = "run" /\ Top.rule = "E12" /\ toks' = toks /\ pc' \in Statuses
      /\ Typed(Top, toki) /\ DOMAIN Top = Fields /\ AreNodes(Top.hb) /\ AreTrees(Top.hb) /\ IsTree(Top.res) /\ IsTree(ret)
      /\ IsTree(NULL) /\ toki \in toki..Len(toks) /\ fails \in 0..MaxFails
      /\ Top.room \in Nat /\ Top.maxn \in Nat
      /\ Stops("E12") = {"start", "loop", "args", "arg", "close"}
  BY <1>1, PostfixFacts
<1>3. CASE OpenCall
  <2> DEFINE h == Pushed(Top, 8, Top.res)
             g == [h EXCEPT !.at = "args", !.res = NULL]
  <2>1. /\ KindOf(Tok) = "(" /\ toki' = toki + 1 /\ Continue(g) /\ ret' = ret /\ fails' = fails
    BY <1>3 DEF OpenCall, EAT, Pure, memory
  <2>2. toki' \in toki..Len(toks)
    BY <1>2, <2>1, MayEat DEF EOF
  <2>3. /\ DOMAIN h = Fields /\ h.rule = Top.rule /\ h.op = Top.op
        /\ h.room \in Nat /\ h.maxn \in Nat /\ AreTrees(h.hb)
    <3>1. /\ DOMAIN Top = Fields /\ AreNodes(Top.hb) /\ Top.room \in Nat /\ Top.maxn \in Nat
          /\ 8 \in Nat /\ AreTrees(Top.hb) /\ IsTree(Top.res)
      BY <1>2
    <3>2. Grown(Top, h)
      BY <3>1, PushedTyped
    <3> QED
      BY <3>2 DEF Grown
  <2> HIDE DEF h
  <2>4. /\ g.rule = Top.rule /\ g.at = "args" /\ g.res = NULL /\ g.op = Top.op
        /\ g.room \in Nat /\ g.maxn \in Nat /\ AreTrees(g.hb)
    BY <2>3 DEF Fields
  <2> HIDE DEF g
  <2>5. Typed(g, toki')
    BY <1>2, <2>2, <2>4, NextPoint
  <2> QED
    BY <1>2, <2>1, <2>2, <2>4, <2>5, MoveStep DEF AtBrace
<1>4. CASE Argument
  <2> DEFINE g(a) == [Top EXCEPT !.at = a]
  <2>1. /\ toki' = toki /\ ret' = ret /\ fails' = fails
        /\ Continue(g("close")) \/ Call(g("arg"), "E0")
    BY <1>4 DEF Argument, Pure, memory
  <2>2. ASSUME NEW a \in {"close", "arg"}
        PROVE  /\ g(a).rule = Top.rule /\ g(a).at = a /\ g(a).res = Top.res /\ g(a).op = Top.op
               /\ g(a).room = Top.room /\ g(a).maxn = Top.maxn /\ g(a).hb = Top.hb
    BY <1>2 DEF Fields
  <2> HIDE DEF g
  <2>3. Typed(g("close"), toki')
    BY <1>2, <2>1, <2>2, NextPoint
  <2>4. Typed(g("arg"), toki')
    BY <1>2, <2>1, <2>2, NextPoint
  <2>5. CASE Continue(g("close"))
    <3>1. ~AtBrace(g("close"))
      BY <2>2 DEF AtBrace
    <3> QED
      BY <1>2, <2>1, <2>3, <2>5, <3>1, MoveStep
  <2>6. CASE Call(g("arg"), "E0")
    <3>1. toki' \in toki..Len(toks) /\ IsTree(ret') /\ fails' \in 0..MaxFails
      BY <1>2, <2>1
    <3>2. "E0" \in Rules
      BY DEF Rules, Levels, Operators
    <3> QED
      BY <1>2, <2>4, <2>6, <3>1, <3>2, CallMoves
  <2> QED
    BY <2>1, <2>5, <2>6
<1>5. CASE PushArgument
  <2>1. CASE ret = NULL
    <3>1. /\ stack' = Front(stack) /\ ret' = NULL /\ fails' = fails /\ toki' = toki
          /\ pc' = "run" => Len(stack) # 1
      BY <1>5, <2>1 DEF PushArgument, ReturnWithout, After
    <3> QED
      BY <1>2, <3>1, ReturnMoves
  <2>2. CASE ret # NULL
    <3> DEFINE h == Pushed(Top, 8, ret)
               a == IF KindOf(Tok) = "," THEN "args" ELSE "close"
               g == [h EXCEPT !.at = a]
    <3>1. /\ toki' = (IF KindOf(Tok) = "," THEN toki + 1 ELSE toki)
          /\ Continue(g) /\ ret' = NULL /\ fails' = fails
      BY <1>5, <2>2 DEF PushArgument, Taken, memory
    <3>2. toki' \in toki..Len(toks)
      BY <1>2, <3>1, MayEat DEF EOF
    <3>3. /\ DOMAIN h = Fields /\ h.rule = Top.rule /\ h.op = Top.op /\ h.res = Top.res
          /\ h.room \in Nat /\ h.maxn \in Nat /\ AreTrees(h.hb)
      <4>1. /\ DOMAIN Top = Fields /\ AreNodes(Top.hb) /\ Top.room \in Nat /\ Top.maxn \in Nat
            /\ 8 \in Nat /\ AreTrees(Top.hb) /\ IsTree(ret)
        BY <1>2
      <4>2. Grown(Top, h)
        BY <4>1, PushedTyped
      <4> QED
        BY <4>2 DEF Grown
    <3> HIDE DEF h
    <3>4. /\ g.rule = Top.rule /\ g.at \in {"args", "close"} /\ g.res = Top.res /\ g.op = Top.op
          /\ g.room \in Nat /\ g.maxn \in Nat /\ AreTrees(g.hb)
      BY <3>3 DEF Fields
    <3> HIDE DEF g
    <3>5. Typed(g, toki')
      BY <1>2, <3>2, <3>4, NextPoint
    <3> QED
      BY <1>2, <3>1, <3>2, <3>4, <3>5, MoveStep DEF AtBrace
  <2> QED
    BY <2>1, <2>2
<1> QED
  BY <1>3, <1>4, <1>5

LEMMA PostfixMoves ==
  ASSUME IInv, PInv, Postfix
  PROVE  PInv'
<1>1. /\ pc = "run" /\ toks' = toks /\ pc' \in Statuses /\ IsTree(Top.res) /\ AreTrees(Top.hb)
      /\ toki \in toki..Len(toks) /\ fails \in 0..MaxFails
  BY PostfixFacts
<1>2. CASE CloseCall
  <2>1. CASE Abort
    BY <1>1, <2>1, AbortMoves
  <2>2. CASE ~Abort
    <3>1. KindOf(Tok) = ")" /\ toki' = toki + 1
      BY <1>2, <2>2 DEF CloseCall, EAT
    <3>2. PICK o \in ks_ast_newz({toki}, "CALL", Top.hb) : Return(o.val) /\ Take(o)
      BY <1>2, <2>2 DEF CloseCall
    <3>3. "CALL" \in NodeKinds \ {"VAL"}
      BY DEF NodeKinds
    <3>4. IsTree(o.val) /\ fails' \in 0..MaxFails
      BY <1>1, <3>2, <3>3, NewzTyped DEF Take, AreTrees
    <3>5. toki' \in toki..Len(toks)
      BY <1>1, <3>1, MayEat DEF EOF
    <3> QED
      BY <1>1, <3>2, <3>4, <3>5, ReturnMoves DEF Return
  <2> QED
    BY <2>1, <2>2
<1>3. CASE NoPostfix
  <2>1. Return(Top.res) /\ toki' = toki /\ fails' = fails
    BY <1>3 DEF NoPostfix, memory
  <2> QED
    BY <1>1, <2>1, ReturnMoves DEF Return
<1> QED
  BY <1>2, <1>3, AtomMoves, AttributeMoves, ArgumentMoves DEF Postfix

LEMMA StatementFacts ==
  ASSUME IInv, PInv, Statement, ~PushFails
  PROVE  /\ pc = "run" /\ Top.rule \in {"STMT", "B"} /\ toks' = toks /\ pc' \in Statuses
         /\ Typed(Top, toki) /\ DOMAIN Top = Fields /\ AreNodes(Top.hb) /\ AreTrees(Top.hb) /\ IsTree(Top.res) /\ IsTree(ret)
         /\ IsTree(NULL) /\ toki \in toki..Len(toks) /\ fails \in 0..MaxFails
         /\ Top.room \in Nat /\ Top.maxn \in Nat
         /\ Stops("STMT") = {"start", "N", "cond", "body", "else", "build"}
         /\ Stops("B") = {"start", "stmts", "stmt"}
<1>1. pc = "run" /\ Top.rule \in {"STMT", "B"} /\ toks' = toks
  BY DEF Statement, ExpressionStatement, Unimplemented, Import, RetOrThrow, EndStatement,
         BeginIf, IfCondition, IfBody, IfElse, IfBuild, BeginBlock, BlockStatement, PushStatement,
         EndBlock, At
<1>2. pc' \in Statuses
  <2>1. Next
    BY DEF Next
  <2> QED
    BY <2>1, NextStatus
<1>3. /\ Stops("STMT") = {"start", "N", "cond", "body", "else", "build"}
      /\ Stops("B") = {"start", "stmts", "stmt"}
  BY DEF Stops, Levels, Operators, Points
<1>4. Typed(Top, toki)
  BY <1>1, TopTyped
<1>5. Top.room \in Nat /\ Top.maxn \in Nat
  BY <1>4 DEF Typed
<1> QED
  BY <1>1, <1>2, <1>3, <1>5, TopTyped

LEMMA RuleNames == {"E0", "STMT", "B"} \subseteq Rules
BY DEF Rules, Levels, Operators, Points

\* Where a statement begins.
LEMMA BeginMoves ==
  ASSUME IInv, PInv, ExpressionStatement \/ Unimplemented \/ Import \/ RetOrThrow \/ BeginIf
  PROVE  PInv'
<1>0. Statement /\ Top.rule = "STMT" /\ Top.at = "start"
  BY DEF Statement, ExpressionStatement, Unimplemented, Import, RetOrThrow, BeginIf, At
<1>1. CASE PushFails
  BY <1>1, AbortMoves DEF PushFails
<1>2. CASE ~PushFails
  <2>1. /\ pc = "run" /\ toks' = toks /\ pc' \in Statuses
        /\ DOMAIN Top = Fields /\ AreTrees(Top.hb) /\ IsTree(Top.res) /\ IsTree(ret)
        /\ IsTree(NULL) /\ toki \in toki..Len(toks) /\ fails \in 0..MaxFails
        /\ Top.room \in Nat /\ Top.maxn \in Nat
        /\ Stops("STMT") = {"start", "N", "cond", "body", "else", "build"}
    BY <1>0, <1>2, StatementFacts
  <2>2. toki \in Nat \ {0}
    BY <2>1, TopTyped, Ahead
  <2>3. CASE Abort
    BY <2>1, <2>3, AbortMoves
  <2>4. CASE ExpressionStatement
    <3>1. Continue(Frame("E0")) /\ toki' = toki /\ ret' = ret /\ fails' = fails
      BY <2>4 DEF ExpressionStatement, Pure, memory
    <3>2. Typed(Frame("E0"), toki') /\ Frame("E0").rule = "E0"
      BY <2>2, <3>1, RuleNames, NewTyped
    <3> QED
      BY <2>1, <3>1, <3>2, MoveStep DEF AtBrace
  <2> DEFINE g == [Top EXCEPT !.at = "N", !.op = toki]
             c == [Top EXCEPT !.at = "cond"]
  <2>5. /\ g.rule = Top.rule /\ g.at = "N" /\ g.res = Top.res /\ g.op = toki
        /\ g.room = Top.room /\ g.maxn = Top.maxn /\ g.hb = Top.hb
    BY <2>1 DEF Fields
  <2>6. /\ c.rule = Top.rule /\ c.at = "cond" /\ c.res = Top.res /\ c.op = Top.op
        /\ c.room = Top.room /\ c.maxn = Top.maxn /\ c.hb = Top.hb
    BY <2>1 DEF Fields
  <2>7. CASE Import /\ ~Abort
    <3>1. /\ Tok = "import" /\ KindOf(toks[toki + 1]) = "NAME"
          /\ toki' = toki + 2 /\ Continue(g)
      BY <2>7 DEF Import
    <3>2. PICK o \in WrapString(toki + 1) : ret' = o.val /\ Take(o)
      BY <2>7 DEF Import
    <3> HIDE DEF g
    <3>3. IsTree(ret') /\ fails' \in 0..MaxFails
      BY <2>1, <3>2, WrapTyped DEF Take
    <3>4. toki' \in toki..Len(toks) /\ toki \in 0..(toki' - 1)
      BY <2>1, <3>1, MayEat DEF EOF
    <3>5. Typed(g, toki')
      BY <1>0, <2>1, <2>5, <3>1, <3>4, NextPoint DEF PrefixWords, Tok
    <3> QED
      BY <2>1, <2>5, <3>1, <3>3, <3>4, <3>5, MoveStep DEF AtBrace
  <2>8. CASE RetOrThrow
    <3>1. Tok \in {"ret", "throw"} /\ Tok # EOF
      BY <2>8 DEF RetOrThrow, EOF
    <3>2. CASE toks[toki + 1] \in Separators
      <4>1. toki' = toki + 2 /\ toks[toki + 1] # EOF
        BY <2>8, <3>2 DEF RetOrThrow, Separators, EOF
      <4>2. toki' \in toki..Len(toks)
        BY <2>1, <3>1, <4>1, MayEat
      <4>3. \/ \E o \in ks_ast_newz({toki + 1}, "RET", <<>>) : Return(o.val) /\ Take(o)
            \/ \E o \in ks_ast_newz({toki}, "THROW", <<>>) : Return(o.val) /\ Take(o)
        BY <2>8, <3>2 DEF RetOrThrow
      <4>4. {"RET", "THROW"} \subseteq NodeKinds \ {"VAL"}
        BY DEF NodeKinds
      <4>5. ASSUME NEW tok, NEW kind \in {"RET", "THROW"}, NEW o \in ks_ast_newz(tok, kind, <<>>),
                   Return(o.val), Take(o)
            PROVE  PInv'
        <5>1. IsTree(o.val) /\ fails' \in 0..MaxFails
          BY <2>1, <4>4, <4>5, NoTree, Tuples, NewzTyped DEF Take
        <5> QED
          BY <2>1, <4>2, <4>5, <5>1, ReturnMoves DEF Return
      <4> QED
        BY <4>3, <4>5
    <3>3. CASE toks[toki + 1] \notin Separators
      <4>1. toki' = toki + 1 /\ Call(g, "E0") /\ ret' = ret /\ fails' = fails
        BY <2>8, <3>3 DEF RetOrThrow, EAT, Pure, memory
      <4> HIDE DEF g
      <4>2. toki' \in toki..Len(toks) /\ toki \in 0..(toki' - 1)
        BY <2>1, <3>1, <4>1, MayEat
      <4>3. Typed(g, toki')
        BY <1>0, <2>1, <2>5, <3>1, <4>2, NextPoint DEF PrefixWords, Tok
      <4>4. IsTree(ret') /\ fails' \in 0..MaxFails
        BY <2>1, <4>1
      <4> QED
        BY <2>1, <4>1, <4>2, <4>3, <4>4, RuleNames, CallMoves
    <3> QED
      BY <3>2, <3>3
  <2>9. CASE BeginIf
    <3>1. Tok = "if" /\ toki' = toki + 1 /\ Call(c, "E0") /\ ret' = ret /\ fails' = fails
      BY <2>9 DEF BeginIf, EAT, Pure, memory
    <3> HIDE DEF c
    <3>2. toki' \in toki..Len(toks)
      BY <2>1, <3>1, MayEat DEF EOF
    <3>3. Typed(c, toki')
      BY <1>0, <2>1, <2>6, <3>2, NextPoint
    <3>4. IsTree(ret') /\ fails' \in 0..MaxFails
      BY <2>1, <3>1
    <3> QED
      BY <2>1, <3>1, <3>2, <3>3, <3>4, RuleNames, CallMoves
  <2> QED
    BY <2>3, <2>4, <2>7, <2>8, <2>9 DEF Unimplemented
<1> QED
  BY <1>1, <1>2

LEMMA EndMoves ==
  ASSUME IInv, PInv, EndStatement
  PROVE  PInv'
<1>0. Statement /\ Top.rule = "STMT" /\ Top.at = "N"
  BY DEF Statement, EndStatement, At
<1>1. CASE PushFails
  BY <1>1, AbortMoves DEF PushFails
<1>2. CASE ~PushFails
  <2>1. /\ pc = "run" /\ toks' = toks /\ pc' \in Statuses /\ Typed(Top, toki)
        /\ IsTree(ret) /\ IsTree(NULL) /\ toki \in toki..Len(toks) /\ fails \in 0..MaxFails
    BY <1>0, <1>2, StatementFacts
  <2> DEFINE kind == [import |-> "IMPORT", ret |-> "RET", throw |-> "THROW"][toks[Top.op]]
             tok  == IF kind = "THROW" THEN {Top.op} ELSE {Top.op, toki - 1}
  <2>2. kind \in NodeKinds \ {"VAL"} /\ AreTrees(<<ret>>) /\ IsSeq(<<ret>>)
    <3>1. toks[Top.op] \in PrefixWords
      BY <1>0, <2>1 DEF Typed
    <3>2. kind \in {"IMPORT", "RET", "THROW"}
      BY <3>1 DEF PrefixWords
    <3> QED
      BY <2>1, <3>2, TreeTuples DEF NodeKinds
  <2>3. PICK o \in ks_ast_newz(tok, kind, <<ret>>) :
          IF o.val = NULL \/ Tok \in Separators
          THEN /\ Return(o.val) /\ Take(o)
               /\ toki' = IF o.val = NULL THEN toki ELSE toki + 1
          ELSE /\ stack' = Front(stack) /\ ret' = NULL /\ UNCHANGED toki
               /\ Take([o EXCEPT !.live = @ - o.val.size])
               /\ pc' = After(<<o.val>>)
    BY DEF EndStatement
  <2> HIDE DEF kind, tok
  <2>4. IsTree(o.val) /\ o.fails \in 0..MaxFails /\ DOMAIN o = {"val", "live", "fails", "lost"}
    BY <2>1, <2>2, <2>3, NewzTyped
  <2>5. CASE o.val = NULL \/ Tok \in Separators
    <3>1. /\ stack' = Front(stack) /\ ret' = o.val /\ fails' = o.fails /\ (pc' = "run" => Len(stack) # 1)
          /\ toki' = IF o.val = NULL THEN toki ELSE toki + 1
      BY <2>3, <2>5 DEF Return, Take
    <3>2. toki' \in toki..Len(toks)
      BY <2>1, <2>5, <3>1, MayEat DEF EOF, Separators
    <3> QED
      BY <2>1, <2>4, <3>1, <3>2, ReturnMoves
  <2>6. CASE ~(o.val = NULL \/ Tok \in Separators)
    <3>1. /\ stack' = Front(stack) /\ ret' = NULL /\ toki' = toki /\ (pc' = "run" => Len(stack) # 1)
          /\ fails' = o.fails
      BY <2>3, <2>4, <2>6 DEF After, Take
    <3> QED
      BY <2>1, <2>4, <3>1, ReturnMoves
  <2> QED
    BY <2>5, <2>6
<1> QED
  BY <1>1, <1>2

\* SKIP stops at the final EOF at the latest.
LEMMA SkipStops ==
  ASSUME Len(toks) \in Nat, toks[Len(toks)] = EOF, NEW k \in 1..Len(toks)
  PROVE  SKIP(k) \in k..Len(toks)
<1> DEFINE m == Len(toks)
           S == {j \in k..m : toks[j] \notin Separators}
<1>1. m \in Nat /\ k \in 1..m /\ m \in k..m /\ k..m \subseteq Nat
  <2>1. m \in Nat /\ k \in 1..m
    OBVIOUS
  <2> HIDE DEF m
  <2> QED
    BY <2>1
<1>2. m \in S
  BY <1>1 DEF Separators, EOF
<1>3. S \in SUBSET Nat /\ S # {}
  BY <1>1, <1>2
<1>4. PICK j \in S : \A i \in S : j <= i
  <2> HIDE DEF S
  <2> QED
    BY <1>3, LeastNat
<1>5. \A i \in k..(j - 1) : toks[i] \in Separators
  <2> TAKE i \in k..(j - 1)
  <2>1. i \in k..m /\ ~(j <= i)
    <3>1. j \in k..m /\ m \in Nat /\ k \in 1..m
      BY <1>1
    <3> HIDE DEF m, S
    <3> QED
      BY <3>1
  <2> QED
    BY <1>4, <2>1
<1>6. \E l \in k..m : toks[l] \notin Separators /\ \A i \in k..(l - 1) : toks[i] \in Separators
  BY <1>5
<1> QED
  BY <1>6 DEF SKIP

\* A push, whether the rule then waits for another or not.
LEMMA PushMoves ==
  ASSUME IInv, PInv, pc = "run", toks' = toks, toki' \in toki..Len(toks), pc' \in Statuses,
         ret' = NULL, fails' = fails, NEW qn \in Nat, NEW node, IsTree(node), NEW a \in Stops(Top.rule) \ {"start", "right", "N"},
         LET f == Filled(Top, qn, node, a)
         IN  Continue(f) \/ \E rule \in Rules : Call(f, rule) /\ (rule = "B" => toks[toki'] = "{")
  PROVE  PInv'
<1> DEFINE h == Pushed(Top, qn, node)
           f == [h EXCEPT !.at = a]
<1>1. /\ Typed(Top, toki) /\ DOMAIN Top = Fields /\ AreNodes(Top.hb) /\ AreTrees(Top.hb) /\ IsTree(Top.res)
      /\ IsTree(NULL) /\ fails \in 0..MaxFails
  BY TopTyped
<1>2. Top.room \in Nat /\ Top.maxn \in Nat
  BY <1>1 DEF Typed
<1>3. /\ DOMAIN h = Fields /\ h.rule = Top.rule /\ h.op = Top.op /\ h.res = Top.res
      /\ h.room \in Nat /\ h.maxn \in Nat /\ AreTrees(h.hb)
  BY <1>1, <1>2, PushedTyped DEF Grown
<1>4. Continue(f) \/ \E rule \in Rules : Call(f, rule) /\ (rule = "B" => toks[toki'] = "{")
  BY DEF Filled
<1> HIDE DEF h
<1>5. /\ f.rule = Top.rule /\ f.at = a /\ f.res = Top.res /\ f.op = Top.op
      /\ f.room \in Nat /\ f.maxn \in Nat /\ AreTrees(f.hb)
  BY <1>3 DEF Fields
<1> HIDE DEF f
<1>6. Typed(f, toki')
  BY <1>1, <1>5, NextPoint
<1>7. IsTree(ret') /\ fails' \in 0..MaxFails
  BY <1>1
<1>8. CASE Continue(f)
  BY <1>5, <1>6, <1>7, <1>8, MoveStep DEF AtBrace
<1>9. ASSUME NEW rule \in Rules, Call(f, rule), rule = "B" => toks[toki'] = "{"
      PROVE  PInv'
  BY <1>6, <1>7, <1>9, CallMoves
<1> QED
  BY <1>4, <1>8, <1>9

LEMMA GatherMoves ==
  ASSUME IInv, PInv, IfCondition \/ IfBody \/ IfElse \/ PushStatement
  PROVE  PInv'
<1>0. Statement /\ Top.at \in {"cond", "body", "else", "stmt"}
  BY DEF Statement, IfCondition, IfBody, IfElse, PushStatement, At
<1>1. CASE Abort \/ (fails > 0 /\ AbortShort)
  <2>1. pc = "run"
    BY DEF IfCondition, IfBody, IfElse, PushStatement, At
  <2> QED
    BY <1>1, <2>1, AbortMoves
<1>2. CASE ~Abort /\ ~(fails > 0 /\ AbortShort)
  <2>1. /\ pc = "run" /\ toks' = toks /\ pc' \in Statuses
        /\ IsTree(ret) /\ IsTree(NULL) /\ toki \in toki..Len(toks) /\ fails \in 0..MaxFails
        /\ Stops("STMT") = {"start", "N", "cond", "body", "else", "build"}
        /\ Stops("B") = {"start", "stmts", "stmt"}
    BY <1>0, <1>2, StatementFacts DEF PushFails
  <2>2. CASE ret = NULL
    <3>1. /\ stack' = Front(stack) /\ ret' = NULL /\ fails' = fails /\ toki' = toki
          /\ pc' = "run" => Len(stack) # 1
      BY <2>2 DEF IfCondition, IfBody, IfElse, PushStatement, ReturnWithout, After
    <3> QED
      BY <2>1, <3>1, ReturnMoves
  <2>3. CASE ret # NULL /\ IfCondition
    <3>1. Top.rule = "STMT" /\ Tok \in {"{", ","}
      BY <1>2, <2>3 DEF IfCondition, At
    <3>2. CASE pc' = "wild"
      <4>1. UNCHANGED <<toki, stack, ret, fails>>
        BY <1>2, <2>1, <2>3, <3>2 DEF IfCondition, memory, Pure
      <4> QED
        BY <2>1, <3>2, <4>1, MoveStep
    <3>3. CASE pc' # "wild"
      <4>1. /\ Call(Filled(Top, 8, ret, "body"), IF Tok = "{" THEN "B" ELSE "STMT")
            /\ toki' = (IF Tok = "," THEN toki + 1 ELSE toki)
            /\ ret' = NULL /\ fails' = fails
        BY <1>2, <2>3, <3>3 DEF IfCondition, Filled, Taken, Pure, memory
      <4>2. toki' \in toki..Len(toks)
        BY <2>1, <4>1, MayEat DEF EOF
      <4>3. ASSUME NEW rule, rule = IF Tok = "{" THEN "B" ELSE "STMT"
            PROVE  rule \in Rules /\ (rule = "B" => toks[toki'] = "{")
        BY <4>1, <4>3, RuleNames DEF Tok
      <4>4. "body" \in Stops(Top.rule) \ {"start", "right", "N"}
        BY <2>1, <3>1
      <4> QED
        BY <2>1, <4>1, <4>2, <4>3, <4>4, PushMoves
    <3> QED
      BY <3>2, <3>3
  <2>4. CASE ret # NULL /\ IfBody
    <3>1. /\ Top.rule = "STMT" /\ ret' = NULL /\ fails' = fails
          /\ toki' = (IF Tok \in {"elif", "else"} THEN toki + 1 ELSE toki)
          /\ \/ Continue(Filled(Top, 8, ret, "build"))
             \/ Call(Filled(Top, 8, ret, "cond"), "E0")
             \/ Call(Filled(Top, 8, ret, "else"), IF toks[toki + 1] = "{" THEN "B" ELSE "STMT") /\ Tok = "else"
      BY <2>4 DEF IfBody, Filled, Taken, memory, EAT, At
    <3>2. toki' \in toki..Len(toks)
      BY <2>1, <3>1, MayEat DEF EOF
    <3>3. {"build", "cond", "else"} \subseteq Stops(Top.rule) \ {"start", "right", "N"}
      BY <2>1, <3>1
    <3>4. CASE Continue(Filled(Top, 8, ret, "build"))
      BY <2>1, <3>1, <3>2, <3>3, <3>4, PushMoves
    <3>5. CASE Call(Filled(Top, 8, ret, "cond"), "E0")
      BY <2>1, <3>1, <3>2, <3>3, <3>5, RuleNames, PushMoves
    <3>6. CASE Call(Filled(Top, 8, ret, "else"), IF toks[toki + 1] = "{" THEN "B" ELSE "STMT") /\ Tok = "else"
      <4>1. ASSUME NEW rule, rule = IF toks[toki + 1] = "{" THEN "B" ELSE "STMT"
            PROVE  rule \in Rules /\ (rule = "B" => toks[toki'] = "{")
        BY <3>1, <3>6, <4>1, RuleNames
      <4> QED
        BY <2>1, <3>1, <3>2, <3>3, <3>6, <4>1, PushMoves
    <3> QED
      BY <3>1, <3>4, <3>5, <3>6
  <2>5. CASE ret # NULL /\ IfElse
    <3>1. /\ Top.rule = "STMT" /\ ret' = NULL /\ fails' = fails /\ toki' = toki
          /\ Continue(Filled(Top, 8, ret, "build"))
      BY <2>5 DEF IfElse, Filled, Taken, memory, At
    <3>2. "build" \in Stops(Top.rule) \ {"start", "right", "N"}
      BY <2>1, <3>1
    <3> QED
      BY <2>1, <3>1, <3>2, PushMoves
  <2>6. CASE ret # NULL /\ PushStatement
    <3>1. /\ Top.rule = "B" /\ ret' = NULL /\ fails' = fails /\ toki' = SKIP(toki)
          /\ Continue(Filled(Top, 16, ret, "stmts"))
      BY <2>6 DEF PushStatement, Filled, Taken, memory, At
    <3>2. toki' \in toki..Len(toks)
      BY <2>1, <3>1, TopTyped, SkipStops
    <3>3. "stmts" \in Stops(Top.rule) \ {"start", "right", "N"}
      BY <2>1, <3>1
    <3> QED
      BY <2>1, <3>1, <3>2, <3>3, PushMoves
  <2> QED
    BY <2>2, <2>3, <2>4, <2>5, <2>6
<1> QED
  BY <1>1, <1>2

\* The parts of a sequence of trees are trees.
LEMMA TreesCut ==
  ASSUME NEW s, AreNodes(s), AreTrees(s), NEW m \in 0..Len(s)
  PROVE  AreTrees(SubSeq(s, 1, m)) /\ AreTrees(SubSeq(s, m + 1, Len(s)))
<1>1. IsSeq(s) /\ Len(s) \in Nat /\ DOMAIN s = 1..Len(s) /\ m \in Nat /\ m <= Len(s)
  BY SizeType, Longer DEF AreNodes
<1>2. ASSUME NEW a \in Nat, NEW b \in Nat, a <= b, b <= Len(s)
      PROVE  AreTrees(SubSeq(s, a + 1, b))
  <2> DEFINE t == SubSeq(s, a + 1, b)
             L == Len(s)
  <2>1. IsSeq(t) /\ Len(t) = b - a /\ \A k \in 1..(b - a) : t[k] = s[a + k]
    BY <1>1, <1>2, Part
  <2>2. DOMAIN t = 1..(b - a)
    BY <2>1, Longer
  <2>3. \A k \in 1..(b - a) : a + k \in 1..L
    <3>1. L \in Nat /\ b <= L
      BY <1>1, <1>2
    <3> HIDE DEF t, L
    <3> QED
      BY <1>2, <3>1
  <2> HIDE DEF t
  <2>4. \A k \in DOMAIN t : t[k] = s[a + k] /\ a + k \in DOMAIN s
    BY <1>1, <2>1, <2>2, <2>3
  <2> QED
    BY <2>1, <2>4 DEF AreTrees, t
<1>3. 0 \in Nat /\ 0 <= m /\ Len(s) <= Len(s) /\ 0 + 1 = 1
  BY <1>1
<1>4. AreTrees(SubSeq(s, 0 + 1, m))
  BY <1>1, <1>2, <1>3
<1>5. AreTrees(SubSeq(s, m + 1, Len(s)))
  BY <1>1, <1>2, <1>3
<1> QED
  BY <1>3, <1>4, <1>5

LEMMA BuildMoves ==
  ASSUME IInv, PInv, IfBuild
  PROVE  PInv'
<1>0. Statement /\ Top.rule = "STMT" /\ Top.at = "build"
  BY DEF Statement, IfBuild, At
<1>1. CASE PushFails
  BY <1>1, AbortMoves DEF PushFails
<1>2. CASE ~PushFails
  <2>1. /\ pc = "run" /\ toks' = toks /\ pc' \in Statuses
        /\ DOMAIN Top = Fields /\ AreNodes(Top.hb) /\ AreTrees(Top.hb) /\ IsTree(Top.res) /\ IsTree(ret) /\ IsTree(NULL)
        /\ toki \in toki..Len(toks) /\ fails \in 0..MaxFails
        /\ Top.room \in Nat /\ Top.maxn \in Nat
        /\ Stops("STMT") = {"start", "N", "cond", "body", "else", "build"}
    BY <1>0, <1>2, StatementFacts
  <2>2. toki' = toki /\ ret' = ret
    BY DEF IfBuild
  <2>3. CASE Len(Top.hb) < Taking(Top)
    <3>1. pc' = "wild" /\ stack' = stack /\ fails' = fails
      BY <2>3 DEF IfBuild, memory
    <3> QED
      BY <2>1, <2>2, <3>1, MoveStep
  <2>4. CASE ~(Len(Top.hb) < Taking(Top))
    <3> DEFINE n == Len(Top.hb)
               m == n - Taking(Top)
               rest == Rest(Top)
    <3>1. PICK o \in ks_ast_newz({}, "IF", SubSeq(Top.hb, Len(rest.hb) + 1, Len(Top.hb))) :
            IF o.val = NULL
            THEN /\ stack' = Front(stack)
                 /\ Take([o EXCEPT !.live = @ - Size(rest.hb)])
                 /\ pc' = After(rest.hb)
            ELSE Continue(Pushed(rest, 8, o.val)) /\ Take(o) /\ UNCHANGED pc
      BY <2>4 DEF IfBuild
    <3>2. "IF" \in NodeKinds \ {"VAL"}
      BY DEF NodeKinds
    <3> HIDE DEF rest
    <3>7. /\ n \in Nat /\ m \in 0..n /\ AreNodes(SubSeq(Top.hb, 1, m))
          /\ DOMAIN rest = Fields /\ rest.rule = Top.rule /\ rest.at = Top.at /\ rest.res = Top.res
          /\ rest.op = Top.op /\ rest.room = Top.room /\ rest.maxn = Top.maxn
          /\ rest.hb = SubSeq(Top.hb, 1, m) /\ Len(rest.hb) = m
      <4>1. n \in Nat /\ m \in 0..n
        <5>1. Taking(Top) \in {2, 3}
          BY DEF Taking
        <5>2. n \in Nat
          BY <2>1, SizeType
        <5> QED
          BY <2>4, <5>1, <5>2
      <4>2. AreNodes(SubSeq(Top.hb, 1, m)) /\ Len(SubSeq(Top.hb, 1, m)) = m
        BY <2>1, <4>1, SizeCut
      <4>3. /\ DOMAIN rest = Fields /\ rest.rule = Top.rule /\ rest.at = Top.at /\ rest.res = Top.res
            /\ rest.op = Top.op /\ rest.room = Top.room /\ rest.maxn = Top.maxn
            /\ rest.hb = SubSeq(Top.hb, 1, m)
        BY <2>1 DEF rest, Rest, Fields
      <4> HIDE DEF n, m
      <4> QED
        BY <4>1, <4>2, <4>3
    <3>8. AreTrees(SubSeq(Top.hb, 1, m)) /\ AreTrees(SubSeq(Top.hb, Len(rest.hb) + 1, Len(Top.hb)))
      BY <2>1, <3>7, TreesCut
    <3>3. IsTree(o.val) /\ o.fails \in 0..MaxFails /\ DOMAIN o = {"val", "live", "fails", "lost"}
      BY <2>1, <3>1, <3>2, <3>8, NewzTyped DEF AreTrees
    <3>4. fails' = o.fails
      BY <3>1, <3>3 DEF Take
    <3>5. CASE o.val = NULL
      <4>1. stack' = Front(stack) /\ (pc' = "run" => Len(stack) # 1)
        BY <3>1, <3>5 DEF After
      <4>2. ret' = NULL
        BY <1>0, <2>1, <2>2, AtPoint DEF Waiting
      <4> QED
        BY <2>1, <2>2, <3>3, <3>4, <4>1, <4>2, ReturnMoves
    <3>6. CASE o.val # NULL
      <4>4. AreNodes(rest.hb) /\ rest.room \in Nat /\ rest.maxn \in Nat /\ AreTrees(rest.hb)
        BY <2>1, <3>7, <3>8
      <4>5. Continue(Pushed(rest, 8, o.val))
        BY <3>1, <3>6
      <4> DEFINE g == Pushed(rest, 8, o.val)
      <4>6. /\ g.rule = Top.rule /\ g.at = "build" /\ g.res = Top.res /\ g.op = Top.op
            /\ g.room \in Nat /\ g.maxn \in Nat /\ AreTrees(g.hb)
        <5>1. /\ DOMAIN rest = Fields /\ AreNodes(rest.hb) /\ rest.room \in Nat /\ rest.maxn \in Nat
              /\ 8 \in Nat /\ AreTrees(rest.hb) /\ IsTree(o.val)
          BY <3>3, <3>7, <4>4
        <5>2. Grown(rest, Pushed(rest, 8, o.val))
          BY <5>1, PushedTyped
        <5>3. /\ g.rule = rest.rule /\ g.at = rest.at /\ g.res = rest.res /\ g.op = rest.op
              /\ g.room \in Nat /\ g.maxn \in Nat /\ AreTrees(g.hb)
          BY <5>2 DEF Grown, g
        <5> QED
          BY <1>0, <3>7, <5>3
      <4>7. Continue(g)
        BY <4>5
      <4> HIDE DEF g
      <4>8. Typed(g, toki')
        BY <1>0, <2>1, <2>2, <4>6, NextPoint
      <4> QED
        BY <2>1, <2>2, <3>3, <3>4, <4>6, <4>7, <4>8, MoveStep DEF AtBrace
    <3> QED
      BY <3>5, <3>6
  <2> QED
    BY <2>3, <2>4
<1> QED
  BY <1>1, <1>2

LEMMA BlockMoves ==
  ASSUME IInv, PInv, BeginBlock \/ BlockStatement \/ EndBlock
  PROVE  PInv'
<1>0. Statement /\ Top.rule = "B"
  BY DEF Statement, BeginBlock, BlockStatement, EndBlock, At
<1>1. CASE PushFails
  BY <1>1, AbortMoves DEF PushFails
<1>2. CASE ~PushFails
  <2>1. /\ pc = "run" /\ toks' = toks /\ pc' \in Statuses
        /\ DOMAIN Top = Fields /\ AreTrees(Top.hb) /\ IsTree(Top.res) /\ IsTree(ret)
        /\ toki \in toki..Len(toks) /\ fails \in 0..MaxFails
        /\ Top.room \in Nat /\ Top.maxn \in Nat
        /\ Stops("B") = {"start", "stmts", "stmt"}
    BY <1>0, <1>2, StatementFacts
  <2>2. CASE BeginBlock
    <3> DEFINE g == [Top EXCEPT !.at = "stmts", !.op = toki]
    <3>1. Continue(g) /\ ret' = ret /\ fails' = fails /\ toki' = SKIP(toki + 1) /\ Top.at = "start"
      BY <2>2 DEF BeginBlock, Pure, memory, At
    <3>2. /\ g.rule = Top.rule /\ g.at = "stmts" /\ g.res = Top.res /\ g.op = toki
          /\ g.room = Top.room /\ g.maxn = Top.maxn /\ g.hb = Top.hb
      BY <2>1 DEF Fields
    <3> HIDE DEF g
    <3>3. Tok = "{"
      BY <1>0, <2>1, <3>1, TopTyped DEF AtBrace
    <3>4. toki' \in (toki + 1)..Len(toks) /\ toki \in Nat /\ Len(toks) \in Nat
      <4>1. toki + 1 \in 1..Len(toks)
        BY <2>1, <3>3, MayEat DEF EOF
      <4>2. Len(toks) \in Nat /\ toki \in 1..Len(toks) /\ toks[Len(toks)] = EOF
        BY <2>1, TopTyped
      <4>3. SKIP(toki + 1) \in (toki + 1)..Len(toks)
        BY <4>1, <4>2, SkipStops
      <4>4. toki \in Nat
        BY <4>2, <2>1, Ahead
      <4> QED
        BY <3>1, <4>2, <4>3, <4>4
    <3>5. toki' \in toki..Len(toks) /\ toki \in 0..(toki' - 1)
      BY <3>4, Beyond
    <3>6. Typed(g, toki')
      BY <1>0, <2>1, <3>2, <3>5, NextPoint
    <3> QED
      BY <2>1, <3>1, <3>2, <3>5, <3>6, MoveStep DEF AtBrace
  <2>3. CASE BlockStatement
    <3> DEFINE g == [Top EXCEPT !.at = "stmt"]
    <3>1. Call(g, "STMT") /\ ret' = ret /\ fails' = fails /\ toki' = toki
      BY <2>3 DEF BlockStatement, Pure, memory
    <3>2. /\ g.rule = Top.rule /\ g.at = "stmt" /\ g.res = Top.res /\ g.op = Top.op
          /\ g.room = Top.room /\ g.maxn = Top.maxn /\ g.hb = Top.hb
      BY <2>1 DEF Fields
    <3> HIDE DEF g
    <3>3. Typed(g, toki')
      BY <1>0, <2>1, <3>1, <3>2, NextPoint
    <3>4. toki' \in toki..Len(toks) /\ IsTree(ret') /\ fails' \in 0..MaxFails
      BY <2>1, <3>1
    <3> QED
      BY <2>1, <3>1, <3>3, <3>4, RuleNames, CallMoves
  <2>4. CASE EndBlock
    <3>1. PICK o \in ks_ast_newz({Top.op}, "BLOCK", Top.hb) : Return(o.val) /\ Take(o)
      BY <2>4 DEF EndBlock
    <3>2. "BLOCK" \in NodeKinds \ {"VAL"}
      BY DEF NodeKinds
    <3>3. IsTree(o.val) /\ fails' \in 0..MaxFails
      BY <2>1, <3>1, <3>2, NewzTyped DEF Take, AreTrees
    <3>4. toki' = toki
      BY <2>4 DEF EndBlock
    <3> QED
      BY <2>1, <3>1, <3>3, <3>4, ReturnMoves DEF Return
  <2> QED
    BY <2>2, <2>3, <2>4
<1> QED
  BY <1>1, <1>2

LEMMA NextMoves ==
  ASSUME IInv, PInv, [Next]_vars
  PROVE  PInv'
<1>1. CASE Binary
  BY <1>1, BinaryMoves DEF Binary
<1>2. CASE Statement
  <2>1. CASE PushFails
    BY <2>1, AbortMoves DEF PushFails
  <2> QED
    BY <1>2, <2>1, BeginMoves, EndMoves, GatherMoves, BuildMoves, BlockMoves DEF Statement
<1>3. CASE UNCHANGED vars
  <2>1. UNCHANGED <<toks, toki, stack, ret, fails, pc>>
    BY <1>3 DEF vars
  <2>2. \A f : Typed(f, toki)' <=> Typed(f, toki)
    BY <2>1 DEF Typed
  <2> QED
    BY <2>1, <2>2 DEF PInv, Top, Tok, IsTree
<1> QED
  BY <1>1, <1>2, <1>3, PostfixMoves DEF Next

\* The parser begins at the first token.
LEMMA FirstMoves ==
  ASSUME Len(toks) \in Nat \ {0}, toks[Len(toks)] = EOF, toki = 1, stack = <<Frame("STMT")>>,
         ret = NULL, fails \in 0..MaxFails, pc = "run"
  PROVE  PInv
<1> DEFINE g == Frame("STMT")
<1>1. IsSeq(stack) /\ Len(stack) = 1 /\ stack # <<>> /\ stack[1] = g
  <2>1. stack \in Seq({g})
    OBVIOUS
  <2> QED
    BY <2>1 DEF IsSeq
<1>2. Typed(g, 1) /\ g.rule = "STMT"
  BY RuleNames, NewTyped
<1> HIDE DEF g
<1>3. toki \in 1..Len(toks) /\ Len(toks) \in Nat
  BY Indices, Ones
<1>4. Top = g
  BY <1>1 DEF Top
<1>5. \A k \in 1..Len(stack) : Typed(stack[k], toki)
  BY <1>1, <1>2
<1> QED
  BY <1>1, <1>2, <1>3, <1>4, <1>5, NoTree DEF PInv, AtBrace, Statuses

LEMMA InitMoves ==
  ASSUME Init
  PROVE  PInv
<1>1. PICK s \in Inputs : toks = Append(s, EOF)
  BY DEF Init
<1>2. s \in Seq(STRING)
  BY ParserAssumption
<1>3. Len(toks) \in Nat \ {0} /\ toks[Len(toks)] = EOF
  BY <1>1, <1>2
<1>4. MaxFails \in 0..MaxFails
  BY ParserAssumption
<1> QED
  BY <1>3, <1>4, FirstMoves DEF Init

LEMMA InvTypes ==
  ASSUME IInv, PInv
  PROVE  TypeOK
<1>1. DOMAIN stack = 1..Len(stack)
  BY Longer DEF PInv
<1>2. \A k \in DOMAIN stack : Typed(stack[k], toki)
  BY <1>1 DEF PInv
<1>3. \A k \in DOMAIN stack : LET f == stack[k] IN
       /\ f.rule \in Levels \cup DOMAIN Points
       /\ f.at \in IF f.rule \in Levels THEN {"start", "left", "loop", "right"} ELSE Points[f.rule]
       /\ f.res = NULL \/ f.res.kind \in NodeKinds
       /\ f.op \in 0..(toki - 1) /\ {f.room, f.maxn} \subseteq Nat
  BY <1>2 DEF Typed, Rules, Stops, IsTree
<1>4. {live, lost} \subseteq Nat
  <2>1. CASE pc = "run"
    <3>1. /\ lost \in Nat /\ ret.size \in Nat /\ Held(stack) \in Nat
          /\ live = ret.size + Held(stack) + lost
      BY <2>1, InRun DEF IInv
    <3> QED
      BY <3>1
  <2>2. CASE pc = "done"
    BY <2>2 DEF IInv
  <2>3. CASE pc \in {"abort", "wild"}
    BY <2>3 DEF IInv
  <2> QED
    BY <2>1, <2>2, <2>3 DEF PInv, Statuses
<1> QED
  BY <1>3, <1>4 DEF PInv, TypeOK, Statuses

\* The parser never looks past the final EOF, and every rule it is in is at a point of its
\* own, for all tokens: TypeOK.
THEOREM KeepsToTokens ==
  Spec => []TypeOK
<1>1. Init => IInv /\ PInv
  BY InitInv, InitMoves
<1>2. IInv /\ PInv /\ [Next]_vars => IInv' /\ PInv'
  BY NextInv, NextMoves
<1>3. IInv /\ PInv => TypeOK
  BY InvTypes
<1> QED
  BY <1>1, <1>2, <1>3, PTL DEF Spec

(***************************************************************************)
(* The helper buffers.                                                     *)
(***************************************************************************)

\* The elements of the array a rule begins with.
ArrayLen(f) == IF f.rule = "B" THEN 16 ELSE 8

\* The block of a buffer with n elements: none; the first one; or one for 20 or more, when
\* maxn has become a number of bytes.  Past that, anything.
Shape(n, room, maxn, qn) ==
  \/ n >= 20
  \/ n <= qn /\ room = 0 /\ maxn = 0
  \/ n = qn + 1 /\ room = qn + 1 /\ maxn = 0
  \/ n > qn + 1 /\ room >= 20 /\ maxn >= 20

\* The last loop of 'if' does not care.
Sized(f) == f.at = "build" \/ Shape(Len(f.hb), f.room, f.maxn, ArrayLen(f))

\* Frames without a hollow node, which only a failing allocation makes.
Whole(n)  == n.broken = FALSE
Intact(f) == Whole(f.res) /\ \A j \in DOMAIN f.hb : Whole(f.hb[j])

BInv ==
  /\ pc = "run" =>
       /\ \A k \in 1..Len(stack) : Sized(stack[k])
       /\ fails = MaxFails => Whole(ret) /\ \A k \in 1..Len(stack) : Intact(stack[k])
  /\ pc = "wild" /\ ShortBuffers /\ Top.at # "build" => fails # MaxFails

\* What a push to a buffer with n elements makes of the block.
Regrown(n, room, maxn, qn, r, m) ==
  IF n = qn THEN r = qn + 1 /\ m = maxn
  ELSE IF room > 0 /\ n >= maxn THEN m = kmem_nextcap(maxn, 8 * (n + 1)) /\ r = m \div 8
  ELSE r = room /\ m = maxn

\* A push leaves a block that holds what is in it, up to 20 elements.
LEMMA NextShape ==
  ASSUME NEW n \in Nat, NEW room \in Nat, NEW maxn \in Nat, NEW qn \in {8, 16}, Shape(n, room, maxn, qn),
         NEW r, NEW m, Regrown(n, room, maxn, qn, r, m)
  PROVE  Shape(n + 1, r, m, qn) /\ (~(n + 1 <= IF r > 0 THEN r ELSE qn) => ~(n < 20))
<1> USE DEF Regrown
<1>1. CASE n >= 20
  BY <1>1 DEF Shape
<1>2. CASE n < 20 /\ n = qn
  BY <1>2 DEF Shape
<1>3. CASE n < 20 /\ n # qn /\ n <= qn /\ room = 0 /\ maxn = 0
  BY <1>3 DEF Shape
<1>4. CASE n < 20 /\ n = qn + 1 /\ room = qn + 1 /\ maxn = 0
  <2>1. m = kmem_nextcap(0, 8 * (n + 1)) /\ r = m \div 8
    BY <1>4
  <2>2. m = (8 * (n + 1) + 2) * 2
    BY <1>4, <2>1 DEF kmem_nextcap
  <2>3. m >= 160 /\ m \in Nat
    BY <1>4, <2>2
  <2>4. r >= 20 /\ r \in Nat
    BY <2>1, <2>3
  <2> QED
    BY <1>4, <2>3, <2>4 DEF Shape
<1>5. CASE n < 20 /\ n > qn + 1 /\ room >= 20 /\ maxn >= 20
  <2>1. r = room /\ m = maxn
    BY <1>5
  <2> QED
    BY <1>5, <2>1 DEF Shape
<1> QED
  BY <1>1, <1>2, <1>3, <1>4, <1>5 DEF Shape

\* A rule that begins has neither a block nor nodes.
LEMMA NewSized ==
  ASSUME NEW rule
  PROVE  Sized(Frame(rule)) /\ Intact(Frame(rule))
<1> DEFINE f == Frame(rule)
<1>1. f.rule = rule /\ f.hb = <<>> /\ f.room = 0 /\ f.maxn = 0 /\ f.res = NULL
  BY DEF Frame
<1>2. Len(f.hb) = 0 /\ DOMAIN f.hb = {} /\ NULL.broken = FALSE
  BY <1>1 DEF NULL
<1>3. ArrayLen(f) \in {8, 16}
  BY DEF ArrayLen
<1> HIDE DEF f
<1>4. Shape(0, 0, 0, ArrayLen(f))
  BY <1>3 DEF Shape
<1> QED
  BY <1>1, <1>2, <1>4 DEF Sized, Intact, Whole, f

LEMMA BufferStep ==
  ASSUME IInv, BInv, pc = "run", fails \in 0..MaxFails, fails' \in 0..fails,
         fails' = MaxFails => Whole(ret'),
         \/ stack' = Front(stack) /\ (pc' = "wild" => fails' # MaxFails)
         \/ stack' = stack /\ pc' # "run" /\ (pc' = "wild" => Top.at = "build" \/ ~(Len(Top.hb) < 20))
         \/ \E f : /\ Continue(f) \/ \E rule : Call(f, rule)
                   /\ Sized(f) /\ (fails' = MaxFails => Intact(f))
                   /\ pc' = "wild" => ~(Len(f.hb) < 20)
  PROVE  BInv'
<1> DEFINE n == Len(stack)
           Ok(st) == \A k \in 1..Len(st) : Sized(st[k]) /\ (fails' = MaxFails => Intact(st[k]))
<1>1. IsSeq(stack) /\ stack # <<>> /\ n \in Nat \ {0}
  BY InRun
<1>2. fails' = MaxFails => fails = MaxFails
  BY ParserAssumption
<1>3. \A k \in 1..n : Sized(stack[k]) /\ (fails' = MaxFails => Intact(stack[k]))
  BY <1>2 DEF BInv
<1>4. ASSUME Ok(stack'),
             pc' = "wild" => \/ fails' # MaxFails \/ stack'[Len(stack')].at = "build"
                             \/ \E k \in DOMAIN stack' : ~(Len(stack'[k].hb) < 20)
      PROVE  BInv'
  <2>1. (\A k \in 1..Len(stack) : Sized(stack[k]))'
    BY <1>4 DEF Sized, Shape, ArrayLen
  <2>2. (fails = MaxFails => Whole(ret) /\ \A k \in 1..Len(stack) : Intact(stack[k]))'
    BY <1>4 DEF Intact, Whole
  <2>3. (pc = "wild" /\ ShortBuffers /\ Top.at # "build" => fails # MaxFails)'
    BY <1>4 DEF ShortBuffers, Top
  <2> QED
    BY <2>1, <2>2, <2>3 DEF BInv
<1>0. /\ \A k \in 1..n : k \in 1..(n - 1) \/ k = n
      /\ \A k \in 1..(n + 1) : k \in 1..n \/ k = n + 1
      /\ \A k \in 1..(n - 1) : k \in 1..n
      /\ n \in 1..n /\ n \in 1..(n + 1)
  BY <1>1
<1>5. CASE stack' = Front(stack) /\ (pc' = "wild" => fails' # MaxFails)
  <2>1. stack' = SubSeq(stack, 1, n - 1)
    BY <1>5 DEF Front
  <2>2. IsSeq(stack') /\ Len(stack') = n - 1 /\ \A k \in 1..(n - 1) : stack'[k] = stack[k]
    BY <1>1, <2>1, Shorter
  <2> QED
    BY <1>0, <1>3, <1>4, <1>5, <2>2
<1>6. CASE stack' = stack /\ pc' # "run" /\ (pc' = "wild" => Top.at = "build" \/ ~(Len(Top.hb) < 20))
  <2>1. n \in DOMAIN stack'
    BY <1>0, <1>1, <1>6, Longer
  <2> QED
    BY <1>3, <1>4, <1>6, <2>1 DEF Top
<1>7. ASSUME NEW f, Sized(f), fails' = MaxFails => Intact(f)
      PROVE  /\ IsSeq(With(f)) /\ With(f) # <<>> /\ Len(With(f)) = n /\ With(f)[n] = f /\ DOMAIN With(f) = 1..n
             /\ Ok(With(f))
  <2> DEFINE w == With(f)
  <2>1. IsSeq(w) /\ w # <<>> /\ Len(w) = n /\ w[n] = f /\ \A k \in 1..(n - 1) : w[k] = stack[k]
    BY <1>1, Changed DEF With
  <2>2. DOMAIN w = 1..n
    BY <2>1, Longer
  <2> HIDE DEF w
  <2>3. Ok(w)
    BY <1>0, <1>3, <1>7, <2>1
  <2> QED
    BY <2>1, <2>2, <2>3 DEF w
<1>8. ASSUME NEW f, Sized(f), fails' = MaxFails => Intact(f), Continue(f), pc' = "wild" => ~(Len(f.hb) < 20)
      PROVE  BInv'
  BY <1>0, <1>4, <1>7, <1>8 DEF Continue
<1>9. ASSUME NEW f, Sized(f), fails' = MaxFails => Intact(f), NEW rule, Call(f, rule), pc' = "wild" => ~(Len(f.hb) < 20)
      PROVE  BInv'
  <2> DEFINE w == With(f)
             g == Frame(rule)
             t == Append(w, g)
  <2>1. IsSeq(w) /\ Len(w) = n /\ w[n] = f /\ Ok(w)
    BY <1>7, <1>9
  <2>2. Sized(g) /\ Intact(g)
    BY NewSized
  <2>3. stack' = t
    BY <1>9 DEF Call
  <2>4. IsSeq(t) /\ Len(t) = n + 1 /\ t[n + 1] = g /\ \A k \in 1..n : t[k] = w[k]
    BY <2>1, Longer
  <2>5. DOMAIN t = 1..(n + 1)
    BY <2>4, Longer
  <2> HIDE DEF t, w, g
  <2>6. Ok(t)
    BY <1>0, <2>1, <2>2, <2>4
  <2>7. n \in DOMAIN t /\ t[n] = f
    BY <1>0, <2>1, <2>4, <2>5
  <2> QED
    BY <1>4, <1>9, <2>3, <2>6, <2>7
<1> QED
  BY <1>5, <1>6, <1>8, <1>9

\* What an allocation returns is whole unless it failed.
LEMMA NewzWhole ==
  ASSUME fails \in 0..MaxFails, NEW tok, NEW kind, NEW subs, NEW o \in ks_ast_newz(tok, kind, subs),
         fails = MaxFails => \A k \in DOMAIN subs : Whole(subs[k])
  PROVE  o.fails \in 0..fails /\ (o.fails = MaxFails => Whole(o.val))
<1>1. \/ o = Outcome(NULL, -Size(subs)) \/ o = Outcome(Node(kind, tok, subs), 2)
      \/ /\ fails > 0
         /\ o = Short(NULL, 0, Size(subs)) \/ o = Short(Hollow(kind, tok), 1, Size(subs))
  BY DEF ks_ast_newz, OrShort
<1>2. CASE o.fails = fails /\ o.val \in {NULL, Node(kind, tok, subs)}
  <2>1. fails = MaxFails => Node(kind, tok, subs).broken = FALSE
    BY DEF Node, Whole
  <2> QED
    BY <1>2, <2>1, ParserAssumption DEF Whole, NULL
<1>3. CASE fails > 0 /\ o.fails = fails - 1
  BY <1>3, ParserAssumption
<1> QED
  BY <1>1, <1>2, <1>3 DEF Outcome, Short

LEMMA WrapWhole ==
  ASSUME fails \in 0..MaxFails, NEW k, NEW o, o \in WrapString(k) \cup WrapNumber(k)
  PROVE  o.fails \in 0..fails /\ (o.fails = MaxFails => Whole(o.val))
<1>1. PICK kind : \/ o = Outcome(Wrapped(kind, k), 2)
                  \/ fails > 0 /\ (o = Short(NULL, 1, 1) \/ o = Short(Hollow("NAME", {k}), 1, 0))
  BY DEF WrapString, WrapNumber, OrShort
<1>2. CASE o.fails = fails /\ o.val = Wrapped(kind, k)
  <2>1. Wrapped(kind, k).broken = FALSE
    BY DEF Wrapped, Node
  <2> QED
    BY <1>2, <2>1, ParserAssumption DEF Whole
<1>3. CASE fails > 0 /\ o.fails = fails - 1
  BY <1>3, ParserAssumption
<1> QED
  BY <1>1, <1>2, <1>3 DEF Outcome, Short

\* What the invariants say of the rule that runs.
LEMMA TopWhole ==
  ASSUME IInv, PInv, BInv, pc = "run"
  PROVE  /\ Sized(Top) /\ (fails = MaxFails => Whole(ret) /\ Intact(Top))
         /\ fails \in 0..MaxFails /\ fails \in 0..fails /\ Whole(NULL)
         /\ DOMAIN Top = Fields /\ AreNodes(Top.hb) /\ Top.room \in Nat /\ Top.maxn \in Nat
<1>1. Len(stack) \in 1..Len(stack)
  BY InRun
<1>2. Sized(Top) /\ (fails = MaxFails => Whole(ret) /\ Intact(Top))
  BY <1>1 DEF BInv, Top
<1>3. fails \in 0..MaxFails /\ Typed(Top, toki) /\ DOMAIN Top = Fields /\ AreNodes(Top.hb)
  BY TopTyped
<1>4. fails \in 0..fails
  BY <1>3, ParserAssumption
<1> QED
  BY <1>2, <1>3, <1>4 DEF Typed, Whole, NULL

\* A rule that returns.
LEMMA ReturnBuffers ==
  ASSUME IInv, BInv, pc = "run", fails \in 0..MaxFails, fails' \in 0..fails, fails' = MaxFails => Whole(ret'),
         stack' = Front(stack), pc' = "wild" => fails' # MaxFails
  PROVE  BInv'
<1>1. stack' = Front(stack) /\ (pc' = "wild" => fails' # MaxFails)
  OBVIOUS
<1> QED
  BY <1>1, BufferStep

\* A rule that gives up the nodes of its buffer.
LEMMA GiveUpBuffers ==
  ASSUME IInv, PInv, BInv, pc = "run", ReturnWithout(Top.hb)
  PROVE  BInv'
<1>1. stack' = Front(stack) /\ ret' = NULL /\ fails' = fails /\ pc' = After(Top.hb)
  BY DEF ReturnWithout
<1>2. fails = MaxFails => \A j \in DOMAIN Top.hb : Top.hb[j].broken = FALSE
  BY TopWhole DEF Intact, Whole
<1>3. pc' = "wild" => fails' # MaxFails
  BY <1>1, <1>2 DEF After
<1> QED
  BY <1>1, <1>3, TopWhole, ReturnBuffers

LEMMA AbortBuffers ==
  ASSUME IInv, PInv, BInv, pc = "run", Abort \/ (fails > 0 /\ AbortShort)
  PROVE  BInv'
<1>1. stack' = stack /\ pc' = "abort" /\ ret' = ret
  BY DEF Abort, AbortShort
<1>2. fails' = fails \/ (fails > 0 /\ fails' = fails - 1)
  BY DEF Abort, AbortShort, memory
<1> QED
  BY <1>1, <1>2, TopWhole, BufferStep

\* A rule that leaves its buffer alone and goes on, or calls another.
LEMMA SameBuffer ==
  ASSUME IInv, PInv, BInv, pc = "run", NEW g, g.rule = Top.rule, g.hb = Top.hb, g.room = Top.room, g.maxn = Top.maxn,
         Top.at # "build", fails' \in 0..fails, fails' = MaxFails => Whole(ret') /\ Whole(g.res),
         Continue(g) \/ \E rule : Call(g, rule), pc' # "wild"
  PROVE  BInv'
<1>1. fails' = MaxFails => fails = MaxFails
  BY TopWhole, ParserAssumption
<1>2. Sized(g) /\ (fails' = MaxFails => Intact(g))
  BY <1>1, TopWhole DEF Sized, Intact, ArrayLen
<1> QED
  BY <1>2, TopWhole, BufferStep

\* The fields of a frame after a push.
LEMMA PushedFields ==
  ASSUME NEW f, DOMAIN f = Fields, NEW qn, NEW node
  PROVE  LET h == Pushed(f, qn, node)
             n == Len(f.hb)
         IN  /\ DOMAIN h = Fields /\ h.hb = Append(f.hb, node) /\ h.rule = f.rule /\ h.res = f.res /\ h.at = f.at
             /\ Regrown(n, f.room, f.maxn, qn, h.room, h.maxn)
BY DEF Pushed, Regrows, Regrown, Pointer, Fields

\* A push that does not fit is one of the 21st element, or a later one.
LEMMA PushedShape ==
  ASSUME IInv, PInv, BInv, pc = "run", Top.at # "build", NEW node
  PROVE  LET qn == ArrayLen(Top)
             h  == Pushed(Top, qn, node)
         IN  /\ Shape(Len(Top.hb) + 1, h.room, h.maxn, qn)
             /\ ~Fits(h, qn) => ~(Len(Top.hb) < 20)
<1> DEFINE n == Len(Top.hb)
           qn == ArrayLen(Top)
           h == Pushed(Top, qn, node)
<1>1. /\ Sized(Top) /\ DOMAIN Top = Fields /\ AreNodes(Top.hb) /\ Top.room \in Nat /\ Top.maxn \in Nat
  BY TopWhole
<1>2. qn \in {8, 16}
  BY DEF ArrayLen
<1>3. n \in Nat /\ Len(Append(Top.hb, node)) = n + 1
  BY <1>1, Longer DEF AreNodes
<1>4. h.hb = Append(Top.hb, node) /\ Regrown(n, Top.room, Top.maxn, qn, h.room, h.maxn)
  BY <1>1, PushedFields
<1>5. Shape(n, Top.room, Top.maxn, qn)
  BY <1>1 DEF Sized
<1> HIDE DEF n, qn, h
<1>6. Shape(n + 1, h.room, h.maxn, qn) /\ (~(n + 1 <= IF h.room > 0 THEN h.room ELSE qn) => ~(n < 20))
  BY <1>1, <1>2, <1>3, <1>4, <1>5, NextShape
<1>7. ~Fits(h, qn) => ~(n < 20)
  BY <1>3, <1>4, <1>6 DEF Fits
<1> QED
  BY <1>6, <1>7 DEF n, qn, h

\* A push by a rule that then goes on, or calls another.
LEMMA PushBuffers ==
  ASSUME IInv, PInv, BInv, pc = "run", Top.at # "build", NEW node, fails = MaxFails => Whole(node),
         NEW g, NEW h, h = Pushed(Top, ArrayLen(Top), node),
         g.rule = Top.rule, g.hb = h.hb, g.room = h.room, g.maxn = h.maxn, g.res \in {Top.res, NULL},
         fails' = fails, ret' \in {NULL, ret},
         Continue(g) \/ \E rule : Call(g, rule),
         pc' = "wild" => ~Fits(h, ArrayLen(Top))
  PROVE  BInv'
<1> DEFINE n == Len(Top.hb)
           qn == ArrayLen(Top)
<1>1. /\ Sized(Top) /\ (fails = MaxFails => Whole(ret) /\ Intact(Top))
      /\ fails \in 0..MaxFails /\ fails \in 0..fails /\ Whole(NULL)
      /\ DOMAIN Top = Fields /\ AreNodes(Top.hb) /\ Top.room \in Nat /\ Top.maxn \in Nat
  BY TopWhole
<1>2. ArrayLen(g) = qn
  BY DEF ArrayLen
<1>3. h.hb = Append(Top.hb, node)
  BY <1>1, PushedFields
<1>4. /\ n \in Nat /\ DOMAIN Top.hb = 1..n /\ Len(h.hb) = n + 1 /\ DOMAIN h.hb = 1..(n + 1)
      /\ h.hb[n + 1] = node /\ \A k \in 1..n : h.hb[k] = Top.hb[k]
  BY <1>1, <1>3, Longer DEF AreNodes
<1>6. Shape(n + 1, h.room, h.maxn, qn) /\ (~Fits(h, qn) => ~(n < 20))
  BY PushedShape
<1> HIDE DEF n, qn
<1>7. Sized(g)
  BY <1>2, <1>4, <1>6 DEF Sized
<1>8. fails' = MaxFails => Intact(g)
  <2>1. \A k \in 1..(n + 1) : k \in 1..n \/ k = n + 1
    BY <1>4
  <2> QED
    BY <1>1, <1>4, <2>1 DEF Intact
<1>9. pc' = "wild" => ~(Len(g.hb) < 20)
  <2>1. ~(n < 20) => ~(n + 1 < 20)
    BY <1>4
  <2> QED
    BY <1>4, <1>6, <2>1 DEF qn
<1>10. fails' = MaxFails => Whole(ret')
  BY <1>1
<1> QED
  BY <1>1, <1>7, <1>8, <1>9, <1>10, BufferStep

LEMMA BinaryBuffers ==
  ASSUME IInv, PInv, BInv, NEW r \in Levels,
         Operand(r) \/ LeftOperand(r) \/ Operator(r) \/ RightOperand(r) \/ NoOperator(r)
  PROVE  BInv'
<1>1. pc = "run" /\ Top.at # "build"
  BY DEF Operand, LeftOperand, Operator, RightOperand, NoOperator, At
<1>2. /\ fails = MaxFails => Whole(ret) /\ Intact(Top)
      /\ fails \in 0..MaxFails /\ fails \in 0..fails /\ Whole(NULL) /\ DOMAIN Top = Fields
  BY <1>1, TopWhole
<1> DEFINE g(a) == [Top EXCEPT !.at = a]
           p == [Top EXCEPT !.at = "right", !.op = toki]
           q(v) == [Top EXCEPT !.at = "loop", !.res = v]
<1>3. ASSUME NEW v
      PROVE  /\ g("left").rule = Top.rule /\ g("left").hb = Top.hb /\ g("left").room = Top.room
             /\ g("left").maxn = Top.maxn /\ g("left").res = Top.res
             /\ p.rule = Top.rule /\ p.hb = Top.hb /\ p.room = Top.room /\ p.maxn = Top.maxn /\ p.res = Top.res
             /\ q(v).rule = Top.rule /\ q(v).hb = Top.hb /\ q(v).room = Top.room /\ q(v).maxn = Top.maxn /\ q(v).res = v
  BY <1>2 DEF Fields
<1>4. CASE Operand(r)
  <2>1. Call(g("left"), Left(r)) /\ ret' = ret /\ fails' = fails /\ pc' = pc
    BY <1>4 DEF Operand, Pure, memory
  <2> HIDE DEF g
  <2> QED
    BY <1>1, <1>2, <1>3, <2>1, SameBuffer DEF Intact
<1>5. CASE LeftOperand(r)
  <2>1. CASE Return(NULL)
    <3>1. fails' = fails /\ ret' = NULL /\ stack' = Front(stack) /\ pc' # "wild"
      BY <1>5, <2>1 DEF LeftOperand, memory, Return
    <3> QED
      BY <1>1, <1>2, <3>1, ReturnBuffers
  <2>2. CASE ~Return(NULL)
    <3>1. Continue(q(ret)) /\ ret' = NULL /\ fails' = fails /\ pc' = pc
      BY <1>5, <2>2 DEF LeftOperand, Taken, memory
    <3> HIDE DEF q
    <3> QED
      BY <1>1, <1>2, <1>3, <3>1, SameBuffer
  <2> QED
    BY <2>1, <2>2
<1>6. CASE Operator(r)
  <2>1. Call(p, Right(r)) /\ ret' = ret /\ fails' = fails /\ pc' = pc
    BY <1>6 DEF Operator, Pure, memory
  <2> HIDE DEF p
  <2> QED
    BY <1>1, <1>2, <1>3, <2>1, SameBuffer DEF Intact
<1>7. CASE RightOperand(r)
  <2> DEFINE pair == <<Top.res, ret>>
  <2>1. PICK o \in ks_ast_newz({Top.op, toki - 1}, Operators[r][KindOf(toks[Top.op])], pair) :
          Continue(q(o.val)) /\ fails' = o.fails
    BY <1>7 DEF RightOperand, Take
  <2>2. ret' = NULL /\ pc' = pc
    BY <1>7 DEF RightOperand, Taken
  <2>3. fails = MaxFails => \A k \in DOMAIN pair : Whole(pair[k])
    BY <1>2 DEF Intact
  <2> HIDE DEF pair, q
  <2>4. o.fails \in 0..fails /\ (o.fails = MaxFails => Whole(o.val))
    BY <1>2, <2>1, <2>3, NewzWhole
  <2> QED
    BY <1>1, <1>2, <1>3, <2>1, <2>2, <2>4, SameBuffer
<1>8. CASE NoOperator(r)
  <2>1. fails' = fails /\ ret' = Top.res /\ stack' = Front(stack) /\ pc' # "wild"
    BY <1>8 DEF NoOperator, memory, Return
  <2> QED
    BY <1>1, <1>2, <2>1, ReturnBuffers DEF Intact
<1> QED
  BY <1>4, <1>5, <1>6, <1>7, <1>8

LEMMA AtomBuffers ==
  ASSUME IInv, PInv, BInv, Atom
  PROVE  BInv'
<1>1. pc = "run" /\ Top.at = "start"
  BY DEF Atom, At
<1>2. fails \in 0..MaxFails /\ Whole(NULL) /\ DOMAIN Top = Fields
  BY <1>1, TopWhole
<1>3. CASE Abort \/ (fails > 0 /\ AbortShort)
  BY <1>1, <1>3, AbortBuffers
<1>4. CASE ~Abort /\ ~(fails > 0 /\ AbortShort)
  <2> DEFINE q(v) == [Top EXCEPT !.at = "loop", !.res = v]
  <2>1. PICK o \in WrapString(toki) \cup WrapNumber(toki) :
          /\ Take(o)
          /\ IF o.val = NULL THEN Return(NULL) ELSE Continue(q(o.val)) /\ ret' = NULL /\ pc' = pc
    BY <1>4 DEF Atom, Taken
  <2>2. o.fails \in 0..fails /\ (o.fails = MaxFails => Whole(o.val))
    BY <1>2, <2>1, WrapWhole
  <2>3. fails' = o.fails
    BY <2>1 DEF Take
  <2>4. CASE o.val = NULL
    <3>1. ret' = NULL /\ stack' = Front(stack) /\ pc' # "wild"
      BY <2>1, <2>4 DEF Return
    <3> QED
      BY <1>1, <1>2, <2>2, <2>3, <3>1, ReturnBuffers
  <2>5. CASE o.val # NULL
    <3>1. /\ q(o.val).rule = Top.rule /\ q(o.val).hb = Top.hb /\ q(o.val).room = Top.room
          /\ q(o.val).maxn = Top.maxn /\ q(o.val).res = o.val
      BY <1>2 DEF Fields
    <3>2. Continue(q(o.val)) /\ ret' = NULL /\ pc' = pc
      BY <2>1, <2>5
    <3> HIDE DEF q
    <3> QED
      BY <1>1, <1>2, <2>2, <2>3, <3>1, <3>2, SameBuffer
  <2> QED
    BY <2>4, <2>5
<1> QED
  BY <1>3, <1>4

LEMMA AttributeBuffers ==
  ASSUME IInv, PInv, BInv, Attribute
  PROVE  BInv'
<1>1. pc = "run" /\ Top.at = "loop"
  BY DEF Attribute, At
<1>2. /\ fails = MaxFails => Whole(ret) /\ Intact(Top)
      /\ fails \in 0..MaxFails /\ fails \in 0..fails /\ Whole(NULL) /\ DOMAIN Top = Fields
  BY <1>1, TopWhole
<1>3. CASE Abort
  BY <1>1, <1>3, AbortBuffers
<1>4. CASE ~Abort
  <2> DEFINE pair == <<Top.res, Value(toks[toki])>>
             named == ks_ast_newz({toki}, "ATTR", pair)
             q(v) == [Top EXCEPT !.res = v]
  <2>1. PICK o \in {[x EXCEPT !.live = @ + 1] : x \in named}
                   \cup (IF fails > 0 THEN {Short(NULL, -Top.res.size, 0)} ELSE {}) :
          Continue(q(o.val)) /\ Take(o)
    BY <1>4 DEF Attribute
  <2>2. ret' = ret /\ pc' = pc /\ fails' = o.fails
    BY <1>4, <2>1 DEF Attribute, Take
  <2>3. fails = MaxFails => \A k \in DOMAIN pair : Whole(pair[k])
    BY <1>2 DEF Intact, Value, Whole
  <2> HIDE DEF pair
  <2>4. o.fails \in 0..fails /\ (o.fails = MaxFails => Whole(o.val))
    <3>1. CASE fails > 0 /\ o = Short(NULL, -Top.res.size, 0)
      BY <1>2, <3>1, ParserAssumption DEF Short
    <3>2. ASSUME NEW x \in named, o = [x EXCEPT !.live = @ + 1]
          PROVE  o.fails \in 0..fails /\ (o.fails = MaxFails => Whole(o.val))
      <4>1. x.fails \in 0..fails /\ (x.fails = MaxFails => Whole(x.val))
        BY <1>2, <2>3, NewzWhole
      <4>2. DOMAIN x = {"val", "live", "fails", "lost"}
        BY DEF ks_ast_newz, OrShort, Outcome, Short
      <4>3. o.fails = x.fails /\ o.val = x.val
        BY <3>2, <4>2
      <4> QED
        BY <4>1, <4>3
    <3> QED
      BY <2>1, <3>1, <3>2
  <2>5. /\ q(o.val).rule = Top.rule /\ q(o.val).hb = Top.hb /\ q(o.val).room = Top.room
        /\ q(o.val).maxn = Top.maxn /\ q(o.val).res = o.val
    BY <1>2 DEF Fields
  <2>6. fails' = MaxFails => Whole(ret')
    BY <1>2, <2>2, <2>4, ParserAssumption
  <2> HIDE DEF q, named
  <2> QED
    BY <1>1, <2>1, <2>2, <2>4, <2>5, <2>6, SameBuffer
<1> QED
  BY <1>3, <1>4

LEMMA PostfixBuffers ==
  ASSUME IInv, PInv, BInv, Postfix
  PROVE  BInv'
<1>1. pc = "run" /\ Top.rule = "E12" /\ Top.at \in {"start", "loop", "args", "arg", "close"}
  BY DEF Postfix, Atom, Attribute, OpenCall, Argument, PushArgument, CloseCall, NoPostfix, At
<1>2. /\ fails = MaxFails => Whole(ret) /\ Intact(Top)
      /\ fails \in 0..MaxFails /\ fails \in 0..fails /\ Whole(NULL) /\ DOMAIN Top = Fields
      /\ ArrayLen(Top) = 8
  BY <1>1, TopWhole DEF ArrayLen
<1>3. CASE OpenCall
  <2> DEFINE h == Pushed(Top, 8, Top.res)
             g == [h EXCEPT !.at = "args", !.res = NULL]
  <2>1. Continue(g) /\ ret' = ret /\ fails' = fails /\ pc' = pc
    BY <1>3 DEF OpenCall, Pure, memory
  <2>2. DOMAIN h = Fields /\ h.rule = Top.rule
    BY <1>2, PushedFields
  <2>3. h = Pushed(Top, ArrayLen(Top), Top.res)
    BY <1>2
  <2> HIDE DEF h
  <2>4. g.rule = Top.rule /\ g.hb = h.hb /\ g.room = h.room /\ g.maxn = h.maxn /\ g.res = NULL
    BY <2>2 DEF Fields
  <2> HIDE DEF g
  <2> QED
    BY <1>1, <1>2, <2>1, <2>3, <2>4, PushBuffers DEF Intact
<1>4. CASE Argument
  <2> DEFINE g(a) == [Top EXCEPT !.at = a]
  <2>1. PICK a : Continue(g(a)) \/ \E rule : Call(g(a), rule)
    BY <1>4 DEF Argument
  <2>2. ret' = ret /\ fails' = fails /\ pc' = pc
    BY <1>4 DEF Argument, Pure, memory
  <2>3. g(a).rule = Top.rule /\ g(a).hb = Top.hb /\ g(a).room = Top.room /\ g(a).maxn = Top.maxn /\ g(a).res = Top.res
    BY <1>2 DEF Fields
  <2> HIDE DEF g
  <2> QED
    BY <1>1, <1>2, <2>1, <2>2, <2>3, SameBuffer DEF Intact
<1>5. CASE PushArgument
  <2>1. CASE ret = NULL
    BY <1>1, <1>5, <2>1, GiveUpBuffers DEF PushArgument
  <2>2. CASE ret # NULL
    <3> DEFINE h == Pushed(Top, 8, ret)
               a == IF KindOf(Tok) = "," THEN "args" ELSE "close"
               g == [h EXCEPT !.at = a]
    <3>1. Continue(g) /\ ret' = NULL /\ fails' = fails /\ pc' = Status(h, 8)
      BY <1>5, <2>2 DEF PushArgument, Taken, memory
    <3>2. DOMAIN h = Fields /\ h.rule = Top.rule /\ h.res = Top.res
      BY <1>2, PushedFields
    <3>3. h = Pushed(Top, ArrayLen(Top), ret)
      BY <1>2
    <3> HIDE DEF h, a
    <3>4. g.rule = Top.rule /\ g.hb = h.hb /\ g.room = h.room /\ g.maxn = h.maxn /\ g.res = Top.res
      BY <3>2 DEF Fields
    <3> HIDE DEF g
    <3>5. pc' = "wild" => ~Fits(h, ArrayLen(Top))
      BY <1>2, <3>1 DEF Status
    <3> QED
      BY <1>1, <1>2, <3>1, <3>3, <3>4, <3>5, PushBuffers
  <2> QED
    BY <2>1, <2>2
<1>6. CASE CloseCall
  <2>1. CASE Abort
    BY <1>1, <2>1, AbortBuffers
  <2>2. CASE ~Abort
    <3>1. PICK o \in ks_ast_newz({toki}, "CALL", Top.hb) : Return(o.val) /\ Take(o)
      BY <1>6, <2>2 DEF CloseCall
    <3>2. o.fails \in 0..fails /\ (o.fails = MaxFails => Whole(o.val))
      BY <1>2, <3>1, NewzWhole DEF Intact
    <3>3. fails' = o.fails /\ ret' = o.val /\ stack' = Front(stack) /\ pc' # "wild"
      BY <3>1 DEF Return, Take
    <3> QED
      BY <1>1, <1>2, <3>2, <3>3, ReturnBuffers
  <2> QED
    BY <2>1, <2>2
<1>7. CASE NoPostfix
  <2>1. fails' = fails /\ ret' = Top.res /\ stack' = Front(stack) /\ pc' # "wild"
    BY <1>7 DEF NoPostfix, memory, Return
  <2> QED
    BY <1>1, <1>2, <2>1, ReturnBuffers DEF Intact
<1> QED
  BY <1>3, <1>4, <1>5, <1>6, <1>7, AtomBuffers, AttributeBuffers DEF Postfix

\* Where a rule goes on does not matter to its buffer.
LEMMA FilledFits ==
  ASSUME DOMAIN Top = Fields, NEW qn, NEW a
  PROVE  Fits(Filled(Top, qn, ret, a), qn) <=> Fits(Pushed(Top, qn, ret), qn)
<1> DEFINE h == Pushed(Top, qn, ret)
<1>1. DOMAIN h = Fields
  BY PushedFields
<1> HIDE DEF h
<1>2. Fits([h EXCEPT !.at = a], qn) <=> Fits(h, qn)
  BY <1>1 DEF Fits, Fields
<1> QED
  BY <1>2 DEF Filled, h

\* The statements that begin, and the end of three of them.
LEMMA BeginBuffers ==
  ASSUME IInv, PInv, BInv, ExpressionStatement \/ Unimplemented \/ Import \/ RetOrThrow \/ BeginIf
  PROVE  BInv'
<1>1. pc = "run" /\ Top.rule = "STMT" /\ Top.at = "start"
  BY DEF ExpressionStatement, Unimplemented, Import, RetOrThrow, BeginIf, At
<1>2. /\ fails = MaxFails => Whole(ret) /\ Intact(Top)
      /\ fails \in 0..MaxFails /\ fails \in 0..fails /\ Whole(NULL) /\ DOMAIN Top = Fields
  BY <1>1, TopWhole
<1>3. CASE Abort
  BY <1>1, <1>3, AbortBuffers
<1>4. CASE ExpressionStatement
  <2>1. Continue(Frame("E0")) /\ ret' = ret /\ fails' = fails /\ pc' = pc
    BY <1>4 DEF ExpressionStatement, Pure, memory
  <2>2. Sized(Frame("E0")) /\ Intact(Frame("E0"))
    BY NewSized
  <2> DEFINE f == Frame("E0")
  <2>3. Continue(f) /\ Sized(f) /\ Intact(f)
    BY <2>1, <2>2
  <2> HIDE DEF f
  <2> QED
    BY <1>1, <1>2, <2>1, <2>3, BufferStep
<1> DEFINE g == [Top EXCEPT !.at = "N", !.op = toki]
           c == [Top EXCEPT !.at = "cond"]
<1>5. /\ g.rule = Top.rule /\ g.hb = Top.hb /\ g.room = Top.room /\ g.maxn = Top.maxn /\ g.res = Top.res
      /\ c.rule = Top.rule /\ c.hb = Top.hb /\ c.room = Top.room /\ c.maxn = Top.maxn /\ c.res = Top.res
  BY <1>2 DEF Fields
<1>6. CASE Import /\ ~Abort
  <2>1. PICK o \in WrapString(toki + 1) : ret' = o.val /\ Take(o)
    BY <1>6 DEF Import
  <2>2. Continue(g) /\ pc' = pc /\ fails' = o.fails
    BY <1>6, <2>1 DEF Import, Take
  <2>3. o.fails \in 0..fails /\ (o.fails = MaxFails => Whole(o.val))
    BY <1>2, <2>1, WrapWhole
  <2>4. fails' = MaxFails => Whole(g.res)
    BY <1>2, <1>5, <2>2, <2>3, ParserAssumption DEF Intact
  <2> HIDE DEF g
  <2> QED
    BY <1>1, <1>5, <2>1, <2>2, <2>3, <2>4, SameBuffer
<1>7. CASE RetOrThrow
  <2>1. CASE toks[toki + 1] \in Separators
    <3>1. PICK tok, kind : \E o \in ks_ast_newz(tok, kind, <<>>) : Return(o.val) /\ Take(o)
      BY <1>7, <2>1 DEF RetOrThrow
    <3>2. PICK o \in ks_ast_newz(tok, kind, <<>>) : Return(o.val) /\ Take(o)
      BY <3>1
    <3>3. o.fails \in 0..fails /\ (o.fails = MaxFails => Whole(o.val))
      <4> DEFINE e == <<>>
      <4>1. DOMAIN e = {}
        OBVIOUS
      <4>2. o \in ks_ast_newz(tok, kind, e) /\ \A k \in DOMAIN e : Whole(e[k])
        BY <3>2, <4>1
      <4> HIDE DEF e
      <4> QED
        BY <1>2, <4>2, NewzWhole
    <3>4. fails' = o.fails /\ ret' = o.val /\ stack' = Front(stack) /\ pc' # "wild"
      BY <3>2 DEF Return, Take
    <3> QED
      BY <1>1, <1>2, <3>3, <3>4, ReturnBuffers
  <2>2. CASE toks[toki + 1] \notin Separators
    <3>1. Call(g, "E0") /\ ret' = ret /\ fails' = fails /\ pc' = pc
      BY <1>7, <2>2 DEF RetOrThrow, Pure, memory
    <3> HIDE DEF g
    <3> QED
      BY <1>1, <1>2, <1>5, <3>1, SameBuffer DEF Intact
  <2> QED
    BY <2>1, <2>2
<1>8. CASE BeginIf
  <2>1. Call(c, "E0") /\ ret' = ret /\ fails' = fails /\ pc' = pc
    BY <1>8 DEF BeginIf, Pure, memory
  <2> HIDE DEF c
  <2> QED
    BY <1>1, <1>2, <1>5, <2>1, SameBuffer DEF Intact
<1> QED
  BY <1>3, <1>4, <1>6, <1>7, <1>8 DEF Unimplemented

LEMMA EndBuffers ==
  ASSUME IInv, PInv, BInv, EndStatement
  PROVE  BInv'
<1>1. pc = "run"
  BY DEF EndStatement, At
<1>2. /\ fails = MaxFails => Whole(ret)
      /\ fails \in 0..MaxFails /\ fails \in 0..fails /\ Whole(NULL)
  BY <1>1, TopWhole
<1> DEFINE one == <<ret>>
<1>3. PICK tok, kind : \E o \in ks_ast_newz(tok, kind, one) :
        IF o.val = NULL \/ Tok \in Separators
        THEN /\ Return(o.val) /\ Take(o)
             /\ toki' = IF o.val = NULL THEN toki ELSE toki + 1
        ELSE /\ stack' = Front(stack) /\ ret' = NULL /\ UNCHANGED toki
             /\ Take([o EXCEPT !.live = @ - o.val.size])
             /\ pc' = After(<<o.val>>)
  BY DEF EndStatement
<1>4. PICK o \in ks_ast_newz(tok, kind, one) :
        IF o.val = NULL \/ Tok \in Separators
        THEN /\ Return(o.val) /\ Take(o)
             /\ toki' = IF o.val = NULL THEN toki ELSE toki + 1
        ELSE /\ stack' = Front(stack) /\ ret' = NULL /\ UNCHANGED toki
             /\ Take([o EXCEPT !.live = @ - o.val.size])
             /\ pc' = After(<<o.val>>)
  BY <1>3
<1>5. fails = MaxFails => \A k \in DOMAIN one : Whole(one[k])
  BY <1>2
<1> HIDE DEF one
<1>6. o.fails \in 0..fails /\ (o.fails = MaxFails => Whole(o.val))
  BY <1>2, <1>5, NewzWhole
<1>7. DOMAIN o = {"val", "live", "fails", "lost"}
  BY DEF ks_ast_newz, OrShort, Outcome, Short
<1>8. CASE o.val = NULL \/ Tok \in Separators
  <2>1. fails' = o.fails /\ ret' = o.val /\ stack' = Front(stack) /\ pc' # "wild"
    BY <1>4, <1>8 DEF Return, Take
  <2> QED
    BY <1>1, <1>2, <1>6, <2>1, ReturnBuffers
<1>9. CASE ~(o.val = NULL \/ Tok \in Separators)
  <2>1. fails' = o.fails /\ ret' = NULL /\ stack' = Front(stack) /\ pc' = After(<<o.val>>)
    BY <1>4, <1>7, <1>9 DEF Take
  <2>2. pc' = "wild" => o.val.broken
    BY <2>1 DEF After
  <2>3. pc' = "wild" => fails' # MaxFails
    BY <1>6, <2>1, <2>2 DEF Whole
  <2> QED
    BY <1>1, <1>2, <1>6, <2>1, <2>3, ReturnBuffers
<1> QED
  BY <1>8, <1>9

\* Filling a buffer.
LEMMA FillBuffers ==
  ASSUME IInv, PInv, BInv, pc = "run", Top.at # "build", NEW a,
         LET f == Filled(Top, ArrayLen(Top), ret, a) IN Continue(f) \/ \E rule : Call(f, rule),
         ret' = NULL, fails' = fails, pc' = "wild" => ~Fits(Filled(Top, ArrayLen(Top), ret, a), ArrayLen(Top))
  PROVE  BInv'
<1> DEFINE h == Pushed(Top, ArrayLen(Top), ret)
           g == [h EXCEPT !.at = a]
<1>1. fails = MaxFails => Whole(ret)
  BY TopWhole
<1>2. DOMAIN h = Fields /\ h.rule = Top.rule /\ h.res = Top.res
  BY TopWhole, PushedFields
<1>3. (Continue(g) \/ \E rule : Call(g, rule)) /\ (pc' = "wild" => ~Fits(g, ArrayLen(Top)))
  BY DEF Filled
<1>4. \E x : x = h /\ x = Pushed(Top, ArrayLen(Top), ret)
  OBVIOUS
<1> HIDE DEF h
<1>5. g.rule = Top.rule /\ g.hb = h.hb /\ g.room = h.room /\ g.maxn = h.maxn /\ g.res = Top.res
  BY <1>2 DEF Fields
<1> HIDE DEF g
<1>6. pc' = "wild" => ~Fits(h, ArrayLen(Top))
  BY <1>3, <1>5 DEF Fits
<1> QED
  BY <1>1, <1>3, <1>4, <1>5, <1>6, PushBuffers

LEMMA GatherBuffers ==
  ASSUME IInv, PInv, BInv, IfCondition \/ IfBody \/ IfElse \/ PushStatement
  PROVE  BInv'
<1>1. pc = "run" /\ Top.at # "build"
  BY DEF IfCondition, IfBody, IfElse, PushStatement, At
<1>2. CASE Abort
  BY <1>1, <1>2, AbortBuffers
<1>3. CASE ret = NULL
  <2>1. ReturnWithout(Top.hb)
    BY <1>3 DEF IfCondition, IfBody, IfElse, PushStatement
  <2> QED
    BY <1>1, <2>1, GiveUpBuffers
<1>4. CASE IfCondition /\ ret # NULL /\ ~Abort
  <2>1. ArrayLen(Top) = 8
    BY <1>4 DEF IfCondition, At, ArrayLen
  <2>2. CASE ~Fits(Filled(Top, 8, ret, "body"), 8)
    <3>1. pc' = "wild" /\ stack' = stack /\ ret' = ret /\ fails' = fails
      BY <1>4, <2>2 DEF IfCondition, memory, Filled
    <3>2. /\ (fails = MaxFails => Whole(ret)) /\ fails \in 0..MaxFails /\ fails \in 0..fails
          /\ DOMAIN Top = Fields
      BY <1>1, TopWhole
    <3>3. ~Fits(Pushed(Top, ArrayLen(Top), ret), ArrayLen(Top))
      BY <2>1, <2>2, <3>2, FilledFits
    <3>4. ~(Len(Top.hb) < 20)
      BY <1>1, <3>3, PushedShape
    <3> QED
      BY <1>1, <3>1, <3>2, <3>4, BufferStep
  <2>3. CASE Fits(Filled(Top, 8, ret, "body"), 8)
    <3>1. /\ \E rule : Call(Filled(Top, 8, ret, "body"), rule)
          /\ ret' = NULL /\ fails' = fails /\ pc' = pc
      BY <1>4, <2>3 DEF IfCondition, Filled, Taken, Pure, memory
    <3> QED
      BY <1>1, <2>1, <3>1, FillBuffers
  <2> QED
    BY <2>2, <2>3
<1>5. CASE IfBody /\ ret # NULL
  <2>1. ArrayLen(Top) = 8
    BY <1>5 DEF IfBody, At, ArrayLen
  <2>2. PICK a : LET f == Filled(Top, 8, ret, a) IN Continue(f) \/ \E rule : Call(f, rule)
    BY <1>5 DEF IfBody, Filled
  <2>3. ret' = NULL /\ fails' = fails /\ pc' = Status(Pushed(Top, 8, ret), 8)
    BY <1>5 DEF IfBody, Taken, memory
  <2>4. pc' = "wild" => ~Fits(Filled(Top, 8, ret, a), 8)
    BY <1>1, <2>3, TopWhole, FilledFits DEF Status
  <2> QED
    BY <1>1, <2>1, <2>2, <2>3, <2>4, FillBuffers
<1>6. CASE IfElse /\ ret # NULL
  <2>1. ArrayLen(Top) = 8
    BY <1>6 DEF IfElse, At, ArrayLen
  <2>2. Continue(Filled(Top, 8, ret, "build"))
    BY <1>6 DEF IfElse, Filled
  <2>3. ret' = NULL /\ fails' = fails /\ pc' = Status(Pushed(Top, 8, ret), 8)
    BY <1>6 DEF IfElse, Taken, memory
  <2>4. pc' = "wild" => ~Fits(Filled(Top, 8, ret, "build"), 8)
    BY <1>1, <2>3, TopWhole, FilledFits DEF Status
  <2> QED
    BY <1>1, <2>1, <2>2, <2>3, <2>4, FillBuffers
<1>7. CASE PushStatement /\ ret # NULL
  <2>1. ArrayLen(Top) = 16
    BY <1>7 DEF PushStatement, At, ArrayLen
  <2>2. Continue(Filled(Top, 16, ret, "stmts"))
    BY <1>7 DEF PushStatement, Filled
  <2>3. ret' = NULL /\ fails' = fails /\ pc' = Status(Pushed(Top, 16, ret), 16)
    BY <1>7 DEF PushStatement, Taken, memory
  <2>4. pc' = "wild" => ~Fits(Filled(Top, 16, ret, "stmts"), 16)
    BY <1>1, <2>3, TopWhole, FilledFits DEF Status
  <2> QED
    BY <1>1, <2>1, <2>2, <2>3, <2>4, FillBuffers
<1> QED
  BY <1>2, <1>3, <1>4, <1>5, <1>6, <1>7

\* The last loop of 'if'.
LEMMA BuildBuffers ==
  ASSUME IInv, PInv, BInv, IfBuild
  PROVE  BInv'
<1>1. pc = "run" /\ Top.at = "build" /\ ret' = ret
  BY DEF IfBuild, At
<1>2. /\ fails = MaxFails => Whole(ret) /\ Intact(Top)
      /\ fails \in 0..MaxFails /\ fails \in 0..fails /\ Whole(NULL) /\ DOMAIN Top = Fields /\ AreNodes(Top.hb)
  BY <1>1, TopWhole
<1>3. CASE Len(Top.hb) < Taking(Top)
  <2>1. pc' = "wild" /\ stack' = stack /\ fails' = fails
    BY <1>3 DEF IfBuild, memory
  <2> QED
    BY <1>1, <1>2, <2>1, BufferStep
<1>4. CASE ~(Len(Top.hb) < Taking(Top))
  <2> DEFINE n == Len(Top.hb)
             m == n - Taking(Top)
             rest == Rest(Top)
             taken == SubSeq(Top.hb, Len(rest.hb) + 1, n)
  <2>1. PICK o \in ks_ast_newz({}, "IF", taken) :
          IF o.val = NULL
          THEN /\ stack' = Front(stack)
               /\ Take([o EXCEPT !.live = @ - Size(rest.hb)])
               /\ pc' = After(rest.hb)
          ELSE Continue(Pushed(rest, 8, o.val)) /\ Take(o) /\ UNCHANGED pc
    BY <1>4 DEF IfBuild
  <2>2. DOMAIN o = {"val", "live", "fails", "lost"}
    BY DEF ks_ast_newz, OrShort, Outcome, Short
  <2>3. DOMAIN rest = Fields /\ rest.res = Top.res /\ rest.at = "build" /\ rest.hb = SubSeq(Top.hb, 1, m)
    BY <1>1, <1>2 DEF Rest, Fields
  <2>4. n \in Nat /\ DOMAIN Top.hb = 1..n /\ m \in 0..n
    <3>1. n \in Nat /\ DOMAIN Top.hb = 1..n
      BY <1>2, Longer DEF AreNodes
    <3>2. Taking(Top) \in {2, 3}
      BY DEF Taking
    <3> HIDE DEF n
    <3> QED
      BY <1>4, <3>1, <3>2 DEF n
  <2> HIDE DEF n, m, rest
  <2>5. IsSeq(rest.hb) /\ Len(rest.hb) = m /\ DOMAIN rest.hb = 1..m /\ \A k \in 1..m : rest.hb[k] = Top.hb[k] /\ k \in 1..n
    <3> DEFINE t == SubSeq(Top.hb, 0 + 1, m)
    <3>1. IsSeq(Top.hb) /\ 0 \in Nat /\ m \in Nat /\ 0 <= m /\ m <= n /\ n = Len(Top.hb)
      BY <1>2, <2>4 DEF AreNodes, n
    <3>2. IsSeq(t) /\ Len(t) = m - 0 /\ \A k \in 1..(m - 0) : t[k] = Top.hb[0 + k]
      BY <3>1, Part
    <3>3. rest.hb = t
      BY <2>3
    <3>4. DOMAIN t = 1..(m - 0)
      BY <3>2, Longer
    <3> HIDE DEF t
    <3>5. m - 0 = m /\ \A k \in 1..m : 0 + k = k /\ k \in 1..n
      BY <2>4
    <3> QED
      BY <3>2, <3>3, <3>4, <3>5
  <2>6. DOMAIN taken = 1..(n - m) /\ \A k \in 1..(n - m) : taken[k] = Top.hb[m + k] /\ m + k \in 1..n
    <3>1. IsSeq(Top.hb) /\ n \in Nat /\ m \in Nat /\ m <= n /\ n <= Len(Top.hb)
      BY <1>2, <2>4 DEF AreNodes, n
    <3> DEFINE t == SubSeq(Top.hb, m + 1, n)
    <3>2. IsSeq(t) /\ Len(t) = n - m /\ \A k \in 1..(n - m) : t[k] = Top.hb[m + k]
      BY <3>1, Part
    <3>3. DOMAIN t = 1..(n - m)
      BY <3>2, Longer
    <3>4. taken = t
      BY <2>5
    <3> HIDE DEF t, taken
    <3>5. \A k \in 1..(n - m) : m + k \in 1..n
      BY <2>4
    <3> QED
      BY <3>2, <3>3, <3>4, <3>5
  <2>7. fails = MaxFails =>
          (\A k \in DOMAIN taken : Whole(taken[k])) /\ (\A k \in DOMAIN rest.hb : Whole(rest.hb[k]))
    <3> HIDE DEF taken
    <3> QED
      BY <1>2, <2>4, <2>5, <2>6 DEF Intact
  <2>8. o.fails \in 0..fails /\ (o.fails = MaxFails => Whole(o.val) /\ fails = MaxFails)
    <3> HIDE DEF taken
    <3>1. o.fails \in 0..fails /\ (o.fails = MaxFails => Whole(o.val))
      BY <1>2, <2>7, NewzWhole
    <3> QED
      BY <1>2, <3>1, ParserAssumption
  <2> HIDE DEF taken
  <2>9. fails' = o.fails
    BY <2>1, <2>2 DEF Take
  <2>10. CASE o.val = NULL
    <3>1. stack' = Front(stack) /\ pc' = After(rest.hb)
      BY <2>1, <2>10
    <3>2. pc' = "wild" => fails' # MaxFails
      BY <2>7, <2>8, <2>9, <3>1 DEF After, Whole
    <3> QED
      BY <1>1, <1>2, <2>8, <2>9, <3>1, <3>2, ReturnBuffers
  <2>11. CASE o.val # NULL
    <3> DEFINE g == Pushed(rest, 8, o.val)
    <3>1. Continue(g) /\ pc' = pc
      BY <2>1, <2>11
    <3>2. g.hb = Append(rest.hb, o.val) /\ g.res = Top.res /\ g.at = "build"
      <4>1. DOMAIN rest = Fields
        BY <2>3
      <4>2. g.hb = Append(rest.hb, o.val) /\ g.res = rest.res /\ g.at = rest.at
        BY <4>1 DEF Pushed, Fields
      <4> QED
        BY <2>3, <4>2
    <3> HIDE DEF g
    <3>3. Sized(g)
      BY <3>2 DEF Sized
    <3>4. DOMAIN g.hb = 1..(m + 1) /\ g.hb[m + 1] = o.val /\ \A k \in 1..m : g.hb[k] = rest.hb[k]
      <4>1. /\ IsSeq(Append(rest.hb, o.val)) /\ Len(Append(rest.hb, o.val)) = m + 1
            /\ Append(rest.hb, o.val)[m + 1] = o.val
            /\ \A k \in 1..m : Append(rest.hb, o.val)[k] = rest.hb[k]
        BY <2>5, Longer
      <4>2. DOMAIN Append(rest.hb, o.val) = 1..(m + 1)
        BY <4>1, Longer
      <4> QED
        BY <3>2, <4>1, <4>2
    <3>5. \A k \in 1..(m + 1) : k \in 1..m \/ k = m + 1
      BY <2>4
    <3>6. fails' = MaxFails => Intact(g)
      BY <1>2, <2>5, <2>7, <2>8, <2>9, <3>2, <3>4, <3>5 DEF Intact
    <3> QED
      BY <1>1, <1>2, <2>8, <2>9, <3>1, <3>3, <3>6, BufferStep
  <2> QED
    BY <2>10, <2>11
<1> QED
  BY <1>3, <1>4

LEMMA BlockBuffers ==
  ASSUME IInv, PInv, BInv, BeginBlock \/ BlockStatement \/ EndBlock
  PROVE  BInv'
<1>1. pc = "run" /\ Top.at # "build"
  BY DEF BeginBlock, BlockStatement, EndBlock, At
<1>2. /\ fails = MaxFails => Whole(ret) /\ Intact(Top)
      /\ fails \in 0..MaxFails /\ fails \in 0..fails /\ DOMAIN Top = Fields
  BY <1>1, TopWhole
<1> DEFINE g == [Top EXCEPT !.at = "stmts", !.op = toki]
           c == [Top EXCEPT !.at = "stmt"]
<1>3. /\ g.rule = Top.rule /\ g.hb = Top.hb /\ g.room = Top.room /\ g.maxn = Top.maxn /\ g.res = Top.res
      /\ c.rule = Top.rule /\ c.hb = Top.hb /\ c.room = Top.room /\ c.maxn = Top.maxn /\ c.res = Top.res
  BY <1>2 DEF Fields
<1>4. CASE BeginBlock
  <2>1. Continue(g) /\ ret' = ret /\ fails' = fails /\ pc' = pc
    BY <1>4 DEF BeginBlock, Pure, memory
  <2> HIDE DEF g
  <2> QED
    BY <1>1, <1>2, <1>3, <2>1, SameBuffer DEF Intact
<1>5. CASE BlockStatement
  <2>1. Call(c, "STMT") /\ ret' = ret /\ fails' = fails /\ pc' = pc
    BY <1>5 DEF BlockStatement, Pure, memory
  <2> HIDE DEF c
  <2> QED
    BY <1>1, <1>2, <1>3, <2>1, SameBuffer DEF Intact
<1>6. CASE EndBlock
  <2>1. PICK o \in ks_ast_newz({Top.op}, "BLOCK", Top.hb) : Return(o.val) /\ Take(o)
    BY <1>6 DEF EndBlock
  <2>2. o.fails \in 0..fails /\ (o.fails = MaxFails => Whole(o.val))
    BY <1>2, <2>1, NewzWhole DEF Intact
  <2>3. fails' = o.fails /\ ret' = o.val /\ stack' = Front(stack) /\ pc' # "wild"
    BY <2>1 DEF Return, Take
  <2> QED
    BY <1>1, <1>2, <2>2, <2>3, ReturnBuffers
<1> QED
  BY <1>4, <1>5, <1>6

LEMMA NextBuffers ==
  ASSUME IInv, PInv, BInv, [Next]_vars
  PROVE  BInv'
<1>1. CASE Binary
  BY <1>1, BinaryBuffers DEF Binary
<1>2. CASE Statement
  <2>1. CASE PushFails
    BY <2>1, AbortBuffers DEF PushFails
  <2> QED
    BY <1>2, <2>1, BeginBuffers, EndBuffers, GatherBuffers, BuildBuffers, BlockBuffers DEF Statement
<1>3. CASE UNCHANGED vars
  BY <1>3 DEF vars, BInv, ShortBuffers, Sized, Shape, ArrayLen, Intact, Whole, Top
<1> QED
  BY <1>1, <1>2, <1>3, PostfixBuffers DEF Next

\* The parser begins with an empty buffer.
LEMMA FirstBuffers ==
  ASSUME stack = <<Frame("STMT")>>, ret = NULL, pc = "run"
  PROVE  BInv
<1> DEFINE f == Frame("STMT")
<1>1. Sized(f) /\ Intact(f) /\ Whole(NULL)
  BY NewSized DEF Whole, NULL
<1> HIDE DEF f
<1>2. stack = <<f>>
  BY DEF f
<1> QED
  BY <1>1, <1>2 DEF BInv

LEMMA InvBuffers ==
  ASSUME PInv, BInv
  PROVE  ShortBuffersHold
<1>1. fails # MaxFails => Failed
  <2>1. fails \in 0..MaxFails
    BY DEF PInv
  <2> QED
    BY <2>1, ParserAssumption DEF Failed
<1> QED
  BY <1>1 DEF BInv, ShortBuffersHold

\* While allocations succeed, nothing outside a helper buffer is touched before some buffer has 20
\* elements and another is pushed (but for the last loop of 'if'): ShortBuffersHold.
THEOREM BuffersHoldTwenty ==
  Spec => []ShortBuffersHold
<1>1. Init => IInv /\ PInv /\ BInv
  BY InitInv, InitMoves, FirstBuffers DEF Init
<1>2. IInv /\ PInv /\ BInv /\ [Next]_vars => IInv' /\ PInv' /\ BInv'
  BY NextInv, NextMoves, NextBuffers
<1>3. IInv /\ PInv /\ BInv => ShortBuffersHold
  BY InvBuffers
<1> QED
  BY <1>1, <1>2, <1>3, PTL DEF Spec
=============================================================================

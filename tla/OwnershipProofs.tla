--------------------------- MODULE OwnershipProofs ---------------------------
(***************************************************************************)
(* Reference counts are exact, for any number of objects, elements, and    *)
(* references: what the client can reach is never freed, between calls     *)
(* only cycles are left behind, and objects live as Lifetime says.         *)
(*                                                                         *)
(* An action is a few changes of the heap, each of which moves references: *)
(* a count goes up or down, an element is stored or released, a frame is   *)
(* pushed or popped.  Sound(h, st, r) says that heap h and stack st are in *)
(* order when r[o] references on each object o are held outside of         *)
(* containers.  One lemma per change says how r changes with it, and an    *)
(* action preserves the invariant because its changes add up.              *)
(***************************************************************************)
EXTENDS Ownership, Counting

(***************************************************************************)
(* The inductive invariant.                                                *)
(***************************************************************************)

\* Some active call has given back the reference at place x of c.
GivenBack(st, c, x) == \E y \in DOMAIN st : GaveBack(st[y], c, x)

\* The places of heap h in which a reference to o is kept, under the active
\* calls st.
KeptIn(h, st, o) ==
  {p \in Obj \X Nat :
     /\ p[2] \in DOMAIN h[p[1]].els
     /\ h[p[1]].els[p[2]] = o
     /\ ~GivenBack(st, p[1], p[2])}

DyingIn(st, o) == \E x \in DOMAIN st : st[x].op = "free" /\ st[x].obj = o

\* Deleters run for different objects, none past the end of its elements.
DeletersOK(h, st) ==
  /\ \A x \in DOMAIN st : st[x].op = "free" =>
       /\ st[x].next \in 1..(Len(h[st[x].obj].els) + 1)
       /\ h[st[x].obj].type # "none"
  /\ \A x, y \in DOMAIN st :
       st[x].op = "free" /\ st[y].op = "free" /\ st[x].obj = st[y].obj => x = y

\* An object has no references exactly if it is not there or being deleted.
LifeOK(h, st) ==
  \A o \in Obj :
    /\ h[o].type = "none" => h[o] = NoObject
    /\ h[o].refc = 0 <=> h[o].type = "none" \/ DyingIn(st, o)

Counts(h, st, r) ==
  \A o \in Obj : h[o].refc = r[o] + Cardinality(KeptIn(h, st, o))

Sound(h, st, r) ==
  /\ h \in [Obj -> Object] /\ st \in Seq(FrameType) /\ r \in [Obj -> Nat]
  /\ DeletersOK(h, st)
  /\ LifeOK(h, st)
  /\ Counts(h, st, r)

\* Only the call of the client, at the bottom, is no deleter.  Only it owns
\* references, and only while a merge runs or is undone does it own its
\* object.  A merge deletes nothing; the objects it borrows, and the
\* dictionary a value is replaced in, are held by the client.
CallOK(h, hl, st) ==
  /\ \A x \in DOMAIN st : x > 1 => st[x].op = "free"
  /\ \A x \in DOMAIN st : st[x].op = "free" =>
       ~st[x].owned /\ ~st[x].new
  /\ st # <<>> =>
       LET f == st[1]
       IN  /\ f.op = "overrun" => Len(st) = 1 /\ ~f.owned /\ ~f.new
           /\ f.op = "store" =>
                /\ hl[f.obj] > 0 /\ f.slot \in DOMAIN h[f.obj].els
                /\ f.owned /\ ~f.new /\ Len(f.vals) = 1
           /\ f.op = "merge" =>
                /\ Len(st) = 1 /\ h[f.obj].refc > 0
                /\ ~f.owned => \A x \in DOMAIN f.vals : hl[f.vals[x]] > 0
           /\ f.new => hl[f.obj] = 0

\* The references the bottom call owns, and all that are outside of
\* containers.
Claims(st, o) == IF st = <<>> THEN 0 ELSE Count(Owned(st[1]), o)
Roots(hl, st) == [o \in Obj |-> hl[o] + Claims(st, o)]

\* A dictionary has a value for each key.
Pairs(h) == \A o \in Obj : h[o].type = "dict" => Len(h[o].els) % 2 = 0

\* The elements a merge may still add fit the bound.
RoomOK ==
  /\ Bounded(0)
  /\ In("merge") => Bounded(2 * Len(Top.vals))

IInv ==
  /\ held \in [Obj -> 0..MaxHeld]
  /\ Sound(heap, stack, Roots(held, stack))
  /\ CallOK(heap, held, stack)
  /\ RoomOK

(***************************************************************************)
(* Objects, sequences and places.                                          *)
(***************************************************************************)

\* The fields of an object.
LEMMA ObjectType ==
  ASSUME NEW h \in [Obj -> Object], NEW o \in Obj
  PROVE  /\ h[o].type \in Kinds /\ h[o].refc \in Nat
         /\ h[o].els \in Seq(Obj) /\ h[o].cap \in Nat
         /\ Len(h[o].els) \in Nat /\ DOMAIN h[o].els = 1..Len(h[o].els)
         /\ \A x \in DOMAIN h[o].els : h[o].els[x] \in Obj
<1>1. h[o] \in Object
  OBVIOUS
<1>2. /\ h[o].type \in Kinds /\ h[o].refc \in Nat
      /\ h[o].els \in Seq(Obj) /\ h[o].cap \in Nat
  BY <1>1 DEF Object
<1> QED
  BY <1>2, LenProperties, ElementOfSeq

\* The fields of a frame.
LEMMA FrameFields ==
  ASSUME NEW st \in Seq(FrameType), NEW x \in DOMAIN st
  PROVE  /\ st[x].op \in Ops /\ st[x].obj \in Obj
         /\ st[x].next \in Nat /\ st[x].slot \in Nat
         /\ st[x].vals \in Seq(Obj)
         /\ st[x].owned \in BOOLEAN /\ st[x].new \in BOOLEAN
         /\ st[x] \in FrameType
<1>1. st[x] \in FrameType
  BY LenProperties, ElementOfSeq
<1> QED
  BY <1>1 DEF FrameType

\* The place of the last frame.
LEMMA LastFrame ==
  ASSUME NEW st \in Seq(FrameType), st # <<>>
  PROVE  /\ Len(st) \in DOMAIN st /\ 1 \in DOMAIN st
         /\ Len(st) = 1 \/ Len(st) > 1
<1>1. Len(st) \in Nat /\ Len(st) # 0 /\ DOMAIN st = 1..Len(st)
  BY EmptySeq, LenProperties
<1> QED
  BY <1>1

\* A frame is made of the right fields.
LEMMA NewFrame ==
  ASSUME NEW op \in Ops, NEW o \in Obj
  PROVE  Frame(op, o) \in FrameType
BY EmptySeq DEF Frame, FrameType

\* The elements of a sequence equal to o are finitely many.
LEMMA CountType ==
  ASSUME NEW s \in Seq(Obj), NEW o
  PROVE  /\ IsFiniteSet({x \in DOMAIN s : s[x] = o}) /\ Count(s, o) \in Nat
         /\ Count(s, o) = 0 <=> \A x \in DOMAIN s : s[x] # o
<1>1. DOMAIN s = 1..Len(s) /\ Len(s) \in Nat
  BY LenProperties
<1>2. IsFiniteSet(DOMAIN s)
  BY <1>1, FS_Interval
<1>3. IsFiniteSet({x \in DOMAIN s : s[x] = o})
  BY <1>2, FS_Subset
<1> QED
  BY <1>3, CardType DEF Count

\* The places of a heap are finitely many, hence those with a reference.
LEMMA PlacesFinite ==
  ASSUME NEW h \in [Obj -> Object]
  PROVE  IsFiniteSet(UNION {{c} \X DOMAIN h[c].els : c \in Obj})
<1> DEFINE f == [c \in Obj |-> {c} \X DOMAIN h[c].els]
           T == {{c} \X DOMAIN h[c].els : c \in Obj}
<1>1. f \in Surjection(Obj, T)
  BY Fun_IsSurj
<1>2. IsFiniteSet(T)
  BY <1>1, FS_Surjection, BoundsAssumption
<1>3. \A c \in Obj : IsFiniteSet({c} \X DOMAIN h[c].els)
  <2>1. TAKE c \in Obj
  <2>2. DOMAIN h[c].els = 1..Len(h[c].els) /\ Len(h[c].els) \in Nat
    BY ObjectType
  <2>3. IsFiniteSet(DOMAIN h[c].els)
    BY <2>2, FS_Interval
  <2> QED
    BY <2>3, FS_Singleton, FS_Product
<1> QED
  BY <1>2, <1>3, FS_UNION

LEMMA KeptFinite ==
  ASSUME NEW h \in [Obj -> Object], NEW st, NEW o
  PROVE  /\ IsFiniteSet(KeptIn(h, st, o)) /\ Cardinality(KeptIn(h, st, o)) \in Nat
         /\ KeptIn(h, st, o) # {} => Cardinality(KeptIn(h, st, o)) > 0
<1>1. KeptIn(h, st, o) \subseteq UNION {{c} \X DOMAIN h[c].els : c \in Obj}
  BY DEF KeptIn
<1>2. IsFiniteSet(KeptIn(h, st, o))
  BY <1>1, PlacesFinite, FS_Subset
<1> QED
  BY <1>2, CardType

\* When the elements and what deleters and replacements have given back
\* stay, the kept references stay.
LEMMA KeptSame ==
  ASSUME NEW h \in [Obj -> Object], NEW g, NEW st, NEW tt,
         \A c \in Obj : g[c].els = h[c].els,
         \A c \in Obj : \A x \in Nat \ {0} : GivenBack(st, c, x) <=> GivenBack(tt, c, x)
  PROVE  \A o : KeptIn(g, tt, o) = KeptIn(h, st, o)
<1>1. \A c \in Obj : DOMAIN h[c].els \subseteq Nat \ {0}
  <2>1. TAKE c \in Obj
  <2>2. DOMAIN h[c].els = 1..Len(h[c].els)
    BY ObjectType
  <2> QED
    BY <2>2
<1>2. \A c \in Obj : \A x \in DOMAIN h[c].els :
        GivenBack(st, c, x) <=> GivenBack(tt, c, x)
  BY <1>1
<1> QED
  BY <1>2 DEF KeptIn

\* An object whose count alone differs from that of x.
LEMMA RecountedObject ==
  ASSUME NEW x \in Object, NEW n \in Nat
  PROVE  LET y == [x EXCEPT !.refc = n]
         IN  /\ y \in Object
             /\ y.els = x.els /\ y.type = x.type /\ y.refc = n
             /\ n = x.refc => y = x
BY DEF Object

\* A heap whose counts alone differ from those of h.
LEMMA Recounted ==
  ASSUME NEW h \in [Obj -> Object], NEW d \in Obj, NEW n \in Nat,
         NEW g, g = [h EXCEPT ![d].refc = n]
  PROVE  /\ g \in [Obj -> Object]
         /\ \A o \in Obj : g[o].els = h[o].els /\ g[o].type = h[o].type
         /\ g[d].refc = n
         /\ \A o \in Obj : o # d => g[o] = h[o]
<1>1. h[d] \in Object
  OBVIOUS
<1>2. [h[d] EXCEPT !.refc = n] \in Object
  BY <1>1 DEF Object
<1>3. g = [h EXCEPT ![d] = [h[d] EXCEPT !.refc = n]]
  OBVIOUS
<1>4. g \in [Obj -> Object] /\ g[d] = [h[d] EXCEPT !.refc = n]
  BY <1>2, <1>3
<1>5. \A o \in Obj : o # d => g[o] = h[o]
  BY <1>3
<1>6. g[d].els = h[d].els /\ g[d].type = h[d].type /\ g[d].refc = n
  BY <1>1, <1>4 DEF Object
<1> QED
  BY <1>4, <1>5, <1>6

(***************************************************************************)
(* How many elements of a sequence are o.                                  *)
(***************************************************************************)

\* The elements of s equal to o, moved up by n, as places of c.
Moved(s, o, n, c) ==
  {p \in {c} \X Nat : p[2] - n \in DOMAIN s /\ s[p[2] - n] = o}

\* They are as many.
LEMMA CountMoved ==
  ASSUME NEW s \in Seq(Obj), NEW o, NEW n \in Nat, NEW c
  PROVE  /\ IsFiniteSet(Moved(s, o, n, c))
         /\ Cardinality(Moved(s, o, n, c)) = Count(s, o)
<1> DEFINE S == {x \in DOMAIN s : s[x] = o}
           T == Moved(s, o, n, c)
           f == [x \in S |-> <<c, n + x>>]
<1>1. DOMAIN s = 1..Len(s) /\ Len(s) \in Nat
  BY LenProperties
<1>2. S \subseteq Nat /\ \A x \in S : n + x \in Nat /\ (n + x) - n = x
  BY <1>1
<1>3. f \in [S -> T]
  BY <1>2 DEF Moved
<1>4. \A x, y \in S : f[x] = f[y] => x = y
  BY <1>2
<1>5. \A t \in T : \E x \in S : f[x] = t
  <2>1. TAKE t \in T
  <2>2. t = <<c, t[2]>> /\ t[2] \in Nat /\ t[2] - n \in S
    BY DEF Moved
  <2>3. f[t[2] - n] = <<c, n + (t[2] - n)>>
    BY <2>2
  <2>4. n + (t[2] - n) = t[2]
    BY <2>2
  <2> QED
    BY <2>2, <2>3, <2>4
<1>6. IsFiniteSet(S)
  BY CountType
<1>7. Count(s, o) = Cardinality(S)
  BY DEF Count
<1> HIDE DEF f, T, S
<1>8. IsFiniteSet(T) /\ Cardinality(T) = Cardinality(S)
  BY <1>3, <1>4, <1>5, <1>6, CardBijection
<1> QED
  BY <1>7, <1>8 DEF T

LEMMA CountEmpty ==
  ASSUME NEW o
  PROVE  Count(<<>>, o) = 0
<1>1. {x \in DOMAIN <<>> : <<>>[x] = o} = {}
  OBVIOUS
<1> QED
  BY <1>1, FS_EmptySet DEF Count

LEMMA CountOne ==
  ASSUME NEW e \in Obj, NEW o
  PROVE  Count(<<e>>, o) = IF e = o THEN 1 ELSE 0
<1> DEFINE S == {x \in DOMAIN <<e>> : <<e>>[x] = o}
<1>1. DOMAIN <<e>> = {1} /\ <<e>>[1] = e
  OBVIOUS
<1>2. S = IF e = o THEN {1} ELSE {}
  BY <1>1
<1>3. Cardinality({1}) = 1 /\ Cardinality({}) = 0
  BY FS_Singleton, FS_EmptySet
<1> QED
  BY <1>2, <1>3 DEF Count

\* The occurrences in two sequences one after the other.
LEMMA CountConcat ==
  ASSUME NEW s \in Seq(Obj), NEW t \in Seq(Obj), NEW o
  PROVE  s \o t \in Seq(Obj) /\ Count(s \o t, o) = Count(s, o) + Count(t, o)
<1> DEFINE n == Len(s)
           u == s \o t
           A == Moved(s, o, 0, 0)
           B == Moved(t, o, n, 0)
           C == Moved(u, o, 0, 0)
<1>1. /\ u \in Seq(Obj) /\ DOMAIN u = 1..(n + Len(t))
      /\ \A x \in 1..n : u[x] = s[x]
      /\ \A x \in (n+1)..(n + Len(t)) : u[x] = t[x - n]
  BY ConcatProperties, LenProperties
<1>2. DOMAIN s = 1..n /\ n \in Nat /\ DOMAIN t = 1..Len(t) /\ Len(t) \in Nat
  BY LenProperties
<1>3. IsFiniteSet(A) /\ Cardinality(A) = Count(s, o)
  BY CountMoved
<1>4. IsFiniteSet(B) /\ Cardinality(B) = Count(t, o)
  BY <1>2, CountMoved
<1> HIDE DEF u
<1>5. Cardinality(C) = Count(u, o)
  BY <1>1, CountMoved
<1>6. A \cap B = {}
  BY <1>2 DEF Moved
<1>7. C = A \cup B
  <2>1. \A p \in {0} \X Nat : p[2] - 0 = p[2] /\ p[2] \in Nat
    OBVIOUS
  <2>2. \A x \in Nat : x \in DOMAIN u /\ u[x] = o <=>
          (x \in DOMAIN s /\ s[x] = o) \/ (x - n \in DOMAIN t /\ t[x - n] = o)
    <3>1. TAKE x \in Nat
    <3>2. CASE x \in 1..n
      <4>1. x \in DOMAIN u /\ u[x] = s[x] /\ x \in DOMAIN s /\ x - n \notin DOMAIN t
        BY <1>1, <1>2, <3>2
      <4> QED
        BY <4>1
    <3>3. CASE x \in (n+1)..(n + Len(t))
      <4>1. /\ x \in DOMAIN u /\ u[x] = t[x - n] /\ x \notin DOMAIN s
            /\ x - n \in DOMAIN t
        BY <1>1, <1>2, <3>3
      <4> QED
        BY <4>1
    <3>4. CASE x \notin 1..(n + Len(t))
      <4>1. x \notin DOMAIN u /\ x \notin DOMAIN s /\ x - n \notin DOMAIN t
        BY <1>1, <1>2, <3>4
      <4> QED
        BY <4>1
    <3> QED
      BY <1>2, <3>2, <3>3, <3>4
  <2> QED
    BY <2>1, <2>2 DEF Moved
<1> HIDE DEF A, B, C
<1>8. Cardinality(A \cup B) = Cardinality(A) + Cardinality(B)
  BY <1>3, <1>4, <1>6, CardDisjoint
<1>9. u \in Seq(Obj) /\ Count(u, o) = Count(s, o) + Count(t, o)
  BY <1>1, <1>3, <1>4, <1>5, <1>7, <1>8
<1> QED
  BY <1>9 DEF u

LEMMA CountTail ==
  ASSUME NEW s \in Seq(Obj), s # <<>>, NEW o
  PROVE  /\ Head(s) \in Obj /\ Tail(s) \in Seq(Obj) /\ Len(Tail(s)) = Len(s) - 1
         /\ Count(s, o) = Count(Tail(s), o) + (IF Head(s) = o THEN 1 ELSE 0)
         /\ \A x \in DOMAIN Tail(s) : x + 1 \in DOMAIN s /\ Tail(s)[x] = s[x + 1]
         /\ 1 \in DOMAIN s /\ Head(s) = s[1]
<1> DEFINE t == Tail(s)
           e == Head(s)
<1>1. /\ e \in Obj /\ t \in Seq(Obj) /\ Len(t) = Len(s) - 1
      /\ \A x \in 1..Len(t) : t[x] = s[x + 1]
  BY HeadTailProperties
<1>2. /\ Len(s) \in Nat \ {0} /\ DOMAIN s = 1..Len(s) /\ DOMAIN t = 1..Len(t)
      /\ e = s[1]
  BY <1>1, LenProperties, EmptySeq
<1> HIDE DEF t, e
<1>3. <<e>> \in Seq(Obj) /\ Len(<<e>>) = 1 /\ <<e>>[1] = e
  BY <1>1
<1>4. s = <<e>> \o t
  <2> DEFINE u == <<e>> \o t
  <2>1. /\ u \in Seq(Obj) /\ Len(u) = 1 + Len(t)
        /\ u[1] = e /\ \A x \in 2..(1 + Len(t)) : u[x] = t[x - 1]
    BY <1>1, <1>3, ConcatProperties
  <2> HIDE DEF u
  <2>2. Len(u) = Len(s)
    BY <1>1, <1>2, <2>1
  <2>3. \A x \in 1..Len(u) : u[x] = s[x]
    <3>1. TAKE x \in 1..Len(u)
    <3>2. CASE x = 1
      BY <1>2, <2>1, <3>2
    <3>3. CASE x # 1
      <4>1. x - 1 \in 1..Len(t) /\ x \in 2..(1 + Len(t)) /\ x - 1 + 1 = x
        BY <1>1, <1>2, <2>1, <3>3
      <4> QED
        BY <1>1, <2>1, <4>1
    <3> QED
      BY <3>2, <3>3
  <2>4. u = s
    BY <2>1, <2>2, <2>3, SeqEqual
  <2> QED
    BY <2>4 DEF u
<1>5. Count(s, o) = Count(<<e>>, o) + Count(t, o)
  <2>1. Count(<<e>> \o t, o) = Count(<<e>>, o) + Count(t, o)
    BY <1>1, <1>3, CountConcat
  <2> QED
    BY <1>4, <2>1
<1>6. Count(<<e>>, o) = IF e = o THEN 1 ELSE 0
  BY <1>1, CountOne
<1>7. Count(t, o) \in Nat
  BY <1>1, CountType
<1>8. Count(s, o) = Count(t, o) + (IF e = o THEN 1 ELSE 0)
  BY <1>5, <1>6, <1>7
<1>9. \A x \in DOMAIN t : x + 1 \in DOMAIN s /\ t[x] = s[x + 1]
  BY <1>1, <1>2
<1> QED
  BY <1>1, <1>2, <1>8, <1>9 DEF t, e

(***************************************************************************)
(* Changes of the heap and the stack.                                      *)
(***************************************************************************)

\* One reference on d less, and what KOBJ_DECREF makes of the heap and of
\* the stack.
Less(r, d) == [r EXCEPT ![d] = @ - 1]
Dropped(h, d) == [h EXCEPT ![d].refc = @ - 1]
Freeing(h, st, d) ==
  IF h[d].refc = 1 THEN Append(st, Frame("free", d)) ELSE st

\* A reference that is not in a container is dropped: KOBJ_DECREF.
LEMMA DropSound ==
  ASSUME NEW h, NEW st, NEW r, Sound(h, st, r), NEW d \in Obj, r[d] > 0
  PROVE  Sound(Dropped(h, d), Freeing(h, st, d), Less(r, d))
<1> DEFINE g == Dropped(h, d)
           tt == Freeing(h, st, d)
           q == Less(r, d)
<1>1. /\ h \in [Obj -> Object] /\ st \in Seq(FrameType) /\ r \in [Obj -> Nat]
      /\ DeletersOK(h, st) /\ LifeOK(h, st) /\ Counts(h, st, r)
  BY DEF Sound
<1>2. h[d].refc \in Nat /\ h[d].refc > 0 /\ h[d].type # "none" /\ ~DyingIn(st, d)
  <2>1. h[d].refc = r[d] + Cardinality(KeptIn(h, st, d))
    BY <1>1 DEF Counts
  <2>2. Cardinality(KeptIn(h, st, d)) \in Nat /\ r[d] \in Nat
    BY <1>1, KeptFinite
  <2> QED
    BY <1>1, <2>1, <2>2 DEF LifeOK
<1>3. /\ g \in [Obj -> Object]
      /\ \A o \in Obj : g[o].els = h[o].els /\ g[o].type = h[o].type
      /\ \A o \in Obj : g[o].refc = IF o = d THEN h[o].refc - 1 ELSE h[o].refc
      /\ \A o \in Obj : o # d => g[o] = h[o]
  <2>1. h[d].refc - 1 \in Nat
    BY <1>2
  <2>2. g = [h EXCEPT ![d].refc = h[d].refc - 1]
    BY DEF Dropped
  <2> HIDE DEF g
  <2>3. /\ g \in [Obj -> Object]
        /\ \A o \in Obj : g[o].els = h[o].els /\ g[o].type = h[o].type
        /\ g[d].refc = h[d].refc - 1
        /\ \A o \in Obj : o # d => g[o] = h[o]
    <3> DEFINE n == h[d].refc - 1
    <3>0. h \in [Obj -> Object]
      BY <1>1
    <3>1. n \in Nat /\ g = [h EXCEPT ![d].refc = n]
      BY <2>1, <2>2
    <3> HIDE DEF n
    <3>2. /\ g \in [Obj -> Object]
          /\ \A o \in Obj : g[o].els = h[o].els /\ g[o].type = h[o].type
          /\ g[d].refc = n
          /\ \A o \in Obj : o # d => g[o] = h[o]
      BY <3>0, <3>1, Recounted
    <3> QED
      BY <3>2 DEF n
  <2> QED
    BY <2>3
<1>4. q \in [Obj -> Nat] /\ \A o \in Obj : q[o] = IF o = d THEN r[o] - 1 ELSE r[o]
  BY <1>1 DEF Less
<1> DEFINE f == Frame("free", d)
<1>5. f \in FrameType
  <2>1. "free" \in Ops
    BY DEF Ops
  <2> QED
    BY <2>1, NewFrame
<1>6. f.op = "free" /\ f.obj = d /\ f.next = 1
  BY DEF Frame
<1> HIDE DEF f
<1>7. /\ tt \in Seq(FrameType) /\ DOMAIN st = 1..Len(st) /\ Len(st) \in Nat
      /\ \A x \in DOMAIN st : x \in DOMAIN tt /\ tt[x] = st[x]
      /\ h[d].refc # 1 => tt = st
      /\ h[d].refc = 1 =>
           /\ DOMAIN tt = 1..(Len(st) + 1)
           /\ tt[Len(st) + 1] = f
  BY <1>1, <1>5, AppendProperties, LenProperties DEF f, Freeing
<1> HIDE DEF g, tt, q
<1>8. \A x \in DOMAIN tt : x \in DOMAIN st \/ (x = Len(st) + 1 /\ tt[x] = f /\ h[d].refc = 1)
  BY <1>7
<1>9. \A o : KeptIn(g, tt, o) = KeptIn(h, st, o)
  <2>1. \A c \in Obj : \A x \in Nat \ {0} : GivenBack(st, c, x) <=> GivenBack(tt, c, x)
    BY <1>6, <1>7, <1>8 DEF GaveBack, GivenBack
  <2>2. \A c \in Obj : g[c].els = h[c].els
    BY <1>3
  <2>3. h \in [Obj -> Object]
    BY <1>1
  <2> QED
    BY <2>1, <2>2, <2>3, KeptSame
<1>10. Counts(g, tt, q)
  <2>1. \A o \in Obj : r[o] \in Nat /\ Cardinality(KeptIn(h, st, o)) \in Nat
    BY <1>1, KeptFinite
  <2>2. ASSUME NEW o \in Obj
        PROVE  g[o].refc = q[o] + Cardinality(KeptIn(g, tt, o))
    <3>1. h[o].refc = r[o] + Cardinality(KeptIn(g, tt, o))
      BY <1>1, <1>9 DEF Counts
    <3>2. Cardinality(KeptIn(g, tt, o)) \in Nat
      BY <1>9, <2>1
    <3> QED
      BY <1>3, <1>4, <2>1, <3>1, <3>2
  <2> QED
    BY <2>2 DEF Counts
<1>11. DeletersOK(g, tt)
  <2>1. \A x \in DOMAIN st : st[x].obj \in Obj
    BY <1>1, FrameFields
  <2>2. \A o \in Obj : Len(h[o].els) \in Nat
    BY <1>1, ObjectType
  <2>3. ASSUME NEW x \in DOMAIN tt, tt[x].op = "free"
        PROVE  /\ tt[x].next \in 1..(Len(g[tt[x].obj].els) + 1)
               /\ g[tt[x].obj].type # "none"
    <3>1. CASE x \in DOMAIN st
      <4>1. /\ st[x].next \in 1..(Len(h[st[x].obj].els) + 1)
            /\ h[st[x].obj].type # "none"
        BY <1>1, <1>7, <2>3, <3>1 DEF DeletersOK
      <4> QED
        BY <1>3, <1>7, <2>1, <3>1, <4>1
    <3>2. CASE x = Len(st) + 1 /\ tt[x] = f
      BY <1>2, <1>3, <1>6, <2>2, <3>2
    <3> QED
      BY <1>8, <3>1, <3>2
  <2>4. ASSUME NEW x \in DOMAIN tt, NEW y \in DOMAIN tt,
               tt[x].op = "free", tt[y].op = "free", tt[x].obj = tt[y].obj
        PROVE  x = y
    BY <1>1, <1>2, <1>6, <1>7, <1>8, <2>4 DEF DeletersOK, DyingIn
  <2> QED
    BY <2>3, <2>4 DEF DeletersOK
<1>12. \A o \in Obj : DyingIn(tt, o) <=> DyingIn(st, o) \/ (o = d /\ h[d].refc = 1)
  BY <1>6, <1>7, <1>8 DEF DyingIn
<1>13. LifeOK(g, tt)
  BY <1>1, <1>2, <1>3, <1>12 DEF LifeOK
<1>14. Sound(g, tt, q)
  BY <1>3, <1>4, <1>7, <1>10, <1>11, <1>13 DEF Sound
<1> QED
  BY <1>14 DEF g, tt, q
\* One reference more, and as many as a sequence has of each object.
More(r, d) == [r EXCEPT ![d] = @ + 1]
Plus(r, s) == [o \in Obj |-> r[o] + Count(s, o)]
Minus(r, s) == [o \in Obj |-> r[o] - Count(s, o)]

\* What a sound heap says of one object.
LEMMA SoundObject ==
  ASSUME NEW h, NEW st, NEW r, Sound(h, st, r), NEW o \in Obj
  PROVE  /\ r[o] \in Nat /\ h[o].refc \in Nat /\ r[o] <= h[o].refc
         /\ h[o].refc = r[o] + Cardinality(KeptIn(h, st, o))
         /\ h[o].refc > 0 => h[o].type # "none" /\ ~DyingIn(st, o)
         /\ h[o].type = "none" => h[o] = NoObject /\ h[o].refc = 0 /\ ~DyingIn(st, o)
<1>1. /\ h \in [Obj -> Object] /\ r \in [Obj -> Nat]
      /\ DeletersOK(h, st) /\ LifeOK(h, st) /\ Counts(h, st, r)
  BY DEF Sound
<1>2. Cardinality(KeptIn(h, st, o)) \in Nat
  BY <1>1, KeptFinite
<1>3. r[o] \in Nat /\ h[o].refc = r[o] + Cardinality(KeptIn(h, st, o))
  BY <1>1 DEF Counts
<1>4. h[o].refc \in Nat /\ r[o] <= h[o].refc
  BY <1>2, <1>3
<1>5. h[o].refc > 0 => h[o].type # "none" /\ ~DyingIn(st, o)
  BY <1>1 DEF LifeOK
<1>6. h[o].type = "none" => h[o] = NoObject /\ h[o].refc = 0 /\ ~DyingIn(st, o)
  BY <1>1 DEF LifeOK, DeletersOK, DyingIn
<1> QED
  BY <1>3, <1>4, <1>5, <1>6

\* Objects are made, or references taken: the counts follow the references,
\* no elements change, and no object is lost or comes back.
Recount(h, r, g, q) ==
  /\ g \in [Obj -> Object] /\ q \in [Obj -> Nat]
  /\ \A o \in Obj :
       /\ g[o].els = h[o].els
       /\ g[o].refc + r[o] = h[o].refc + q[o]
       /\ g[o].type = "none" => g[o] = h[o]
       /\ h[o].refc > 0 => g[o].refc > 0
       /\ h[o].type # "none" /\ h[o].refc = 0 => g[o].refc = 0
       /\ h[o].type = "none" => g[o] = h[o] \/ (g[o].refc > 0 /\ g[o].type # "none")

LEMMA RecountSound ==
  ASSUME NEW h, NEW st, NEW r, Sound(h, st, r), NEW g, NEW q, Recount(h, r, g, q)
  PROVE  Sound(g, st, q)
<1>0. /\ g \in [Obj -> Object] /\ q \in [Obj -> Nat]
      /\ \A o \in Obj : g[o].els = h[o].els
  BY DEF Recount
<1>1. /\ h \in [Obj -> Object] /\ st \in Seq(FrameType) /\ r \in [Obj -> Nat]
      /\ DeletersOK(h, st) /\ LifeOK(h, st) /\ Counts(h, st, r)
  BY DEF Sound
<1>2. \A o : KeptIn(g, st, o) = KeptIn(h, st, o)
  <2>1. \A c \in Obj : \A x \in Nat \ {0} : GivenBack(st, c, x) <=> GivenBack(st, c, x)
    OBVIOUS
  <2>2. h \in [Obj -> Object] /\ \A o \in Obj : g[o].els = h[o].els
    BY <1>0, <1>1
  <2> QED
    BY <2>1, <2>2, KeptSame
<1>3. Counts(g, st, q)
  <2>1. ASSUME NEW o \in Obj
        PROVE  g[o].refc = q[o] + Cardinality(KeptIn(g, st, o))
    <3>1. h[o].refc = r[o] + Cardinality(KeptIn(g, st, o))
      BY <1>1, <1>2 DEF Counts
    <3>2. Cardinality(KeptIn(g, st, o)) \in Nat
      BY <1>1, <1>2, KeptFinite
    <3>3. g[o].refc + r[o] = h[o].refc + q[o]
      BY DEF Recount
    <3>4. /\ g[o].refc \in Nat /\ h[o].refc \in Nat
          /\ r[o] \in Nat /\ q[o] \in Nat
      BY <1>0, <1>1, ObjectType
    <3> QED
      BY <3>1, <3>2, <3>3, <3>4
  <2> QED
    BY <2>1 DEF Counts
<1>4. \A x \in DOMAIN st : st[x].obj \in Obj
  BY <1>1, FrameFields
<1>5. DeletersOK(g, st)
  <2>1. \A o \in Obj : h[o].type # "none" => g[o].type # "none"
    BY DEF Recount
  <2> QED
    BY <1>0, <1>1, <1>4, <2>1 DEF DeletersOK
<1>6. LifeOK(g, st)
  <2>1. ASSUME NEW o \in Obj, g[o].type = "none"
        PROVE  g[o] = NoObject
    BY <1>1, <2>1 DEF LifeOK, Recount
  <2>2. ASSUME NEW o \in Obj
        PROVE  g[o].refc = 0 <=> g[o].type = "none" \/ DyingIn(st, o)
    <3>1. g[o].refc \in Nat /\ h[o].refc \in Nat
      BY <1>0, <1>1, ObjectType
    <3>2. /\ g[o].type = "none" => g[o] = h[o]
          /\ h[o].refc > 0 => g[o].refc > 0
          /\ h[o].type # "none" /\ h[o].refc = 0 => g[o].refc = 0
          /\ h[o].type = "none" => g[o] = h[o] \/ (g[o].refc > 0 /\ g[o].type # "none")
      BY DEF Recount
    <3>3. /\ h[o].type = "none" => ~DyingIn(st, o) /\ h[o].refc = 0
          /\ h[o].refc = 0 <=> h[o].type = "none" \/ DyingIn(st, o)
      BY <1>1, SoundObject DEF LifeOK
    <3>4. CASE h[o].refc > 0
      BY <3>1, <3>2, <3>3, <3>4
    <3>5. CASE h[o].refc = 0
      BY <3>1, <3>2, <3>3, <3>5
    <3> QED
      BY <3>1, <3>4, <3>5
  <2> QED
    BY <2>1, <2>2 DEF LifeOK
<1> QED
  BY <1>0, <1>1, <1>3, <1>5, <1>6 DEF Sound

\* References are taken on objects that have some: KOBJ_INCREF.
LEMMA IncrefsSound ==
  ASSUME NEW h, NEW st, NEW r, Sound(h, st, r), NEW s \in Seq(Obj),
         \A x \in DOMAIN s : h[s[x]].refc > 0
  PROVE  Sound(Increfs(h, s), st, Plus(r, s))
<1> DEFINE g == Increfs(h, s)
           q == Plus(r, s)
<1>1. h \in [Obj -> Object] /\ r \in [Obj -> Nat]
  BY DEF Sound
<1>2. \A o \in Obj : Count(s, o) \in Nat
  BY CountType
<1>3. \A o \in Obj : g[o] = [h[o] EXCEPT !.refc = h[o].refc + Count(s, o)]
  BY DEF Increfs
<1>4. \A o \in Obj : h[o] \in Object /\ h[o].refc \in Nat
  BY <1>1, ObjectType
<1>5. \A o \in Obj :
        /\ g[o] \in Object
        /\ g[o].els = h[o].els /\ g[o].type = h[o].type
        /\ g[o].refc = h[o].refc + Count(s, o)
        /\ Count(s, o) = 0 => g[o] = h[o]
  <2>1. TAKE o \in Obj
  <2> DEFINE n == h[o].refc + Count(s, o)
  <2>2. h[o] \in Object /\ h[o].refc \in Nat /\ Count(s, o) \in Nat
    BY <1>2, <1>4
  <2>3. n \in Nat /\ (Count(s, o) = 0 => n = h[o].refc)
    BY <2>2
  <2>4. g[o] = [h[o] EXCEPT !.refc = n]
    BY <1>3
  <2> HIDE DEF g, n
  <2>5. /\ g[o] \in Object /\ g[o].els = h[o].els /\ g[o].type = h[o].type
        /\ g[o].refc = n /\ (n = h[o].refc => g[o] = h[o])
    BY <2>2, <2>3, <2>4, RecountedObject
  <2> QED
    BY <2>3, <2>5 DEF n
<1>6. g \in [Obj -> Object]
  <2>1. DOMAIN g = Obj /\ g = [o \in Obj |-> g[o]]
    BY DEF Increfs
  <2> HIDE DEF g
  <2> QED
    BY <1>5, <2>1
<1>7. q \in [Obj -> Nat] /\ \A o \in Obj : q[o] = r[o] + Count(s, o)
  BY <1>1, <1>2 DEF Plus
<1> HIDE DEF g, q
<1>8. \A o \in Obj : h[o].refc = 0 => Count(s, o) = 0
  <2>1. ASSUME NEW o \in Obj, h[o].refc = 0
        PROVE  Count(s, o) = 0
    <3>1. \A x \in DOMAIN s : s[x] # o
      BY <2>1
    <3> QED
      BY <3>1, CountType
  <2> QED
    BY <2>1
<1>9. \A o \in Obj : h[o].type = "none" => h[o].refc = 0
  BY SoundObject
<1>10. ASSUME NEW o \in Obj
       PROVE  /\ g[o].els = h[o].els
              /\ g[o].refc + r[o] = h[o].refc + q[o]
              /\ g[o].type = "none" => g[o] = h[o]
              /\ h[o].refc > 0 <=> g[o].refc > 0
              /\ h[o].type = "none" => g[o] = h[o]
              /\ h[o].refc \in Nat /\ g[o].refc \in Nat
  <2>1. /\ r[o] \in Nat /\ h[o].refc \in Nat /\ Count(s, o) \in Nat
        /\ g[o].refc = h[o].refc + Count(s, o) /\ q[o] = r[o] + Count(s, o)
    BY <1>1, <1>2, <1>4, <1>5, <1>7
  <2>2. h[o].refc = 0 => Count(s, o) = 0
    BY <1>8
  <2>3. h[o].type = "none" => g[o] = h[o]
    BY <1>5, <1>9, <2>2
  <2>4. g[o].refc + r[o] = h[o].refc + q[o] /\ g[o].refc \in Nat
    BY <2>1
  <2>5. h[o].refc > 0 <=> g[o].refc > 0
    BY <2>1, <2>2
  <2>6. g[o].els = h[o].els /\ g[o].type = h[o].type
    BY <1>5
  <2> QED
    BY <2>1, <2>3, <2>4, <2>5, <2>6
<1>11. Recount(h, r, g, q)
  BY <1>4, <1>6, <1>7, <1>10 DEF Recount
<1>12. Sound(g, st, q)
  BY <1>11, RecountSound
<1> QED
  BY <1>12 DEF g, q

\* An object that is not there is made, with a reference and no elements.
Made(h, o, type, cap) == [h EXCEPT ![o] = New(type, <<>>, cap)]

LEMMA MakeSound ==
  ASSUME NEW h, NEW st, NEW r, Sound(h, st, r), NEW d \in Obj, h[d].type = "none",
         NEW type \in Kinds \ {"none"}, NEW cap \in Nat
  PROVE  Sound(Made(h, d, type, cap), st, More(r, d))
<1> DEFINE g == Made(h, d, type, cap)
           q == More(r, d)
           n == New(type, <<>>, cap)
<1>1. h \in [Obj -> Object] /\ r \in [Obj -> Nat] /\ h[d].refc = 0 /\ h[d] = NoObject
  BY SoundObject DEF Sound
<1>2. n \in Object /\ n.type = type /\ n.refc = 1 /\ n.els = <<>>
  BY EmptySeq DEF New, Object
<1> HIDE DEF n
<1>3. g \in [Obj -> Object] /\ \A o \in Obj : g[o] = IF o = d THEN n ELSE h[o]
  BY <1>1, <1>2 DEF Made, n
<1>4. q \in [Obj -> Nat] /\ \A o \in Obj : q[o] = IF o = d THEN r[o] + 1 ELSE r[o]
  BY <1>1 DEF More
<1> HIDE DEF g, q
<1>5. h[d].els = <<>>
  BY <1>1 DEF NoObject
<1>6. ASSUME NEW o \in Obj
      PROVE  /\ g[o].els = h[o].els
             /\ g[o].refc + r[o] = h[o].refc + q[o]
             /\ g[o].type = "none" => g[o] = h[o]
             /\ h[o].refc > 0 => g[o].refc > 0
             /\ h[o].type # "none" /\ h[o].refc = 0 => g[o].refc = 0
             /\ h[o].type = "none" => g[o] = h[o] \/ (g[o].refc > 0 /\ g[o].type # "none")
  <2>1. r[o] \in Nat /\ h[o].refc \in Nat
    BY SoundObject
  <2>2. CASE o = d
    <3>1. g[o] = n /\ q[o] = r[o] + 1
      BY <1>3, <1>4, <2>2
    <3> QED
      BY <1>1, <1>2, <1>5, <2>1, <2>2, <3>1
  <2>3. CASE o # d
    <3>1. g[o] = h[o] /\ q[o] = r[o]
      BY <1>3, <1>4, <2>3
    <3> QED
      BY <2>1, <3>1
  <2> QED
    BY <2>2, <2>3
<1>7. Recount(h, r, g, q)
  BY <1>3, <1>4, <1>6 DEF Recount
<1>8. Sound(g, st, q)
  BY <1>7, RecountSound
<1> QED
  BY <1>8 DEF g, q

\* No active call has given back anything of c.
Whole(st, c) == \A x \in Nat : ~GivenBack(st, c, x)

\* Heap g is heap h with s at the end of the elements of c.
Appended(h, g, c, s) ==
  /\ h \in [Obj -> Object] /\ g \in [Obj -> Object]
  /\ g[c].els = h[c].els \o s
  /\ g[c].type = h[c].type /\ g[c].refc = h[c].refc
  /\ \A o \in Obj : o # c => g[o] = h[o]

LEMMA AppendedKept ==
  ASSUME NEW h, NEW g, NEW st, NEW c \in Obj, NEW s \in Seq(Obj),
         Appended(h, g, c, s), Whole(st, c), NEW o
  PROVE  Cardinality(KeptIn(g, st, o)) = Cardinality(KeptIn(h, st, o)) + Count(s, o)
<1> DEFINE n == Len(h[c].els)
           K == KeptIn(h, st, o)
           M == Moved(s, o, n, c)
<1>1. /\ h \in [Obj -> Object] /\ g \in [Obj -> Object]
      /\ g[c].els = h[c].els \o s /\ \A d \in Obj : d # c => g[d].els = h[d].els
  BY DEF Appended
<1>2. h[c].els \in Seq(Obj) /\ n \in Nat /\ DOMAIN h[c].els = 1..n
  BY <1>1, ObjectType
<1>3. /\ DOMAIN s = 1..Len(s) /\ Len(s) \in Nat
      /\ DOMAIN g[c].els = 1..(n + Len(s))
      /\ \A x \in 1..(n + Len(s)) : g[c].els[x] = IF x <= n THEN h[c].els[x] ELSE s[x - n]
  BY <1>1, <1>2, ConcatProperties, LenProperties
<1>4. IsFiniteSet(K)
  BY <1>1, KeptFinite
<1>5. IsFiniteSet(M) /\ Cardinality(M) = Count(s, o)
  BY <1>2, CountMoved
<1> HIDE DEF n
<1>6. K \cap M = {}
  BY <1>2, <1>3 DEF KeptIn, Moved
<1>7. \A x \in Nat :
        x \in DOMAIN g[c].els /\ g[c].els[x] = o <=>
          \/ x \in DOMAIN h[c].els /\ h[c].els[x] = o
          \/ x - n \in DOMAIN s /\ s[x - n] = o
  BY <1>2, <1>3
<1>8. KeptIn(g, st, o) = K \cup M
  BY <1>1, <1>7 DEF KeptIn, Moved, Whole
<1> HIDE DEF K, M
<1>9. Cardinality(K \cup M) = Cardinality(K) + Cardinality(M)
  BY <1>4, <1>5, <1>6, CardDisjoint
<1> QED
  BY <1>5, <1>8, <1>9 DEF K

\* When only objects that live and are not being deleted change, and keep
\* their type and count, deleters and lives are in order as before.
LEMMA LivesSame ==
  ASSUME NEW h, NEW g, NEW st \in Seq(FrameType),
         \A o \in Obj :
           /\ g[o].type = h[o].type /\ g[o].refc = h[o].refc
           /\ g[o] = h[o] \/ (h[o].type # "none" /\ ~DyingIn(st, o)),
         DeletersOK(h, st), LifeOK(h, st)
  PROVE  DeletersOK(g, st) /\ LifeOK(g, st)
<1>1. \A x \in DOMAIN st : st[x].obj \in Obj
  BY FrameFields
<1>2. \A x \in DOMAIN st : st[x].op = "free" => g[st[x].obj] = h[st[x].obj]
  BY <1>1 DEF DyingIn
<1>3. DeletersOK(g, st)
  BY <1>1, <1>2 DEF DeletersOK
<1>4. LifeOK(g, st)
  BY DEF LifeOK
<1> QED
  BY <1>3, <1>4

LEMMA AppendedLives ==
  ASSUME NEW h, NEW g, NEW st \in Seq(FrameType), NEW c \in Obj, NEW s,
         Appended(h, g, c, s), h[c].type # "none", ~DyingIn(st, c)
  PROVE  /\ DeletersOK(h, st) /\ LifeOK(h, st) <=> DeletersOK(g, st) /\ LifeOK(g, st)
         /\ \A o \in Obj : g[o].refc = h[o].refc
<1>1. \A o \in Obj :
        /\ g[o].type = h[o].type /\ g[o].refc = h[o].refc
        /\ g[o] = h[o] \/ (h[o].type # "none" /\ ~DyingIn(st, o))
  BY DEF Appended
<1>2. \A o \in Obj :
        /\ h[o].type = g[o].type /\ h[o].refc = g[o].refc
        /\ h[o] = g[o] \/ (g[o].type # "none" /\ ~DyingIn(st, o))
  BY <1>1
<1>3. DeletersOK(h, st) /\ LifeOK(h, st) => DeletersOK(g, st) /\ LifeOK(g, st)
  BY <1>1, LivesSame
<1>4. DeletersOK(g, st) /\ LifeOK(g, st) => DeletersOK(h, st) /\ LifeOK(h, st)
  BY <1>2, LivesSame
<1> QED
  BY <1>1, <1>3, <1>4

\* References from outside are stored at the end of a container.
LEMMA AppendSound ==
  ASSUME NEW h, NEW st, NEW r, Sound(h, st, r), NEW g, NEW c \in Obj,
         NEW s \in Seq(Obj), Appended(h, g, c, s), Whole(st, c), h[c].refc > 0,
         \A o \in Obj : Count(s, o) <= r[o]
  PROVE  Sound(g, st, Minus(r, s))
<1> DEFINE q == Minus(r, s)
<1>1. /\ h \in [Obj -> Object] /\ st \in Seq(FrameType) /\ r \in [Obj -> Nat]
      /\ DeletersOK(h, st) /\ LifeOK(h, st) /\ g \in [Obj -> Object]
  BY DEF Sound, Appended
<1>2. h[c].type # "none" /\ ~DyingIn(st, c)
  BY SoundObject
<1>3. DeletersOK(g, st) /\ LifeOK(g, st) /\ \A o \in Obj : g[o].refc = h[o].refc
  BY <1>1, <1>2, AppendedLives
<1>4. \A o \in Obj : Count(s, o) \in Nat /\ r[o] \in Nat /\ Count(s, o) <= r[o]
  BY <1>1, CountType
<1>5. q \in [Obj -> Nat] /\ \A o \in Obj : q[o] = r[o] - Count(s, o)
  BY <1>4 DEF Minus
<1> HIDE DEF q
<1>6. ASSUME NEW o \in Obj
      PROVE  g[o].refc = q[o] + Cardinality(KeptIn(g, st, o))
  <2>1. Cardinality(KeptIn(g, st, o)) = Cardinality(KeptIn(h, st, o)) + Count(s, o)
    BY AppendedKept
  <2>2. Cardinality(KeptIn(h, st, o)) \in Nat
    BY <1>1, KeptFinite
  <2>3. h[o].refc = r[o] + Cardinality(KeptIn(h, st, o))
    BY SoundObject
  <2> QED
    BY <1>3, <1>4, <1>5, <2>1, <2>2, <2>3
<1>7. Counts(g, st, q)
  BY <1>6 DEF Counts
<1>8. Sound(g, st, q)
  BY <1>1, <1>3, <1>5, <1>7 DEF Sound
<1> QED
  BY <1>8 DEF q

\* The last elements of a container are taken out, with their references.
LEMMA RemoveSound ==
  ASSUME NEW g, NEW st, NEW r, Sound(g, st, r), NEW h, NEW c \in Obj,
         NEW s \in Seq(Obj), Appended(h, g, c, s), Whole(st, c), g[c].refc > 0
  PROVE  Sound(h, st, Plus(r, s))
<1> DEFINE q == Plus(r, s)
<1>1. /\ h \in [Obj -> Object] /\ st \in Seq(FrameType) /\ r \in [Obj -> Nat]
      /\ DeletersOK(g, st) /\ LifeOK(g, st) /\ g[c].type = h[c].type
  BY DEF Sound, Appended
<1>2. h[c].type # "none" /\ ~DyingIn(st, c)
  BY <1>1, SoundObject
<1>3. DeletersOK(h, st) /\ LifeOK(h, st) /\ \A o \in Obj : g[o].refc = h[o].refc
  BY <1>1, <1>2, AppendedLives
<1>4. \A o \in Obj : Count(s, o) \in Nat /\ r[o] \in Nat
  BY <1>1, CountType
<1>5. q \in [Obj -> Nat] /\ \A o \in Obj : q[o] = r[o] + Count(s, o)
  BY <1>4 DEF Plus
<1> HIDE DEF q
<1>6. ASSUME NEW o \in Obj
      PROVE  h[o].refc = q[o] + Cardinality(KeptIn(h, st, o))
  <2>1. Cardinality(KeptIn(g, st, o)) = Cardinality(KeptIn(h, st, o)) + Count(s, o)
    BY AppendedKept
  <2>2. Cardinality(KeptIn(h, st, o)) \in Nat
    BY <1>1, KeptFinite
  <2>3. g[o].refc = r[o] + Cardinality(KeptIn(g, st, o))
    BY SoundObject
  <2> QED
    BY <1>3, <1>4, <1>5, <2>1, <2>2, <2>3
<1>7. Counts(h, st, q)
  BY <1>6 DEF Counts
<1>8. Sound(h, st, q)
  BY <1>1, <1>3, <1>5, <1>7 DEF Sound
<1> QED
  BY <1>8 DEF q

LEMMA PlusOne ==
  ASSUME NEW r \in [Obj -> Nat], NEW d \in Obj
  PROVE  Plus(r, <<d>>) = More(r, d)
<1>1. \A o \in Obj : Count(<<d>>, o) = IF d = o THEN 1 ELSE 0
  BY CountOne
<1>2. \A o \in Obj : r[o] + Count(<<d>>, o) = IF o = d THEN r[d] + 1 ELSE r[o]
  BY <1>1
<1>3. More(r, d) = [o \in Obj |-> IF o = d THEN r[d] + 1 ELSE r[o]]
  BY DEF More
<1> QED
  BY <1>2, <1>3 DEF Plus

\* One reference more: KOBJ_INCREF of an object alone.
Raised(h, d) == [h EXCEPT ![d].refc = @ + 1]

LEMMA RaiseSound ==
  ASSUME NEW h, NEW st, NEW r, Sound(h, st, r), NEW d \in Obj, h[d].refc > 0
  PROVE  Sound(Raised(h, d), st, More(r, d))
<1> DEFINE s == <<d>>
<1>1. h \in [Obj -> Object] /\ r \in [Obj -> Nat] /\ s \in Seq(Obj)
  BY DEF Sound
<1>2. \A o \in Obj : Count(s, o) = IF d = o THEN 1 ELSE 0
  BY CountOne
<1>3. \A x \in DOMAIN s : s[x] = d
  OBVIOUS
<1> HIDE DEF s
<1>4. Sound(Increfs(h, s), st, Plus(r, s))
  BY <1>1, <1>3, IncrefsSound
<1>5. \A o \in Obj : h[o] \in Object /\ h[o].refc \in Nat
  BY <1>1, ObjectType
<1>6. Increfs(h, s) = Raised(h, d)
  <2>1. Increfs(h, s) = [o \in Obj |-> [h[o] EXCEPT !.refc = h[o].refc + Count(s, o)]]
    BY DEF Increfs
  <2>2. Raised(h, d) = [o \in Obj |-> IF o = d THEN [h[d] EXCEPT !.refc = h[d].refc + 1] ELSE h[o]]
    BY <1>1 DEF Raised
  <2>3. ASSUME NEW o \in Obj
        PROVE  [h[o] EXCEPT !.refc = h[o].refc + Count(s, o)]
                 = IF o = d THEN [h[d] EXCEPT !.refc = h[d].refc + 1] ELSE h[o]
    <3>1. CASE o = d
      BY <1>2, <3>1
    <3>2. CASE o # d
      <4>1. h[o].refc + Count(s, o) = h[o].refc
        BY <1>2, <1>5, <3>2
      <4> QED
        BY <1>5, <3>2, <4>1, RecountedObject
    <3> QED
      BY <3>1, <3>2
  <2> QED
    BY <2>1, <2>2, <2>3
<1>7. Plus(r, s) = More(r, d)
  BY <1>1, PlusOne DEF s
<1> QED
  BY <1>4, <1>6, <1>7

\* The calls give back one more reference, the one at place i of c.
GivesBack(h, st, tt, c, i) ==
  /\ tt \in Seq(FrameType)
  /\ i \in DOMAIN h[c].els
  /\ ~GivenBack(st, c, i)
  /\ \A d \in Obj, x \in Nat :
       GivenBack(tt, d, x) <=> GivenBack(st, d, x) \/ (d = c /\ x = i)
  /\ DeletersOK(h, tt)
  /\ \A o \in Obj : DyingIn(tt, o) <=> DyingIn(st, o)

LEMMA GiveBackSound ==
  ASSUME NEW h, NEW st, NEW r, Sound(h, st, r), NEW tt, NEW c \in Obj, NEW i,
         GivesBack(h, st, tt, c, i)
  PROVE  h[c].els[i] \in Obj /\ Sound(h, tt, More(r, h[c].els[i]))
<1> DEFINE e == h[c].els[i]
           q == More(r, e)
           p == <<c, i>>
<1>1. /\ h \in [Obj -> Object] /\ st \in Seq(FrameType) /\ r \in [Obj -> Nat]
      /\ LifeOK(h, st)
  BY DEF Sound
<1>2. e \in Obj /\ i \in Nat
  <2>1. i \in DOMAIN h[c].els
    BY DEF GivesBack
  <2>2. /\ DOMAIN h[c].els = 1..Len(h[c].els) /\ Len(h[c].els) \in Nat
        /\ \A x \in DOMAIN h[c].els : h[c].els[x] \in Obj
    BY <1>1, ObjectType
  <2> QED
    BY <2>1, <2>2
<1>3. q \in [Obj -> Nat] /\ \A o \in Obj : q[o] = IF o = e THEN r[o] + 1 ELSE r[o]
  <2> HIDE DEF e
  <2> QED
    BY <1>1, <1>2 DEF More
<1>4. p \in KeptIn(h, st, e)
  BY <1>2 DEF GivesBack, KeptIn
<1>5. KeptIn(h, tt, e) = KeptIn(h, st, e) \ {p}
  BY <1>2 DEF GivesBack, KeptIn
<1>6. \A o \in Obj : o # e => KeptIn(h, tt, o) = KeptIn(h, st, o)
  BY <1>2 DEF GivesBack, KeptIn
<1> HIDE DEF e, q, p
<1>7. ASSUME NEW o \in Obj
      PROVE  h[o].refc = q[o] + Cardinality(KeptIn(h, tt, o))
  <2>1. h[o].refc = r[o] + Cardinality(KeptIn(h, st, o)) /\ r[o] \in Nat
    BY SoundObject
  <2>2. IsFiniteSet(KeptIn(h, st, o)) /\ Cardinality(KeptIn(h, st, o)) \in Nat
    BY <1>1, KeptFinite
  <2>3. CASE o = e
    <3>1. Cardinality(KeptIn(h, tt, o)) = Cardinality(KeptIn(h, st, o)) - 1
      BY <1>4, <1>5, <2>2, <2>3, CardRemove
    <3> QED
      BY <1>3, <2>1, <2>2, <2>3, <3>1
  <2>4. CASE o # e
    BY <1>3, <1>6, <2>1, <2>4
  <2> QED
    BY <2>3, <2>4
<1>8. Counts(h, tt, q)
  BY <1>7 DEF Counts
<1>9. LifeOK(h, tt)
  BY <1>1 DEF LifeOK, GivesBack
<1>10. Sound(h, tt, q)
  BY <1>1, <1>3, <1>8, <1>9 DEF Sound, GivesBack
<1> QED
  BY <1>2, <1>10 DEF e, q

\* The last call returns.
Returned(st) == SubSeq(st, 1, Len(st) - 1)
\* The last deleter goes on to its next element.
Advanced(st) == Append(Returned(st), [st[Len(st)] EXCEPT !.next = @ + 1])

LEMMA NextFrame ==
  ASSUME NEW f \in FrameType
  PROVE  LET g == [f EXCEPT !.next = @ + 1]
         IN  /\ g \in FrameType /\ g.next = f.next + 1
             /\ g.op = f.op /\ g.obj = f.obj /\ g.vals = f.vals
             /\ g.slot = f.slot /\ g.owned = f.owned /\ g.new = f.new
BY DEF FrameType

\* The frames below the last one.
LEMMA BelowFrames ==
  ASSUME NEW st \in Seq(FrameType), st # <<>>
  PROVE  LET b == Returned(st)
             n == Len(st)
         IN  /\ n \in Nat \ {0} /\ DOMAIN st = 1..n /\ st[n] \in FrameType
             /\ b \in Seq(FrameType) /\ Len(b) = n - 1 /\ DOMAIN b = 1..(n - 1)
             /\ \A x \in 1..(n - 1) : b[x] = st[x]
<1> DEFINE n == Len(st)
           b == Returned(st)
<1>1. n \in Nat \ {0} /\ DOMAIN st = 1..n /\ \A x \in 1..n : st[x] \in FrameType
  BY LenProperties, EmptySeq, ElementOfSeq
<1>2. 1 \in Int /\ n - 1 \in Int /\ \A x \in 1..(n - 1) : st[x] \in FrameType
  BY <1>1
<1>3. b \in Seq(FrameType) /\ Len(b) = IF 1 <= n - 1 THEN (n - 1) - 1 + 1 ELSE 0
  BY <1>2, SubSeqProperties DEF Returned
<1>4. \A x \in 1..((n - 1) - 1 + 1) : b[x] = st[1 + x - 1]
  BY <1>2, SubSeqProperties DEF Returned
<1> HIDE DEF n, b
<1>5. Len(b) = n - 1 /\ (n - 1) - 1 + 1 = n - 1
  BY <1>1, <1>3
<1>6. \A x \in 1..(n - 1) : b[x] = st[x]
  <2>1. TAKE x \in 1..(n - 1)
  <2>2. 1 + x - 1 = x
    BY <1>1
  <2> QED
    BY <1>4, <1>5, <2>2
<1>7. DOMAIN b = 1..(n - 1)
  BY <1>3, <1>5, LenProperties
<1>8. st[n] \in FrameType
  BY <1>1
<1> QED
  BY <1>1, <1>3, <1>5, <1>6, <1>7, <1>8 DEF n, b

LEMMA AdvancedFrames ==
  ASSUME NEW st \in Seq(FrameType), st # <<>>
  PROVE  LET tt == Advanced(st)
             n == Len(st)
         IN  /\ tt \in Seq(FrameType) /\ Len(tt) = n /\ n \in Nat \ {0}
             /\ DOMAIN tt = 1..n /\ DOMAIN st = 1..n
             /\ \A x \in 1..(n - 1) : tt[x] = st[x]
             /\ tt[n].next = st[n].next + 1
             /\ tt[n].op = st[n].op /\ tt[n].obj = st[n].obj
             /\ tt[n].vals = st[n].vals /\ tt[n].slot = st[n].slot
             /\ tt[n].owned = st[n].owned /\ tt[n].new = st[n].new
<1> DEFINE n == Len(st)
           f == [st[n] EXCEPT !.next = @ + 1]
           b == Returned(st)
           tt == Append(b, f)
<1>1. tt = Advanced(st)
  BY DEF Advanced
<1>2. /\ n \in Nat \ {0} /\ DOMAIN st = 1..n /\ st[n] \in FrameType
      /\ b \in Seq(FrameType) /\ Len(b) = n - 1
      /\ \A x \in 1..(n - 1) : b[x] = st[x]
  BY BelowFrames
<1>3. /\ f \in FrameType /\ f.next = st[n].next + 1
      /\ f.op = st[n].op /\ f.obj = st[n].obj
      /\ f.vals = st[n].vals /\ f.slot = st[n].slot
      /\ f.owned = st[n].owned /\ f.new = st[n].new
  BY <1>2, NextFrame
<1> HIDE DEF n, b, f
<1>4. /\ tt \in Seq(FrameType) /\ Len(tt) = Len(b) + 1
      /\ \A x \in 1..Len(b) : tt[x] = b[x]
      /\ tt[Len(b) + 1] = f
  BY <1>2, <1>3, AppendProperties
<1>5. /\ Len(tt) = n /\ DOMAIN tt = 1..n /\ tt[n] = f
      /\ \A x \in 1..(n - 1) : tt[x] = b[x]
  <2>1. Len(b) + 1 = n
    BY <1>2
  <2> HIDE DEF tt
  <2> QED
    BY <1>2, <1>4, <2>1, LenProperties
<1> HIDE DEF tt
<1>6. /\ \A x \in 1..(n - 1) : tt[x] = st[x]
      /\ tt[n].next = st[n].next + 1
      /\ tt[n].op = st[n].op /\ tt[n].obj = st[n].obj
      /\ tt[n].vals = st[n].vals /\ tt[n].slot = st[n].slot
      /\ tt[n].owned = st[n].owned /\ tt[n].new = st[n].new
  BY <1>2, <1>3, <1>5
<1> QED
  BY <1>1, <1>2, <1>4, <1>5, <1>6 DEF n

\* A deleter gives back one of the references of its object.
LEMMA AdvanceSound ==
  ASSUME NEW h, NEW st, NEW r, Sound(h, st, r), st # <<>>,
         st[Len(st)].op = "free",
         st[Len(st)].next <= Len(h[st[Len(st)].obj].els),
         \A x \in DOMAIN st : st[x].op = "store" => st[x].obj # st[Len(st)].obj
  PROVE  LET c == st[Len(st)].obj
             i == st[Len(st)].next
         IN  /\ c \in Obj /\ i \in DOMAIN h[c].els /\ h[c].els[i] \in Obj
             /\ Sound(h, Advanced(st), More(r, h[c].els[i]))
<1> DEFINE n == Len(st)
           c == st[n].obj
           i == st[n].next
           tt == Advanced(st)
<1>1. /\ h \in [Obj -> Object] /\ st \in Seq(FrameType) /\ DeletersOK(h, st)
  BY DEF Sound
<1>2. /\ tt \in Seq(FrameType) /\ n \in Nat \ {0}
      /\ DOMAIN tt = 1..n /\ DOMAIN st = 1..n
      /\ \A x \in 1..(n - 1) : tt[x] = st[x]
      /\ tt[n].next = i + 1 /\ tt[n].op = "free" /\ tt[n].obj = c
      /\ tt[n].slot = st[n].slot
  BY <1>1, AdvancedFrames
<1>0. /\ st[n].op = "free" /\ st[n].obj = c /\ st[n].next = i
      /\ i <= Len(h[c].els)
      /\ \A x \in 1..n : st[x].op = "store" => st[x].obj # c
  BY <1>2
<1> HIDE DEF n, c, i, tt
<1>3. \A x \in 1..n :
        /\ tt[x].op = st[x].op /\ tt[x].obj = st[x].obj
        /\ tt[x].slot = st[x].slot
        /\ x # n => tt[x].next = st[x].next
  <2>1. TAKE x \in 1..n
  <2>2. x # n => x \in 1..(n - 1)
    BY <1>2
  <2> QED
    BY <1>0, <1>2, <2>2
<1>4. \A x \in 1..n : st[x].op = "free" /\ st[x].obj = c => x = n
  <2>1. n \in 1..n
    BY <1>2
  <2> QED
    BY <1>0, <1>1, <1>2, <2>1 DEF DeletersOK
<1>5. i \in 1..Len(h[c].els) /\ h[c].type # "none" /\ c \in Obj
  <2>1. n \in DOMAIN st
    BY <1>2
  <2>2. c \in Obj /\ i \in 1..(Len(h[c].els) + 1) /\ h[c].type # "none"
    BY <1>0, <1>1, <2>1, FrameFields DEF DeletersOK
  <2>3. Len(h[c].els) \in Nat
    BY <1>1, <2>2, ObjectType
  <2> QED
    BY <1>0, <2>2, <2>3
<1>6. i \in DOMAIN h[c].els /\ i \in Nat /\ DOMAIN h[c].els = 1..Len(h[c].els) /\ Len(h[c].els) \in Nat
  BY <1>1, <1>5, ObjectType
<1>7. ~GivenBack(st, c, i)
  <2>1. SUFFICES ASSUME NEW y \in 1..n, GaveBack(st[y], c, i) PROVE FALSE
    BY <1>2 DEF GivenBack
  <2>2. st[y].op = "free" /\ st[y].obj = c /\ i < st[y].next
    BY <1>0, <2>1 DEF GaveBack
  <2>3. y = n
    BY <1>4, <2>2
  <2> QED
    BY <1>0, <1>6, <2>2, <2>3
<1>8. ASSUME NEW d \in Obj, NEW x \in Nat
      PROVE  GivenBack(tt, d, x) <=> GivenBack(st, d, x) \/ (d = c /\ x = i)
  <2>1. st[n].obj = c /\ st[n].next = i /\ st[n].op = "free"
    BY <1>0
  <2>2. \A y \in 1..n : y # n => (GaveBack(tt[y], d, x) <=> GaveBack(st[y], d, x))
    BY <1>3 DEF GaveBack
  <2>3. GaveBack(tt[n], d, x) <=> d = c /\ x < i + 1
    BY <1>2, <2>1 DEF GaveBack
  <2>4. GaveBack(st[n], d, x) <=> d = c /\ x < i
    BY <1>2, <2>1 DEF GaveBack
  <2>5. x < i + 1 <=> x < i \/ x = i
    BY <1>6
  <2>6. n \in 1..n
    BY <1>2
  <2> QED
    BY <1>2, <2>2, <2>3, <2>4, <2>5, <2>6 DEF GivenBack
<1>9. DeletersOK(h, tt)
  <2>1. ASSUME NEW x \in 1..n, tt[x].op = "free"
        PROVE  /\ tt[x].next \in 1..(Len(h[tt[x].obj].els) + 1)
               /\ h[tt[x].obj].type # "none"
    <3>1. CASE x = n
      BY <1>2, <1>5, <1>6, <3>1
    <3>2. CASE x # n
      <4>1. tt[x] = st[x]
        BY <1>2, <3>2
      <4> QED
        BY <1>1, <1>2, <2>1, <4>1 DEF DeletersOK
    <3> QED
      BY <3>1, <3>2
  <2>2. ASSUME NEW x \in 1..n, NEW y \in 1..n,
               tt[x].op = "free", tt[y].op = "free", tt[x].obj = tt[y].obj
        PROVE  x = y
    BY <1>1, <1>2, <1>3, <2>2 DEF DeletersOK
  <2> QED
    BY <1>2, <2>1, <2>2 DEF DeletersOK
<1>10. \A o \in Obj : DyingIn(tt, o) <=> DyingIn(st, o)
  BY <1>2, <1>3 DEF DyingIn
<1>11. GivesBack(h, st, tt, c, i)
  BY <1>2, <1>6, <1>7, <1>8, <1>9, <1>10 DEF GivesBack
<1>12. h[c].els[i] \in Obj /\ Sound(h, tt, More(r, h[c].els[i]))
  BY <1>5, <1>11, GiveBackSound
<1> QED
  BY <1>5, <1>6, <1>12 DEF c, i, n, tt

\* The memory of an object goes, its references are given back.
Freed(h, d) == [h EXCEPT ![d] = NoObject]

LEMMA FreedSound ==
  ASSUME NEW h, NEW st, NEW r, Sound(h, st, r), st # <<>>,
         st[Len(st)].op = "free",
         st[Len(st)].next > Len(h[st[Len(st)].obj].els)
  PROVE  /\ st[Len(st)].obj \in Obj /\ h[st[Len(st)].obj].refc = 0
         /\ Sound(Freed(h, st[Len(st)].obj), Returned(st), r)
<1> DEFINE n == Len(st)
           d == st[n].obj
           g == Freed(h, d)
           tt == Returned(st)
<1>1. /\ h \in [Obj -> Object] /\ st \in Seq(FrameType) /\ r \in [Obj -> Nat]
      /\ DeletersOK(h, st) /\ LifeOK(h, st)
  BY DEF Sound
<1>2. /\ n \in Nat \ {0} /\ DOMAIN st = 1..n /\ st[n] \in FrameType
      /\ tt \in Seq(FrameType) /\ DOMAIN tt = 1..(n - 1)
      /\ \A x \in 1..(n - 1) : tt[x] = st[x]
  BY <1>1, BelowFrames
<1>3. d \in Obj
  BY <1>2 DEF FrameType
<1>4. NoObject \in Object /\ NoObject.els = <<>> /\ NoObject.type = "none" /\ NoObject.refc = 0
  BY EmptySeq DEF NoObject, Object, Kinds
<1>5. g \in [Obj -> Object] /\ g[d] = NoObject /\ \A o \in Obj : o # d => g[o] = h[o]
  BY <1>1, <1>3, <1>4 DEF Freed
<1> HIDE DEF tt, g
<1>6. st[n].op = "free" /\ st[n].obj = d /\ st[n].next > Len(h[d].els) /\ st[n].next \in Nat
  BY <1>2 DEF FrameType
<1> HIDE DEF n, d
<1>7. \A x \in 1..n : x = n \/ (x \in 1..(n - 1) /\ tt[x] = st[x])
  BY <1>2
<1>8. \A x \in 1..(n - 1) : x \in 1..n /\ x # n
  BY <1>2
<1>9. n \in 1..n
  BY <1>2
<1>10. \A o \in Obj : DyingIn(st, o) <=> DyingIn(tt, o) \/ o = d
  BY <1>2, <1>6, <1>7, <1>8, <1>9 DEF DyingIn
<1>11. ~DyingIn(tt, d)
  BY <1>1, <1>2, <1>6, <1>8, <1>9 DEF DyingIn, DeletersOK
<1>12. \A o \in Obj, x \in Nat : o # d => (GivenBack(st, o, x) <=> GivenBack(tt, o, x))
  BY <1>2, <1>6, <1>7, <1>8, <1>9 DEF GivenBack, GaveBack
<1>13. \A x \in DOMAIN h[d].els : GivenBack(st, d, x)
  <2>1. DOMAIN h[d].els = 1..Len(h[d].els) /\ Len(h[d].els) \in Nat
    BY <1>1, <1>3, ObjectType
  <2>2. \A x \in DOMAIN h[d].els : GaveBack(st[n], d, x)
    BY <1>6, <2>1 DEF GaveBack
  <2> QED
    BY <1>2, <1>9, <2>2 DEF GivenBack
<1>14. \A o : KeptIn(g, tt, o) = KeptIn(h, st, o)
  BY <1>4, <1>5, <1>12, <1>13 DEF KeptIn
<1>15. h[d].refc = 0
  BY <1>1, <1>3, <1>10 DEF LifeOK
<1>16. Counts(g, tt, r)
  <2>1. \A o \in Obj : g[o].refc = h[o].refc
    BY <1>4, <1>5, <1>15
  <2>2. \A o \in Obj : h[o].refc = r[o] + Cardinality(KeptIn(h, st, o))
    BY DEF Sound, Counts
  <2> QED
    BY <1>14, <2>1, <2>2 DEF Counts
<1>17. \A x \in DOMAIN tt : st[x] = tt[x] /\ x \in DOMAIN st /\ st[x].obj \in Obj
  BY <1>1, <1>2, <1>8, FrameFields
<1>18. \A x \in DOMAIN tt : tt[x].op = "free" => tt[x].obj # d
  BY <1>11 DEF DyingIn
<1>19. DeletersOK(g, tt)
  <2>1. \A x \in DOMAIN tt : tt[x].op = "free" =>
          /\ x \in DOMAIN st /\ st[x].op = "free" /\ tt[x].next = st[x].next
          /\ tt[x].obj = st[x].obj /\ g[tt[x].obj] = h[st[x].obj]
    <3>1. ASSUME NEW x \in DOMAIN tt, tt[x].op = "free"
          PROVE  /\ x \in DOMAIN st /\ st[x] = tt[x] /\ st[x].obj \in Obj
                 /\ st[x].obj # d
      BY <1>17, <1>18, <3>1
    <3>2. \A o \in Obj : o # d => g[o] = h[o]
      BY <1>5
    <3> QED
      BY <3>1, <3>2
  <2>2. /\ \A x \in DOMAIN st : st[x].op = "free" =>
             /\ st[x].next \in 1..(Len(h[st[x].obj].els) + 1)
             /\ h[st[x].obj].type # "none"
        /\ \A x, y \in DOMAIN st :
             st[x].op = "free" /\ st[y].op = "free" /\ st[x].obj = st[y].obj => x = y
    BY <1>1 DEF DeletersOK
  <2>3. \A x \in DOMAIN tt : tt[x].op = "free" =>
          /\ tt[x].next \in 1..(Len(g[tt[x].obj].els) + 1)
          /\ g[tt[x].obj].type # "none"
    BY <2>1, <2>2
  <2>4. \A x, y \in DOMAIN tt :
          tt[x].op = "free" /\ tt[y].op = "free" /\ tt[x].obj = tt[y].obj => x = y
    BY <2>1, <2>2
  <2> QED
    BY <2>3, <2>4 DEF DeletersOK
<1>20. LifeOK(g, tt)
  BY <1>1, <1>4, <1>5, <1>10 DEF LifeOK
<1>21. Sound(g, tt, r)
  BY <1>1, <1>2, <1>5, <1>16, <1>19, <1>20 DEF Sound
<1> QED
  BY <1>3, <1>15, <1>21 DEF n, d, g, tt

\* One active call.
LEMMA OneFrame ==
  ASSUME NEW f \in FrameType
  PROVE  /\ <<f>> \in Seq(FrameType) /\ DOMAIN <<f>> = {1} /\ <<f>>[1] = f
         /\ Len(<<f>>) = 1 /\ <<f>> # <<>>
         /\ <<>> \in Seq(FrameType) /\ DOMAIN <<>> = {}
OBVIOUS

\* A merge or its end deletes nothing and gives nothing back.
LEMMA QuietSound ==
  ASSUME NEW h, NEW r, NEW f \in FrameType, f.op \notin {"free", "store"}
  PROVE  /\ Sound(h, <<>>, r) <=> Sound(h, <<f>>, r)
         /\ \A c : Whole(<<>>, c) /\ Whole(<<f>>, c)
<1> DEFINE tt == <<f>>
           st == <<>>
<1>1. /\ tt \in Seq(FrameType) /\ DOMAIN tt = {1} /\ tt[1] = f
      /\ st \in Seq(FrameType) /\ DOMAIN st = {}
  BY OneFrame
<1> HIDE DEF st, tt
<1>2. \A c, x : ~GivenBack(st, c, x) /\ ~GivenBack(tt, c, x)
  BY <1>1 DEF GivenBack, GaveBack
<1>3. \A o : KeptIn(h, st, o) = KeptIn(h, tt, o)
  BY <1>2 DEF KeptIn
<1>4. Counts(h, st, r) <=> Counts(h, tt, r)
  BY <1>3 DEF Counts
<1>5. DeletersOK(h, st) /\ DeletersOK(h, tt)
  BY <1>1 DEF DeletersOK
<1>6. LifeOK(h, st) <=> LifeOK(h, tt)
  BY <1>1 DEF LifeOK, DyingIn
<1>7. Sound(h, st, r) <=> Sound(h, tt, r)
  BY <1>1, <1>4, <1>5, <1>6 DEF Sound
<1> QED
  BY <1>2, <1>7 DEF st, tt, Whole

\* A replacement begins: it gives back the value in its slot.
LEMMA ReplaceSound ==
  ASSUME NEW h, NEW r, Sound(h, <<>>, r), NEW f \in FrameType, f.op = "store",
         f.slot \in DOMAIN h[f.obj].els
  PROVE  /\ h[f.obj].els[f.slot] \in Obj
         /\ Sound(h, <<f>>, More(r, h[f.obj].els[f.slot]))
<1> DEFINE tt == <<f>>
           st == <<>>
<1>1. /\ tt \in Seq(FrameType) /\ DOMAIN tt = {1} /\ tt[1] = f
      /\ st \in Seq(FrameType) /\ DOMAIN st = {}
  BY OneFrame
<1>2. Sound(h, st, r)
  OBVIOUS
<1> HIDE DEF st, tt
<1>3. f.obj \in Obj
  BY DEF FrameType
<1>4. \A c, x : ~GivenBack(st, c, x)
  BY <1>1 DEF GivenBack
<1>5. \A c, x : GivenBack(tt, c, x) <=> c = f.obj /\ x = f.slot
  BY <1>1 DEF GivenBack, GaveBack
<1>6. DeletersOK(h, tt) /\ \A o \in Obj : ~DyingIn(tt, o) /\ ~DyingIn(st, o)
  BY <1>1 DEF DeletersOK, DyingIn
<1>7. GivesBack(h, st, tt, f.obj, f.slot)
  BY <1>1, <1>4, <1>5, <1>6 DEF GivesBack
<1>8. h[f.obj].els[f.slot] \in Obj /\ Sound(h, tt, More(r, h[f.obj].els[f.slot]))
  BY <1>2, <1>3, <1>7, GiveBackSound
<1> QED
  BY <1>8 DEF tt

\* It ends: the slot takes the reference to the new value.
Stored(h, c, i, v) == [h EXCEPT ![c].els[i] = v]

LEMMA StoredObject ==
  ASSUME NEW h \in [Obj -> Object], NEW c \in Obj, NEW i \in DOMAIN h[c].els, NEW v \in Obj
  PROVE  LET g == Stored(h, c, i, v)
         IN  /\ g \in [Obj -> Object]
             /\ \A o \in Obj : g[o].type = h[o].type /\ g[o].refc = h[o].refc
             /\ \A o \in Obj : DOMAIN g[o].els = DOMAIN h[o].els
             /\ \A o \in Obj : o # c => g[o] = h[o]
             /\ \A x \in DOMAIN h[c].els :
                  g[c].els[x] = IF x = i THEN v ELSE h[c].els[x]
<1> DEFINE g == Stored(h, c, i, v)
           s == h[c].els
           t == [s EXCEPT ![i] = v]
           y == [h[c] EXCEPT !.els = t]
<1>1. h[c] \in Object /\ s \in Seq(Obj) /\ DOMAIN s = 1..Len(s)
  BY ObjectType
<1>2. /\ t \in Seq(Obj) /\ DOMAIN t = DOMAIN s
      /\ \A x \in DOMAIN s : t[x] = IF x = i THEN v ELSE s[x]
  BY <1>1, ExceptSeq
<1>3. g = [h EXCEPT ![c] = y]
  BY DEF Stored
<1> HIDE DEF t, g
<1>4. y \in Object /\ y.type = h[c].type /\ y.refc = h[c].refc /\ y.els = t
  BY <1>1, <1>2 DEF Object
<1> HIDE DEF y
<1>5. g \in [Obj -> Object] /\ g[c] = y /\ \A o \in Obj : o # c => g[o] = h[o]
  BY <1>3, <1>4
<1>6. \A o \in Obj : g[o].type = h[o].type /\ g[o].refc = h[o].refc
  BY <1>4, <1>5
<1>7. \A o \in Obj : DOMAIN g[o].els = DOMAIN h[o].els
  BY <1>2, <1>4, <1>5
<1> QED
  BY <1>2, <1>4, <1>5, <1>6, <1>7 DEF g

LEMMA StoredSound ==
  ASSUME NEW h, NEW f \in FrameType, NEW r, Sound(h, <<f>>, r), f.op = "store",
         f.slot \in DOMAIN h[f.obj].els, h[f.obj].refc > 0,
         NEW v \in Obj, r[v] > 0
  PROVE  Sound(Stored(h, f.obj, f.slot, v), <<>>, Less(r, v))
<1> DEFINE tt == <<>>
           st == <<f>>
           c == f.obj
           i == f.slot
           g == Stored(h, c, i, v)
           q == Less(r, v)
           p == <<c, i>>
<1>1. /\ st \in Seq(FrameType) /\ DOMAIN st = {1} /\ st[1] = f
      /\ tt \in Seq(FrameType) /\ DOMAIN tt = {}
  BY OneFrame
<1>2. Sound(h, st, r)
  OBVIOUS
<1> HIDE DEF st, tt
<1>3. /\ h \in [Obj -> Object] /\ r \in [Obj -> Nat]
      /\ DeletersOK(h, st) /\ LifeOK(h, st)
  BY <1>2 DEF Sound
<1>4. c \in Obj /\ i \in DOMAIN h[c].els
  BY DEF FrameType
<1>5. /\ g \in [Obj -> Object]
      /\ \A o \in Obj : g[o].type = h[o].type /\ g[o].refc = h[o].refc
      /\ \A o \in Obj : DOMAIN g[o].els = DOMAIN h[o].els
      /\ \A o \in Obj : o # c => g[o] = h[o]
      /\ \A x \in DOMAIN h[c].els : g[c].els[x] = IF x = i THEN v ELSE h[c].els[x]
  BY <1>3, <1>4, StoredObject
<1>6. q \in [Obj -> Nat] /\ \A o \in Obj : q[o] = IF o = v THEN r[o] - 1 ELSE r[o]
  BY <1>3 DEF Less
<1>7. h[c].refc > 0
  OBVIOUS
<1>8. \A d, x : GivenBack(st, d, x) <=> d = c /\ x = i
  BY <1>1 DEF GivenBack, GaveBack
<1>9. \A d, x : ~GivenBack(tt, d, x)
  BY <1>1 DEF GivenBack
<1>10. i \in Nat
  BY <1>3, <1>4, ObjectType
<1>11. \A o : ~DyingIn(st, o) /\ ~DyingIn(tt, o)
  BY <1>1 DEF DyingIn
<1> HIDE DEF c, i, g, q
<1>12. p \notin KeptIn(h, st, v)
  BY <1>8 DEF KeptIn
<1>13. KeptIn(g, tt, v) = KeptIn(h, st, v) \cup {p}
  BY <1>4, <1>5, <1>8, <1>9, <1>10 DEF KeptIn
<1>14. \A o \in Obj : o # v => KeptIn(g, tt, o) = KeptIn(h, st, o)
  BY <1>4, <1>5, <1>8, <1>9, <1>10 DEF KeptIn
<1> HIDE DEF p
<1>15. ASSUME NEW o \in Obj
       PROVE  g[o].refc = q[o] + Cardinality(KeptIn(g, tt, o))
  <2>1. h[o].refc = r[o] + Cardinality(KeptIn(h, st, o)) /\ r[o] \in Nat
    BY <1>2, SoundObject
  <2>2. IsFiniteSet(KeptIn(h, st, o)) /\ Cardinality(KeptIn(h, st, o)) \in Nat
    BY <1>3, KeptFinite
  <2>3. CASE o = v
    <3>1. Cardinality(KeptIn(g, tt, o)) = Cardinality(KeptIn(h, st, o)) + 1
      BY <1>12, <1>13, <2>2, <2>3, CardAdd
    <3>2. g[o].refc = h[o].refc /\ q[o] = r[o] - 1
      BY <1>5, <1>6, <2>3
    <3> QED
      BY <2>1, <2>2, <3>1, <3>2
  <2>4. CASE o # v
    BY <1>5, <1>6, <1>14, <2>1, <2>4
  <2> QED
    BY <2>3, <2>4
<1>16. Counts(g, tt, q)
  BY <1>15 DEF Counts
<1>17. DeletersOK(g, tt)
  BY <1>1 DEF DeletersOK
<1>18. LifeOK(g, tt)
  BY <1>3, <1>5, <1>7, <1>11 DEF LifeOK
<1>19. Sound(g, tt, q)
  BY <1>1, <1>5, <1>6, <1>16, <1>17, <1>18 DEF Sound
<1> QED
  BY <1>19 DEF g, tt, q, c, i

(***************************************************************************)
(* The bound on elements.                                                  *)
(***************************************************************************)
PlacesOf(h) == UNION {{c} \X DOMAIN h[c].els : c \in Obj}
Room(h, n) == Cardinality(PlacesOf(h)) + n <= MaxElems

LEMMA PlacesType ==
  ASSUME NEW h \in [Obj -> Object]
  PROVE  /\ IsFiniteSet(PlacesOf(h)) /\ Cardinality(PlacesOf(h)) \in Nat
         /\ MaxElems \in Nat /\ MaxHeld \in Nat \ {0} /\ MaxArgs \in Nat
<1>1. IsFiniteSet(PlacesOf(h))
  BY PlacesFinite DEF PlacesOf
<1> QED
  BY <1>1, CardType, BoundsAssumption

LEMMA PlacesSame ==
  ASSUME NEW h, NEW g, \A c \in Obj : DOMAIN g[c].els = DOMAIN h[c].els
  PROVE  PlacesOf(g) = PlacesOf(h) /\ \A n : Room(g, n) <=> Room(h, n)
<1>1. PlacesOf(g) = PlacesOf(h)
  BY DEF PlacesOf
<1> QED
  BY <1>1 DEF Room

LEMMA PlacesLess ==
  ASSUME NEW h \in [Obj -> Object], NEW g \in [Obj -> Object],
         \A c \in Obj : DOMAIN g[c].els \subseteq DOMAIN h[c].els,
         NEW n \in Nat, Room(h, n)
  PROVE  Room(g, n)
<1>1. PlacesOf(g) \subseteq PlacesOf(h)
  BY DEF PlacesOf
<1>2. Cardinality(PlacesOf(g)) <= Cardinality(PlacesOf(h))
  BY <1>1, PlacesType, FS_Subset
<1>3. /\ Cardinality(PlacesOf(g)) \in Nat /\ Cardinality(PlacesOf(h)) \in Nat
      /\ MaxElems \in Nat
  BY PlacesType
<1>4. Cardinality(PlacesOf(h)) + n <= MaxElems
  BY DEF Room
<1>5. Cardinality(PlacesOf(g)) + n <= MaxElems
  BY <1>2, <1>3, <1>4
<1> QED
  BY <1>5 DEF Room

LEMMA PlacesAppended ==
  ASSUME NEW h, NEW g, NEW c \in Obj, NEW s \in Seq(Obj), Appended(h, g, c, s)
  PROVE  Cardinality(PlacesOf(g)) = Cardinality(PlacesOf(h)) + Len(s)
<1> DEFINE n == Len(h[c].els)
           m == Len(s)
           I == (n + 1)..(n + m)
           P == {c} \X I
<1>1. /\ h \in [Obj -> Object] /\ g \in [Obj -> Object]
      /\ g[c].els = h[c].els \o s /\ \A d \in Obj : d # c => g[d].els = h[d].els
  BY DEF Appended
<1>2. h[c].els \in Seq(Obj) /\ n \in Nat /\ m \in Nat /\ DOMAIN h[c].els = 1..n
  BY <1>1, ObjectType, LenProperties
<1>3. DOMAIN g[c].els = 1..(n + m)
  BY <1>1, <1>2, ConcatProperties, LenProperties
<1> HIDE DEF n, m
<1>4. IsFiniteSet(I) /\ Cardinality(I) = m
  BY <1>2, FS_Interval
<1>5. IsFiniteSet({c}) /\ Cardinality({c}) = 1
  BY FS_Singleton
<1>6. IsFiniteSet(P) /\ Cardinality(P) = Cardinality({c}) * Cardinality(I)
  BY <1>4, <1>5, FS_Product
<1>7. Cardinality(P) = m
  BY <1>2, <1>4, <1>5, <1>6
<1>8. DOMAIN g[c].els = DOMAIN h[c].els \cup I /\ DOMAIN h[c].els \cap I = {}
  BY <1>2, <1>3
<1>9. \A d \in Obj : d # c => DOMAIN g[d].els = DOMAIN h[d].els
  BY <1>1
<1>10. PlacesOf(g) = PlacesOf(h) \cup P /\ PlacesOf(h) \cap P = {}
  BY <1>8, <1>9 DEF PlacesOf
<1> HIDE DEF P
<1>11. IsFiniteSet(PlacesOf(h))
  BY <1>1, PlacesType
<1>12. Cardinality(PlacesOf(h) \cup P) = Cardinality(PlacesOf(h)) + Cardinality(P)
  BY <1>6, <1>10, <1>11, CardDisjoint
<1> QED
  BY <1>7, <1>10, <1>12 DEF m

LEMMA RoomAppended ==
  ASSUME NEW h, NEW g, NEW c \in Obj, NEW s \in Seq(Obj), Appended(h, g, c, s)
  PROVE  /\ \A n \in Nat : Room(g, n) <=> Room(h, n + Len(s))
         /\ Room(h, Len(s)) => Room(g, 0)
         /\ Room(g, 0) => Room(h, 0)
<1>1. Cardinality(PlacesOf(g)) = Cardinality(PlacesOf(h)) + Len(s)
  BY PlacesAppended
<1>2. Cardinality(PlacesOf(g)) \in Nat /\ Cardinality(PlacesOf(h)) \in Nat /\ MaxElems \in Nat
  BY PlacesType DEF Appended
<1>3. Len(s) \in Nat
  BY LenProperties
<1> QED
  BY <1>1, <1>2, <1>3 DEF Room

(***************************************************************************)
(* References outside of containers.                                       *)
(***************************************************************************)
LEMMA OwnedType ==
  ASSUME NEW f \in FrameType
  PROVE  /\ Owned(f) \in Seq(Obj)
         /\ \A o \in Obj : Count(Owned(f), o) =
              (IF f.owned THEN Count(f.vals, o) ELSE 0)
                + (IF f.new /\ f.obj = o THEN 1 ELSE 0)
<1> DEFINE s == IF f.owned THEN f.vals ELSE <<>>
           t == IF f.new THEN <<f.obj>> ELSE <<>>
<1>1. f.vals \in Seq(Obj) /\ f.obj \in Obj /\ f.owned \in BOOLEAN /\ f.new \in BOOLEAN
  BY DEF FrameType
<1>2. s \in Seq(Obj) /\ t \in Seq(Obj)
  BY <1>1
<1>3. \A o \in Obj : Count(s, o) = IF f.owned THEN Count(f.vals, o) ELSE 0
  BY CountEmpty
<1>4. \A o \in Obj : Count(t, o) = IF f.new /\ f.obj = o THEN 1 ELSE 0
  BY <1>1, CountEmpty, CountOne
<1>5. Owned(f) = s \o t
  BY DEF Owned
<1> HIDE DEF s, t
<1>6. Owned(f) \in Seq(Obj) /\ \A o \in Obj : Count(Owned(f), o) = Count(s, o) + Count(t, o)
  BY <1>2, <1>5, CountConcat
<1> QED
  BY <1>3, <1>4, <1>6

LEMMA RootsType ==
  ASSUME NEW hl \in [Obj -> Nat], NEW st \in Seq(FrameType)
  PROVE  /\ Roots(hl, st) \in [Obj -> Nat]
         /\ \A o \in Obj : Claims(st, o) \in Nat /\ Roots(hl, st)[o] = hl[o] + Claims(st, o)
<1>1. \A o \in Obj : Claims(st, o) \in Nat
  <2>1. TAKE o \in Obj
  <2>2. CASE st = <<>>
    BY <2>2 DEF Claims
  <2>3. CASE st # <<>>
    <3>1. 1 \in DOMAIN st
      BY <2>3, EmptySeq, LenProperties
    <3>2. Owned(st[1]) \in Seq(Obj)
      BY <3>1, FrameFields, OwnedType
    <3> QED
      BY <2>3, <3>2, CountType DEF Claims
  <2> QED
    BY <2>2, <2>3
<1> QED
  BY <1>1 DEF Roots

\* Calls with the same bottom have the same references.
LEMMA RootsSame ==
  ASSUME NEW hl, NEW st, NEW tt, st # <<>>, tt # <<>>, Owned(tt[1]) = Owned(st[1])
  PROVE  Roots(hl, tt) = Roots(hl, st)
BY DEF Roots, Claims

\* No call, or a deleter alone, has none.
LEMMA RootsNone ==
  ASSUME NEW hl \in [Obj -> Nat]
  PROVE  /\ Roots(hl, <<>>) = hl
         /\ \A st : st # <<>> /\ ~st[1].owned /\ ~st[1].new => Roots(hl, st) = hl
<1>1. \A o \in Obj : hl[o] + 0 = hl[o]
  OBVIOUS
<1>2. [o \in Obj |-> hl[o] + 0] = hl
  BY <1>1
<1>3. Roots(hl, <<>>) = hl
  BY <1>2 DEF Roots, Claims
<1>4. ASSUME NEW st, st # <<>>, ~st[1].owned, ~st[1].new
      PROVE  Roots(hl, st) = hl
  <2>1. Owned(st[1]) = <<>>
    BY <1>4 DEF Owned
  <2>2. \A o \in Obj : Claims(st, o) = 0
    BY <1>4, <2>1, CountEmpty DEF Claims
  <2> QED
    BY <1>2, <2>2 DEF Roots
<1> QED
  BY <1>3, <1>4

(***************************************************************************)
(* Between calls.                                                          *)
(***************************************************************************)
LEMMA BoundedRoom ==
  /\ \A n : Bounded(n) <=> Room(heap, n)
  /\ \A n : Bounded(n)' <=> Room(heap', n)
BY DEF Bounded, Places, Room, PlacesOf

LEMMA Idle ==
  ASSUME IInv, stack = <<>>
  PROVE  /\ held \in [Obj -> 0..MaxHeld] /\ held \in [Obj -> Nat]
         /\ heap \in [Obj -> Object]
         /\ Sound(heap, <<>>, held) /\ Room(heap, 0)
         /\ \A o \in Obj : held[o] > 0 => heap[o].refc > 0
<1>1. held \in [Obj -> 0..MaxHeld] /\ MaxHeld \in Nat
  BY PlacesType, BoundsAssumption DEF IInv
<1>2. held \in [Obj -> Nat]
  BY <1>1
<1>3. Roots(held, stack) = held
  BY <1>2, RootsNone
<1>4. Sound(heap, <<>>, held)
  BY <1>3 DEF IInv
<1>5. Room(heap, 0)
  BY BoundedRoom DEF IInv, RoomOK
<1>6. ASSUME NEW o \in Obj, held[o] > 0
      PROVE  heap[o].refc > 0
  <2>1. held[o] \in Nat /\ heap[o].refc \in Nat /\ held[o] <= heap[o].refc
    BY <1>4, SoundObject
  <2> QED
    BY <1>6, <2>1
<1> QED
  BY <1>1, <1>2, <1>4, <1>5, <1>6 DEF Sound

LEMMA IdleNext ==
  ASSUME held' \in [Obj -> 0..MaxHeld], Sound(heap', <<>>, held'),
         stack' = <<>>, Room(heap', 0)
  PROVE  IInv'
<1>1. held' \in [Obj -> Nat]
  BY BoundsAssumption
<1>2. Roots(held', stack') = held'
  BY <1>1, RootsNone
<1>3. Sound(heap', stack', Roots(held', stack'))
  BY <1>2
<1>4. CallOK(heap, held, stack)'
  BY DEF CallOK
<1>5. RoomOK'
  BY BoundedRoom DEF RoomOK, In, Calling
<1> QED
  BY <1>3, <1>4, <1>5 DEF IInv

\* What the client passes.
LEMMA Passed ==
  ASSUME held \in [Obj -> 0..MaxHeld], NEW s \in Args
  PROVE  /\ s \in Seq(Obj) /\ Len(s) \in Nat
         /\ \A x \in DOMAIN s : s[x] \in Obj /\ held[s[x]] > 0
         /\ \A o \in Obj : Count(s, o) \in Nat
<1>1. PICK n \in 0..MaxArgs : s \in [1..n -> Held]
  BY DEF Args
<1>2. s \in Seq(Obj) /\ \A x \in DOMAIN s : s[x] \in Obj /\ held[s[x]] > 0
  BY <1>1, BoundsAssumption DEF Held
<1> QED
  BY <1>2, CountType, LenProperties

LEMMA FreePlace ==
  ASSUME NEW h, NEW st, NEW r, Sound(h, st, r), NEW o \in Obj, h[o].type = "none"
  PROVE  r[o] = 0 /\ h[o] = NoObject
<1>1. r[o] \in Nat /\ r[o] <= h[o].refc /\ h[o] = NoObject /\ h[o].refc = 0
  BY SoundObject
<1> QED
  BY <1>1

\* A container is made, of references from outside.
Created(h, o, type, s, cap) == [h EXCEPT ![o] = New(type, s, cap)]

LEMMA CreatedSound ==
  ASSUME NEW h, NEW r, Sound(h, <<>>, r), NEW d \in Obj, h[d].type = "none",
         NEW type \in Kinds \ {"none"}, NEW cap \in Nat, NEW s \in Seq(Obj),
         \A o \in Obj : Count(s, o) <= r[o], Room(h, Len(s))
  PROVE  /\ Sound(Created(h, d, type, s, cap), <<>>, Minus(More(r, d), s))
         /\ Room(Created(h, d, type, s, cap), 0)
<1> DEFINE m == Made(h, d, type, cap)
           g == Created(h, d, type, s, cap)
           q == More(r, d)
           new == New(type, s, cap)
           nil == New(type, <<>>, cap)
<1>1. h \in [Obj -> Object] /\ r \in [Obj -> Nat]
  BY DEF Sound
<1>2. Sound(m, <<>>, q)
  BY MakeSound
<1>3. /\ new \in Object /\ new.els = s /\ new.type = type /\ new.refc = 1
      /\ nil \in Object /\ nil.els = <<>> /\ nil.type = type /\ nil.refc = 1
  BY EmptySeq DEF New, Object
<1> HIDE DEF new, nil
<1>4. /\ m \in [Obj -> Object] /\ m[d] = nil /\ \A o \in Obj : o # d => m[o] = h[o]
      /\ g \in [Obj -> Object] /\ g[d] = new /\ \A o \in Obj : o # d => g[o] = h[o]
  BY <1>1, <1>3 DEF Made, Created, new, nil
<1>5. \A o \in Obj : q[o] = IF o = d THEN r[o] + 1 ELSE r[o]
  BY <1>1 DEF More
<1>6. q \in [Obj -> Nat]
  BY <1>2 DEF Sound
<1> HIDE DEF m, g, q
<1>7. <<>> \o s = s
  BY ConcatEmptySeq
<1>8. Appended(m, g, d, s)
  BY <1>3, <1>4, <1>7 DEF Appended
<1>9. Whole(<<>>, d)
  BY DEF Whole, GivenBack
<1>10. m[d].refc > 0
  BY <1>3, <1>4
<1>11. \A o \in Obj : Count(s, o) <= q[o]
  <2>1. TAKE o \in Obj
  <2>2. Count(s, o) \in Nat /\ r[o] \in Nat /\ Count(s, o) <= r[o]
    BY <1>1, CountType
  <2> QED
    BY <1>5, <2>2
<1>12. Sound(g, <<>>, Minus(q, s))
  BY <1>2, <1>8, <1>9, <1>10, <1>11, AppendSound
<1>13. \A c \in Obj : DOMAIN m[c].els = DOMAIN h[c].els
  <2>1. h[d].els = <<>>
    BY FreePlace DEF NoObject
  <2> QED
    BY <1>3, <1>4, <2>1
<1>14. Room(m, Len(s))
  BY <1>13, PlacesSame
<1>15. Room(g, 0)
  BY <1>8, <1>14, RoomAppended
<1> QED
  BY <1>12, <1>15 DEF g, q

\* The counts of increments and a container that takes them cancel out.
LEMMA TakenBack ==
  ASSUME NEW r \in [Obj -> Nat], NEW d \in Obj, NEW s \in Seq(Obj)
  PROVE  /\ Plus(r, s) \in [Obj -> Nat]
         /\ \A o \in Obj : Plus(r, s)[o] = r[o] + Count(s, o) /\ Count(s, o) <= Plus(r, s)[o]
         /\ Minus(Plus(r, s), s) = r
         /\ Minus(More(Plus(r, s), d), s) = More(r, d)
<1>1. \A o \in Obj : Count(s, o) \in Nat /\ r[o] \in Nat
  BY CountType
<1>2. Plus(r, s) \in [Obj -> Nat] /\ \A o \in Obj : Plus(r, s)[o] = r[o] + Count(s, o)
  BY <1>1 DEF Plus
<1>3. \A o \in Obj : Plus(r, s)[o] - Count(s, o) = r[o] /\ Count(s, o) <= Plus(r, s)[o]
  BY <1>1, <1>2
<1>4. Minus(Plus(r, s), s) = r
  BY <1>3 DEF Minus
<1>5. More(Plus(r, s), d) = [o \in Obj |-> IF o = d THEN Plus(r, s)[o] + 1 ELSE Plus(r, s)[o]]
  BY <1>2 DEF More
<1>6. \A o \in Obj : (IF o = d THEN Plus(r, s)[o] + 1 ELSE Plus(r, s)[o]) - Count(s, o)
                       = IF o = d THEN r[o] + 1 ELSE r[o]
  BY <1>1, <1>2
<1>7. More(r, d) = [o \in Obj |-> IF o = d THEN r[o] + 1 ELSE r[o]]
  BY DEF More
<1>8. Minus(More(Plus(r, s), d), s) = More(r, d)
  BY <1>5, <1>6, <1>7 DEF Minus
<1> QED
  BY <1>2, <1>3, <1>4, <1>8

\* KOBJ_INCREF changes counts alone.
LEMMA IncrefsFields ==
  ASSUME NEW h \in [Obj -> Object], NEW s \in Seq(Obj)
  PROVE  /\ Increfs(h, s) \in [Obj -> Object]
         /\ \A o \in Obj :
              /\ Increfs(h, s)[o].els = h[o].els
              /\ Increfs(h, s)[o].type = h[o].type
              /\ Increfs(h, s)[o].refc = h[o].refc + Count(s, o)
              /\ h[o].refc > 0 => Increfs(h, s)[o].refc > 0
         /\ \A n : Room(Increfs(h, s), n) <=> Room(h, n)
<1> DEFINE g == Increfs(h, s)
<1>1. \A o \in Obj :
        /\ g[o] \in Object
        /\ g[o].els = h[o].els /\ g[o].type = h[o].type
        /\ g[o].refc = h[o].refc + Count(s, o)
        /\ h[o].refc > 0 => g[o].refc > 0
  <2>1. TAKE o \in Obj
  <2> DEFINE n == h[o].refc + Count(s, o)
  <2>2. h[o] \in Object /\ h[o].refc \in Nat /\ Count(s, o) \in Nat
    BY CountType, ObjectType
  <2>3. n \in Nat /\ (h[o].refc > 0 => n > 0)
    BY <2>2
  <2>4. g[o] = [h[o] EXCEPT !.refc = n]
    BY DEF Increfs
  <2> HIDE DEF g, n
  <2>5. g[o] \in Object /\ g[o].els = h[o].els /\ g[o].type = h[o].type /\ g[o].refc = n
    BY <2>2, <2>3, <2>4, RecountedObject
  <2> QED
    BY <2>3, <2>5 DEF n
<1>2. DOMAIN g = Obj /\ g = [o \in Obj |-> g[o]]
  BY DEF Increfs
<1> HIDE DEF g
<1>3. g \in [Obj -> Object]
  BY <1>1, <1>2
<1>4. \A n : Room(g, n) <=> Room(h, n)
  BY <1>1, PlacesSame
<1> QED
  BY <1>1, <1>3, <1>4 DEF g

LEMMA GrownType ==
  ASSUME NEW cap \in Nat, NEW len \in Nat
  PROVE  Grown(cap, len) \in Nat
BY DEF Grown, kmem_nextcap, Pointer

\* The client takes one reference more.
LEMMA TakeType ==
  ASSUME held \in [Obj -> 0..MaxHeld], NEW o \in Obj, held[o] < MaxHeld
  PROVE  Take(o) = More(held, o) /\ More(held, o) \in [Obj -> 0..MaxHeld]
<1>1. held[o] \in 0..MaxHeld /\ MaxHeld \in Nat
  BY BoundsAssumption
<1>2. held[o] + 1 \in 0..MaxHeld
  BY <1>1
<1> QED
  BY <1>2 DEF Take, More

LEMMA FreeObject ==
  ASSUME IInv, stack = <<>>, NEW o \in Free
  PROVE  o \in Obj /\ heap[o].type = "none" /\ held[o] = 0 /\ held[o] < MaxHeld
<1>1. o \in Obj /\ heap[o].type = "none"
  BY DEF Free, Live
<1>2. held[o] = 0
  BY <1>1, Idle, FreePlace
<1>3. MaxHeld \in Nat /\ MaxHeld > 0
  BY BoundsAssumption
<1> QED
  BY <1>1, <1>2, <1>3

(***************************************************************************)
(* The client's actions that are over in one step.                         *)
(***************************************************************************)
LEMMA MakeStep ==
  ASSUME IInv, stack = <<>>, NEW o \in Obj, Make(o)
  PROVE  IInv'
<1>1. o \in Free /\ stack' = <<>>
  BY DEF Make
<1>2. o \in Obj /\ heap[o].type = "none" /\ held[o] < MaxHeld
  BY <1>1, FreeObject
<1>3. held \in [Obj -> 0..MaxHeld] /\ Sound(heap, <<>>, held) /\ Room(heap, 0) /\ heap \in [Obj -> Object]
  BY Idle
<1>4. held' = More(held, o) /\ held' \in [Obj -> 0..MaxHeld]
  BY <1>2, <1>3, TakeType DEF Make
<1>5. heap' = Made(heap, o, "leaf", 0)
  BY DEF Make, Made
<1>6. "leaf" \in Kinds \ {"none"} /\ 0 \in Nat
  BY DEF Kinds
<1>7. Sound(heap', <<>>, held')
  BY <1>2, <1>3, <1>4, <1>5, <1>6, MakeSound
<1>8. heap[o].els = <<>>
  BY <1>2, <1>3, FreePlace DEF NoObject
<1>9. \A c \in Obj : DOMAIN heap'[c].els = DOMAIN heap[c].els
  BY <1>2, <1>3, <1>5, <1>8 DEF Made, New
<1>10. Room(heap', 0)
  BY <1>3, <1>9, PlacesSame
<1> QED
  BY <1>1, <1>4, <1>7, <1>10, IdleNext

LEMMA NewRefStep ==
  ASSUME IInv, stack = <<>>, NEW o \in Obj, NewRef(o)
  PROVE  IInv'
<1>1. /\ held \in [Obj -> 0..MaxHeld] /\ Sound(heap, <<>>, held) /\ Room(heap, 0)
      /\ heap \in [Obj -> Object] /\ held \in [Obj -> Nat]
      /\ \A c \in Obj : held[c] > 0 => heap[c].refc > 0
  BY Idle
<1>2. held' = More(held, o) /\ held' \in [Obj -> 0..MaxHeld] /\ stack' = <<>>
  BY <1>1, TakeType DEF NewRef
<1>3. heap' = Raised(heap, o)
  BY DEF NewRef, Raised
<1>4. heap[o].refc > 0
  <2>1. CASE o \in Held
    BY <1>1, <2>1 DEF Held
  <2>2. CASE o \notin Held
    <3>1. PICK c \in Held : \E x \in DOMAIN heap[c].els : heap[c].els[x] = o
      BY <2>2 DEF NewRef
    <3>2. PICK x \in DOMAIN heap[c].els : heap[c].els[x] = o
      BY <3>1
    <3>3. c \in Obj /\ x \in Nat
      BY <1>1, ObjectType, <3>2 DEF Held
    <3>4. <<c, x>> \in KeptIn(heap, <<>>, o)
      BY <3>2, <3>3 DEF KeptIn, GivenBack
    <3>5. Cardinality(KeptIn(heap, <<>>, o)) \in Nat /\ Cardinality(KeptIn(heap, <<>>, o)) > 0
      BY <1>1, <3>4, KeptFinite
    <3>6. held[o] \in Nat /\ heap[o].refc = held[o] + Cardinality(KeptIn(heap, <<>>, o))
      BY <1>1, SoundObject
    <3> QED
      BY <3>5, <3>6
  <2> QED
    BY <2>1, <2>2
<1>5. Sound(heap', <<>>, held')
  BY <1>1, <1>2, <1>3, <1>4, RaiseSound
<1>6. \A c \in Obj : DOMAIN heap'[c].els = DOMAIN heap[c].els
  BY <1>1, <1>3, ObjectType DEF Raised, Object
<1>7. Room(heap', 0)
  BY <1>1, <1>6, PlacesSame
<1> QED
  BY <1>2, <1>5, <1>7, IdleNext

\* A container is made of references the client keeps.
LEMMA NewStep ==
  ASSUME IInv, stack = <<>>, NEW o \in Free, NEW type \in Kinds \ {"none"}, NEW cap \in Nat,
         NEW s \in Seq(Obj), \A x \in DOMAIN s : held[s[x]] > 0,
         Bounded(Len(s)),
         heap' = Created(Increfs(heap, s), o, type, s, cap),
         held' = Take(o), stack' = <<>>
  PROVE  IInv'
<1> DEFINE h == Increfs(heap, s)
           r == Plus(held, s)
<1>1. /\ held \in [Obj -> 0..MaxHeld] /\ held \in [Obj -> Nat]
      /\ heap \in [Obj -> Object] /\ Sound(heap, <<>>, held)
      /\ \A c \in Obj : held[c] > 0 => heap[c].refc > 0
  BY Idle
<1>2. o \in Obj /\ heap[o].type = "none" /\ held[o] < MaxHeld
  BY FreeObject
<1>3. \A x \in DOMAIN s : s[x] \in Obj
  BY ElementOfSeq, LenProperties
<1>4. \A x \in DOMAIN s : heap[s[x]].refc > 0
  BY <1>1, <1>3
<1>5. Sound(h, <<>>, r)
  BY <1>1, <1>4, IncrefsSound
<1>6. h[o].type = "none" /\ Room(h, Len(s))
  BY <1>1, <1>2, IncrefsFields, BoundedRoom
<1>7. /\ \A c \in Obj : Count(s, c) <= r[c]
      /\ Minus(More(r, o), s) = More(held, o)
  BY <1>1, <1>2, TakenBack
<1> HIDE DEF h, r
<1>8. /\ Sound(Created(h, o, type, s, cap), <<>>, Minus(More(r, o), s))
      /\ Room(Created(h, o, type, s, cap), 0)
  BY <1>2, <1>5, <1>6, <1>7, CreatedSound
<1>9. heap' = Created(h, o, type, s, cap)
  BY DEF h
<1>10. held' = More(held, o) /\ held' \in [Obj -> 0..MaxHeld]
  BY <1>1, <1>2, TakeType
<1>11. Sound(heap', <<>>, held') /\ Room(heap', 0)
  BY <1>7, <1>8, <1>9, <1>10
<1> QED
  BY <1>10, <1>11, IdleNext

\* A container is made of references the client hands over.
LEMMA NewZStep ==
  ASSUME IInv, stack = <<>>, NEW o \in Free, NEW type \in Kinds \ {"none"}, NEW cap \in Nat,
         NEW s \in Given, Bounded(Len(s)),
         heap' = Created(heap, o, type, s, cap),
         held' = [Absorb(s) EXCEPT ![o] = 1], stack' = <<>>
  PROVE  IInv'
<1>1. /\ held \in [Obj -> 0..MaxHeld] /\ held \in [Obj -> Nat]
      /\ heap \in [Obj -> Object] /\ Sound(heap, <<>>, held)
  BY Idle
<1>2. o \in Obj /\ heap[o].type = "none" /\ held[o] = 0 /\ MaxHeld \in Nat /\ MaxHeld > 0
  BY FreeObject, BoundsAssumption
<1>3. /\ s \in Seq(Obj) /\ \A c \in Obj : Count(s, c) <= held[c]
      /\ \A c \in Obj : Count(s, c) \in Nat
  BY <1>1, Passed DEF Given
<1>4. Room(heap, Len(s))
  BY BoundedRoom
<1>5. /\ Sound(heap', <<>>, Minus(More(held, o), s)) /\ Room(heap', 0)
  BY <1>1, <1>2, <1>3, <1>4, CreatedSound
<1>6. ASSUME NEW c \in Obj
      PROVE  /\ (IF c = o THEN held[o] + 1 ELSE held[c]) - Count(s, c)
                  = IF c = o THEN 1 ELSE held[c] - Count(s, c)
             /\ (IF c = o THEN 1 ELSE held[c] - Count(s, c)) \in 0..MaxHeld
  <2>1. Count(s, c) \in Nat /\ Count(s, c) <= held[c] /\ held[c] \in 0..MaxHeld
    BY <1>1, <1>3
  <2> QED
    BY <1>2, <2>1
<1>7. held' = [c \in Obj |-> IF c = o THEN 1 ELSE held[c] - Count(s, c)]
  BY <1>2 DEF Absorb
<1>8. More(held, o) = [c \in Obj |-> IF c = o THEN held[o] + 1 ELSE held[c]]
  BY <1>1 DEF More
<1>9. held' = Minus(More(held, o), s) /\ held' \in [Obj -> 0..MaxHeld]
  BY <1>6, <1>7, <1>8 DEF Minus
<1> QED
  BY <1>5, <1>9, IdleNext

LEMMA TupleNewStep ==
  ASSUME IInv, stack = <<>>, NEW o \in Obj, NEW s \in Args, TupleNew(o, s)
  PROVE  IInv'
<1>1. o \in Free /\ Bounded(Len(s)) /\ held' = Take(o) /\ stack' = <<>>
  BY DEF TupleNew, MayMake
<1>2. heap' = Created(Increfs(heap, s), o, "tuple", s, 0)
  BY DEF TupleNew, Created
<1>3. s \in Seq(Obj) /\ \A x \in DOMAIN s : held[s[x]] > 0
  BY Passed DEF IInv
<1>4. "tuple" \in Kinds \ {"none"} /\ 0 \in Nat
  BY DEF Kinds
<1> QED
  BY <1>1, <1>2, <1>3, <1>4, NewStep

LEMMA TupleNewZStep ==
  ASSUME IInv, stack = <<>>, NEW o \in Obj, NEW s \in Args, TupleNewZ(o, s)
  PROVE  IInv'
<1>1. /\ o \in Free /\ Bounded(Len(s)) /\ s \in Given
      /\ held' = [Absorb(s) EXCEPT ![o] = 1] /\ stack' = <<>>
  BY DEF TupleNewZ, MayMake
<1>2. heap' = Created(heap, o, "tuple", s, 0)
  BY DEF TupleNewZ, Created
<1>3. "tuple" \in Kinds \ {"none"} /\ 0 \in Nat
  BY DEF Kinds
<1> QED
  BY <1>1, <1>2, <1>3, NewZStep

LEMMA ListNewStep ==
  ASSUME IInv, stack = <<>>, NEW o \in Obj, NEW s \in Args, ListNew(o, s)
  PROVE  IInv'
<1> DEFINE t == s \o s
           cap == Grown(0, Len(s))
<1>1. /\ s \in Seq(Obj) /\ Len(s) \in Nat /\ DOMAIN s = 1..Len(s)
      /\ \A x \in DOMAIN s : held[s[x]] > 0
  BY Passed, LenProperties DEF IInv
<1>2. /\ t \in Seq(Obj) /\ Len(t) = Len(s) + Len(s) /\ DOMAIN t = 1..Len(t)
      /\ \A x \in 1..(Len(s) + Len(s)) : t[x] = IF x <= Len(s) THEN s[x] ELSE s[x - Len(s)]
  BY <1>1, ConcatProperties, LenProperties
<1>3. Len(t) = 2 * Len(s)
  BY <1>1, <1>2
<1>4. /\ o \in Free /\ Bounded(2 * Len(s)) /\ held' = Take(o) /\ stack' = <<>>
      /\ heap' = Created(Increfs(heap, t), o, "list", t, cap)
  BY DEF ListNew, MayMake, Created
<1>5. cap \in Nat
  BY <1>1, GrownType
<1> HIDE DEF t, cap
<1>6. \A x \in DOMAIN t : held[t[x]] > 0
  <2>1. TAKE x \in DOMAIN t
  <2>2. CASE x <= Len(s)
    BY <1>1, <1>2, <2>2
  <2>3. CASE ~(x <= Len(s))
    <3>1. x - Len(s) \in DOMAIN s /\ t[x] = s[x - Len(s)]
      BY <1>1, <1>2, <2>3
    <3> QED
      BY <1>1, <3>1
  <2> QED
    BY <2>2, <2>3
<1>7. "list" \in Kinds \ {"none"}
  BY DEF Kinds
<1>8. Bounded(Len(t))
  BY <1>3, <1>4
<1> QED
  BY <1>2, <1>4, <1>5, <1>6, <1>7, <1>8, NewStep

LEMMA ListNewZStep ==
  ASSUME IInv, stack = <<>>, NEW o \in Obj, NEW s \in Args, ListNewZ(o, s)
  PROVE  IInv'
<1>1. /\ o \in Free /\ Bounded(Len(s)) /\ s \in Given
      /\ held' = [Absorb(s) EXCEPT ![o] = 1] /\ stack' = <<>>
  BY DEF ListNewZ, MayMake
<1>2. heap' = Created(heap, o, "list", s, Grown(0, Len(s)))
  BY DEF ListNewZ, Created
<1>3. "list" \in Kinds \ {"none"} /\ Grown(0, Len(s)) \in Nat
  BY Passed, GrownType DEF Kinds, IInv
<1> QED
  BY <1>1, <1>2, <1>3, NewZStep

\* What a push makes of the list.
LEMMA PushedAppended ==
  ASSUME NEW h \in [Obj -> Object], NEW l \in Obj, NEW s \in Seq(Obj)
  PROVE  Appended(h, Pushed(h, l, s), l, s)
<1> DEFINE n == Grown(h[l].cap, Len(h[l].els) + Len(s))
           t == h[l].els \o s
           y == [h[l] EXCEPT !.els = t, !.cap = n]
           g == Pushed(h, l, s)
<1>1. /\ h[l] \in Object /\ h[l].els \in Seq(Obj) /\ h[l].cap \in Nat
      /\ Len(h[l].els) \in Nat /\ Len(s) \in Nat
  BY ObjectType, LenProperties
<1>2. t \in Seq(Obj) /\ n \in Nat
  <2>1. Len(h[l].els) + Len(s) \in Nat
    BY <1>1
  <2> QED
    BY <1>1, <2>1, ConcatProperties, GrownType
<1>3. g = [h EXCEPT ![l] = y]
  BY DEF Pushed
<1> HIDE DEF t, n, g
<1>4. y \in Object /\ y.type = h[l].type /\ y.refc = h[l].refc /\ y.els = t
  BY <1>1, <1>2 DEF Object
<1> HIDE DEF y
<1>5. g \in [Obj -> Object] /\ g[l] = y /\ \A o \in Obj : o # l => g[o] = h[o]
  BY <1>3, <1>4
<1> QED
  BY <1>4, <1>5 DEF Appended, g, t

LEMMA ListPushXStep ==
  ASSUME IInv, stack = <<>>, NEW l \in Obj, NEW s \in Args, ListPushX(l, s)
  PROVE  IInv'
<1> DEFINE h == Increfs(heap, s)
           r == Plus(held, s)
<1>1. /\ held \in [Obj -> 0..MaxHeld] /\ held \in [Obj -> Nat]
      /\ heap \in [Obj -> Object] /\ Sound(heap, <<>>, held)
      /\ \A c \in Obj : held[c] > 0 => heap[c].refc > 0
  BY Idle
<1>2. /\ s \in Seq(Obj) /\ \A x \in DOMAIN s : s[x] \in Obj /\ held[s[x]] > 0
  BY <1>1, Passed
<1>3. held[l] > 0 /\ Room(heap, Len(s)) /\ held' = held /\ stack' = <<>>
  BY BoundedRoom DEF ListPushX, List, Held
<1>4. Sound(h, <<>>, r)
  BY <1>1, <1>2, IncrefsSound
<1>5. h \in [Obj -> Object] /\ h[l].refc > 0 /\ Room(h, Len(s))
  BY <1>1, <1>2, <1>3, IncrefsFields
<1>6. Minus(r, s) = held /\ \A c \in Obj : Count(s, c) <= r[c]
  BY <1>1, <1>2, TakenBack
<1>7. heap' = Pushed(h, l, s)
  BY DEF ListPushX
<1> HIDE DEF h, r
<1>8. Appended(h, heap', l, s)
  BY <1>2, <1>5, <1>7, PushedAppended
<1>9. Whole(<<>>, l)
  BY DEF Whole, GivenBack
<1>10. Sound(heap', <<>>, Minus(r, s))
  BY <1>2, <1>4, <1>5, <1>6, <1>8, <1>9, AppendSound
<1>11. Room(heap', 0)
  BY <1>2, <1>5, <1>8, RoomAppended
<1> QED
  BY <1>1, <1>3, <1>6, <1>10, <1>11, IdleNext

LEMMA ListPushZStep ==
  ASSUME IInv, stack = <<>>, NEW l \in Obj, NEW s \in Args, ListPushZ(l, s)
  PROVE  IInv'
<1>1. /\ held \in [Obj -> 0..MaxHeld] /\ held \in [Obj -> Nat]
      /\ heap \in [Obj -> Object] /\ Sound(heap, <<>>, held)
      /\ \A c \in Obj : held[c] > 0 => heap[c].refc > 0
  BY Idle
<1>2. /\ s \in Seq(Obj) /\ \A c \in Obj : Count(s, c) \in Nat
  BY <1>1, Passed
<1>3. /\ heap[l].refc > 0 /\ Room(heap, Len(s)) /\ stack' = <<>>
      /\ \A c \in Obj : Count(s, c) <= held[c]
  BY <1>1, BoundedRoom DEF ListPushZ, List, Held, Given
<1>4. heap' = Pushed(heap, l, s) /\ held' = Minus(held, s)
  BY DEF ListPushZ, Absorb, Minus
<1>5. Appended(heap, heap', l, s)
  BY <1>1, <1>2, <1>4, PushedAppended
<1>6. Whole(<<>>, l)
  BY DEF Whole, GivenBack
<1>7. Sound(heap', <<>>, held')
  BY <1>1, <1>2, <1>3, <1>4, <1>5, <1>6, AppendSound
<1>8. Room(heap', 0)
  BY <1>2, <1>3, <1>5, RoomAppended
<1>9. held' \in [Obj -> 0..MaxHeld]
  <2>1. \A c \in Obj : held[c] - Count(s, c) \in 0..MaxHeld
    BY <1>1, <1>2, <1>3, BoundsAssumption
  <2> QED
    BY <1>4, <2>1 DEF Minus
<1> QED
  BY <1>3, <1>7, <1>8, <1>9, IdleNext

\* What a pop makes of the list.
LEMMA ShortenedAppended ==
  ASSUME heap \in [Obj -> Object], NEW l \in Obj, heap[l].els # <<>>
  PROVE  LastOf(l) \in Obj /\ Appended(Shortened(l), heap, l, <<LastOf(l)>>)
<1> DEFINE s == heap[l].els
           n == Len(s)
           t == SubSeq(s, 1, n - 1)
           e == s[n]
           y == [heap[l] EXCEPT !.els = t]
           g == Shortened(l)
<1>1. heap[l] \in Object /\ s \in Seq(Obj) /\ n \in Nat \ {0}
  BY ObjectType, EmptySeq, LenProperties
<1>2. e \in Obj /\ \A x \in 1..(n - 1) : s[x] \in Obj
  BY <1>1, ElementOfSeq
<1>3. g = [heap EXCEPT ![l] = y] /\ LastOf(l) = e
  BY DEF Shortened, LastOf
<1> HIDE DEF n
<1>4. /\ t \in Seq(Obj) /\ Len(t) = IF 1 <= n - 1 THEN n - 1 - 1 + 1 ELSE 0
      /\ \A x \in 1..(n - 1 - 1 + 1) : t[x] = s[1 + x - 1]
  <2>1. 1 \in Int /\ n - 1 \in Int
    BY <1>1
  <2> QED
    BY <1>2, <2>1, SubSeqProperties
<1> HIDE DEF t, g, e
<1>5. y \in Object /\ y.type = heap[l].type /\ y.refc = heap[l].refc /\ y.els = t
  BY <1>1, <1>4 DEF Object
<1> HIDE DEF y
<1>6. g \in [Obj -> Object] /\ g[l] = y /\ \A o \in Obj : o # l => g[o] = heap[o]
  BY <1>3, <1>5
<1>7. Len(t) = n - 1 /\ n - 1 - 1 + 1 = n - 1
  BY <1>1, <1>4
<1>8. \A x \in 1..(n - 1) : t[x] = s[x]
  <2>1. TAKE x \in 1..(n - 1)
  <2>2. 1 + x - 1 = x
    BY <1>1
  <2> QED
    BY <1>4, <1>7, <2>2
<1>9. s = t \o <<e>>
  <2> DEFINE u == t \o <<e>>
  <2>1. <<e>> \in Seq(Obj) /\ Len(<<e>>) = 1 /\ <<e>>[1] = e
    BY <1>2
  <2>2. /\ u \in Seq(Obj) /\ Len(u) = Len(t) + 1
        /\ \A x \in 1..(Len(t) + 1) : u[x] = IF x <= Len(t) THEN t[x] ELSE <<e>>[x - Len(t)]
    BY <1>4, <2>1, ConcatProperties
  <2> HIDE DEF u
  <2>3. Len(u) = Len(s) /\ Len(s) = n
    BY <1>1, <1>7, <2>2 DEF n
  <2>4. ASSUME NEW x \in 1..Len(u)
        PROVE  u[x] = s[x]
    <3>1. CASE x = n
      <4>1. ~(x <= Len(t)) /\ x - Len(t) = 1 /\ x \in 1..(Len(t) + 1)
        BY <1>1, <1>7, <3>1
      <4> QED
        BY <2>1, <2>2, <3>1, <4>1 DEF e
    <3>2. CASE x # n
      <4>1. x \in 1..(n - 1) /\ x <= Len(t) /\ x \in 1..(Len(t) + 1)
        BY <1>1, <1>7, <2>3, <2>4, <3>2
      <4> QED
        BY <1>8, <2>2, <4>1
    <3> QED
      BY <3>1, <3>2
  <2>5. u = s
    BY <1>1, <2>2, <2>3, <2>4, SeqEqual
  <2> QED
    BY <2>5 DEF u
<1>10. Appended(g, heap, l, <<e>>)
  BY <1>5, <1>6, <1>9 DEF Appended
<1> QED
  BY <1>2, <1>3, <1>10 DEF g

\* A list without its last element, which nobody has taken yet.
LEMMA ShortenedSound ==
  ASSUME IInv, stack = <<>>, NEW l \in Obj, List(l), heap[l].els # <<>>
  PROVE  /\ LastOf(l) \in Obj
         /\ Sound(Shortened(l), <<>>, More(held, LastOf(l)))
         /\ Room(Shortened(l), 0)
<1>1. /\ held \in [Obj -> Nat] /\ heap \in [Obj -> Object]
      /\ Sound(heap, <<>>, held) /\ Room(heap, 0)
      /\ heap[l].refc > 0
  BY Idle DEF List, Held
<1>2. LastOf(l) \in Obj /\ Appended(Shortened(l), heap, l, <<LastOf(l)>>)
  BY <1>1, ShortenedAppended
<1>3. <<LastOf(l)>> \in Seq(Obj)
  BY <1>2
<1>4. Whole(<<>>, l)
  BY DEF Whole, GivenBack
<1>5. Sound(Shortened(l), <<>>, Plus(held, <<LastOf(l)>>))
  BY <1>1, <1>2, <1>3, <1>4, RemoveSound
<1>6. Plus(held, <<LastOf(l)>>) = More(held, LastOf(l))
  BY <1>1, <1>2, PlusOne
<1>7. Room(Shortened(l), 0)
  BY <1>1, <1>2, <1>3, RoomAppended
<1> QED
  BY <1>2, <1>5, <1>6, <1>7

LEMMA ListPopStep ==
  ASSUME IInv, stack = <<>>, NEW l \in Obj, ListPop(l)
  PROVE  IInv'
<1>1. /\ List(l) /\ heap[l].els # <<>> /\ held[LastOf(l)] < MaxHeld
      /\ heap' = Shortened(l) /\ held' = Take(LastOf(l)) /\ stack' = <<>>
  BY DEF ListPop
<1>2. /\ LastOf(l) \in Obj
      /\ Sound(Shortened(l), <<>>, More(held, LastOf(l)))
      /\ Room(Shortened(l), 0)
  BY <1>1, ShortenedSound
<1>3. held' = More(held, LastOf(l)) /\ held' \in [Obj -> 0..MaxHeld]
  BY <1>1, <1>2, Idle, TakeType
<1> QED
  BY <1>1, <1>2, <1>3, IdleNext

LEMMA DictInsertStep ==
  ASSUME IInv, stack = <<>>, NEW d \in Obj, NEW k \in Obj, NEW v \in Obj, DictInsert(d, k, v)
  PROVE  IInv'
<1> DEFINE s == <<k, v>>
           h == Increfs(heap, s)
           r == Plus(held, s)
           y == [h[d] EXCEPT !.els = @ \o s]
<1>1. /\ held \in [Obj -> 0..MaxHeld] /\ held \in [Obj -> Nat]
      /\ heap \in [Obj -> Object] /\ Sound(heap, <<>>, held)
      /\ \A c \in Obj : held[c] > 0 => heap[c].refc > 0
  BY Idle
<1>2. s \in Seq(Obj) /\ Len(s) = 2 /\ \A x \in DOMAIN s : s[x] \in {k, v}
  OBVIOUS
<1>3. /\ held[d] > 0 /\ held[k] > 0 /\ held[v] > 0 /\ Room(heap, 2)
      /\ held' = held /\ stack' = <<>> /\ heap' = [h EXCEPT ![d] = y]
  BY BoundedRoom DEF DictInsert, Dict, Held
<1> HIDE DEF s
<1>4. Sound(h, <<>>, r)
  BY <1>1, <1>2, <1>3, IncrefsSound
<1>5. h \in [Obj -> Object] /\ h[d].refc > 0 /\ Room(h, Len(s))
  BY <1>1, <1>2, <1>3, IncrefsFields
<1>6. Minus(r, s) = held /\ \A c \in Obj : Count(s, c) <= r[c]
  BY <1>1, <1>2, TakenBack
<1> HIDE DEF h, r
<1>7. h[d] \in Object /\ h[d].els \in Seq(Obj)
  BY <1>5, ObjectType
<1>8. h[d].els \o s \in Seq(Obj)
  BY <1>2, <1>7, ConcatProperties
<1>9. y \in Object /\ y.els = h[d].els \o s /\ y.type = h[d].type /\ y.refc = h[d].refc
  BY <1>7, <1>8 DEF Object
<1> HIDE DEF y
<1>10. Appended(h, heap', d, s)
  BY <1>3, <1>5, <1>9 DEF Appended
<1>11. Whole(<<>>, d)
  BY DEF Whole, GivenBack
<1>12. Sound(heap', <<>>, Minus(r, s))
  BY <1>2, <1>4, <1>5, <1>6, <1>10, <1>11, AppendSound
<1>13. Room(heap', 0)
  BY <1>2, <1>5, <1>10, RoomAppended
<1> QED
  BY <1>1, <1>3, <1>6, <1>12, <1>13, IdleNext

(***************************************************************************)
(* The client's actions that begin a call.                                 *)
(***************************************************************************)

\* KOBJ_DECREF changes a count, and calls a deleter at most.
LEMMA DroppedFields ==
  ASSUME NEW h \in [Obj -> Object], NEW d \in Obj, h[d].refc > 0
  PROVE  /\ Dropped(h, d) \in [Obj -> Object]
         /\ \A o \in Obj :
              /\ Dropped(h, d)[o].els = h[o].els
              /\ Dropped(h, d)[o].type = h[o].type
              /\ o # d => Dropped(h, d)[o] = h[o]
         /\ \A n : Room(Dropped(h, d), n) <=> Room(h, n)
<1> DEFINE g == Dropped(h, d)
<1>1. h[d].refc - 1 \in Nat
  <2>1. h[d].refc \in Nat
    BY ObjectType
  <2> QED
    BY <2>1
<1>2. g = [h EXCEPT ![d].refc = h[d].refc - 1]
  BY DEF Dropped
<1> HIDE DEF g
<1>3. /\ g \in [Obj -> Object]
      /\ \A o \in Obj : g[o].els = h[o].els /\ g[o].type = h[o].type
      /\ \A o \in Obj : o # d => g[o] = h[o]
  BY <1>1, <1>2, Recounted
<1>4. \A n : Room(g, n) <=> Room(h, n)
  BY <1>3, PlacesSame
<1> QED
  BY <1>3, <1>4 DEF g

\* Calls tt are those of st and at most one deleter on top.
MoreCalls(st, tt) ==
  /\ tt \in Seq(FrameType) /\ Len(st) \in Nat /\ DOMAIN st = 1..Len(st)
  /\ \A x \in DOMAIN st : x \in DOMAIN tt /\ tt[x] = st[x]
  /\ \A x \in DOMAIN tt : x \notin DOMAIN st =>
       /\ x = Len(st) + 1
       /\ tt[x].op = "free" /\ ~tt[x].owned /\ ~tt[x].new

LEMMA FreeingFrames ==
  ASSUME NEW h, NEW st \in Seq(FrameType), NEW d \in Obj
  PROVE  MoreCalls(st, Freeing(h, st, d))
<1> DEFINE f == Frame("free", d)
           tt == Freeing(h, st, d)
<1>1. f \in FrameType /\ f.op = "free" /\ f.obj = d /\ ~f.owned /\ ~f.new
  BY NewFrame DEF Ops, Frame
<1> HIDE DEF f
<1>2. /\ tt \in Seq(FrameType) /\ DOMAIN st = 1..Len(st) /\ Len(st) \in Nat
      /\ \A x \in DOMAIN st : x \in DOMAIN tt /\ tt[x] = st[x]
      /\ h[d].refc # 1 => tt = st
      /\ h[d].refc = 1 =>
           /\ DOMAIN tt = 1..(Len(st) + 1)
           /\ tt[Len(st) + 1] = f
  BY <1>1, AppendProperties, LenProperties DEF f, Freeing
<1> HIDE DEF tt
<1>3. \A x \in DOMAIN tt : x \in DOMAIN st \/ (x = Len(st) + 1 /\ tt[x] = f /\ h[d].refc = 1)
  BY <1>2
<1>4. \A x \in DOMAIN tt : x \notin DOMAIN st =>
         /\ x = Len(st) + 1
         /\ tt[x].op = "free" /\ ~tt[x].owned /\ ~tt[x].new
  BY <1>1, <1>3
<1> QED
  BY <1>2, <1>4 DEF tt, MoreCalls

\* Only one step of the client's call is left, or a cascade begins.
LEMMA DropNext ==
  ASSUME NEW h, NEW r, Sound(h, <<>>, r), Room(h, 0), NEW d \in Obj, r[d] > 0,
         held' \in [Obj -> 0..MaxHeld], held' = Less(r, d),
         heap' = Dropped(h, d), stack' = Freeing(h, <<>>, d)
  PROVE  IInv'
<1>1. /\ Sound(heap', stack', held') /\ h \in [Obj -> Object]
      /\ stack' \in Seq(FrameType)
  BY DropSound DEF Sound
<1>2. h[d].refc > 0
  <2>1. h[d].refc \in Nat /\ r[d] \in Nat /\ r[d] <= h[d].refc
    BY SoundObject
  <2> QED
    BY <2>1
<1>3. Room(heap', 0)
  BY <1>1, <1>2, DroppedFields
<1>4. \A x \in DOMAIN stack' :
        x = 1 /\ stack'[x].op = "free" /\ ~stack'[x].owned /\ ~stack'[x].new
  <2> DEFINE st == <<>>
  <2>1. st \in Seq(FrameType) /\ Len(st) = 0 /\ DOMAIN st = {}
    OBVIOUS
  <2> HIDE DEF st
  <2>2. MoreCalls(st, Freeing(h, st, d))
    BY <2>1, FreeingFrames
  <2>3. stack' = Freeing(h, st, d)
    BY DEF st
  <2> QED
    BY <2>1, <2>2, <2>3 DEF MoreCalls
<1>5. stack' # <<>> => 1 \in DOMAIN stack' /\ Len(stack') \in DOMAIN stack'
  BY <1>1, EmptySeq, LenProperties
<1>6. Roots(held', stack') = held'
  <2>1. held' \in [Obj -> Nat]
    BY BoundsAssumption
  <2>2. stack' = <<>> \/ (stack' # <<>> /\ ~stack'[1].owned /\ ~stack'[1].new)
    BY <1>4, <1>5
  <2> QED
    BY <2>1, <2>2, RootsNone
<1>7. CallOK(heap, held, stack)'
  BY <1>4, <1>5 DEF CallOK
<1>8. ~In("merge")'
  BY <1>4, <1>5 DEF In, Calling, Top
<1>9. RoomOK'
  BY <1>3, <1>8, BoundedRoom DEF RoomOK
<1>10. Sound(heap', stack', Roots(held', stack'))
  BY <1>1, <1>6
<1> QED
  BY <1>7, <1>9, <1>10 DEF IInv

LEMMA DecrefForm ==
  ASSUME NEW h, NEW st, NEW o, Decref(h, st, o)
  PROVE  heap' = Dropped(h, o) /\ stack' = Freeing(h, st, o)
BY DEF Decref, Dropped, Freeing

LEMMA LessMore ==
  ASSUME NEW r \in [Obj -> Nat], NEW d \in Obj
  PROVE  Less(More(r, d), d) = r /\ More(r, d)[d] > 0
<1>1. More(r, d) = [o \in Obj |-> IF o = d THEN r[o] + 1 ELSE r[o]]
  BY DEF More
<1>2. Less(More(r, d), d) = [o \in Obj |-> IF o = d THEN r[o] + 1 - 1 ELSE r[o]]
  BY <1>1 DEF Less
<1>3. \A o \in Obj : (IF o = d THEN r[o] + 1 - 1 ELSE r[o]) = r[o]
  OBVIOUS
<1>4. [o \in Obj |-> r[o]] = r
  OBVIOUS
<1>5. r[d] + 1 > 0
  OBVIOUS
<1> QED
  BY <1>1, <1>2, <1>3, <1>4, <1>5

LEMMA DropStep ==
  ASSUME IInv, stack = <<>>, NEW o \in Obj, Drop(o)
  PROVE  IInv'
<1>1. /\ held \in [Obj -> 0..MaxHeld] /\ held \in [Obj -> Nat]
      /\ Sound(heap, <<>>, held) /\ Room(heap, 0)
  BY Idle
<1>2. held[o] > 0 /\ held' = Less(held, o)
  BY DEF Drop, Held, Give, Less
<1>3. heap' = Dropped(heap, o) /\ stack' = Freeing(heap, <<>>, o)
  BY DecrefForm DEF Drop
<1>4. held' \in [Obj -> 0..MaxHeld]
  <2>1. held[o] - 1 \in 0..MaxHeld
    BY <1>1, <1>2, BoundsAssumption
  <2> QED
    BY <1>1, <1>2, <2>1 DEF Less
<1> QED
  BY <1>1, <1>2, <1>3, <1>4, DropNext

LEMMA ListPopUStep ==
  ASSUME IInv, stack = <<>>, NEW l \in Obj, ListPopU(l)
  PROVE  IInv'
<1>1. /\ List(l) /\ heap[l].els # <<>> /\ held' = held
      /\ heap' = Dropped(Shortened(l), LastOf(l))
      /\ stack' = Freeing(Shortened(l), <<>>, LastOf(l))
  BY DecrefForm DEF ListPopU
<1>2. /\ LastOf(l) \in Obj
      /\ Sound(Shortened(l), <<>>, More(held, LastOf(l)))
      /\ Room(Shortened(l), 0)
  BY <1>1, ShortenedSound
<1>3. held \in [Obj -> 0..MaxHeld] /\ held \in [Obj -> Nat]
  BY Idle
<1>4. /\ Less(More(held, LastOf(l)), LastOf(l)) = held
      /\ More(held, LastOf(l))[LastOf(l)] > 0
  BY <1>2, <1>3, LessMore
<1> QED
  BY <1>1, <1>2, <1>3, <1>4, DropNext

\* A deleter is called on top of a call that deletes.
LEMMA CallNext ==
  ASSUME NEW h, NEW st, NEW r, Sound(h, st, r), Room(h, 0),
         NEW d \in Obj, r[d] > 0,
         held' \in [Obj -> 0..MaxHeld], CallOK(h, held', st),
         st # <<>>, st[1].op \notin {"merge", "overrun"},
         Roots(held', st) = Less(r, d),
         heap' = Dropped(h, d), stack' = Freeing(h, st, d)
  PROVE  IInv'
<1>1. /\ Sound(heap', stack', Less(r, d)) /\ h \in [Obj -> Object]
      /\ st \in Seq(FrameType) /\ stack' \in Seq(FrameType)
  BY DropSound DEF Sound
<1>2. h[d].refc > 0
  <2>1. h[d].refc \in Nat /\ r[d] \in Nat /\ r[d] <= h[d].refc
    BY SoundObject
  <2> QED
    BY <2>1
<1>3. /\ Room(heap', 0)
      /\ \A o \in Obj : heap'[o].els = h[o].els /\ (o # d => heap'[o] = h[o])
  BY <1>1, <1>2, DroppedFields
<1>4. /\ Len(st) \in Nat /\ DOMAIN st = 1..Len(st)
      /\ \A x \in DOMAIN st : x \in DOMAIN stack' /\ stack'[x] = st[x]
      /\ \A x \in DOMAIN stack' : x \notin DOMAIN st =>
           /\ x = Len(st) + 1
           /\ stack'[x].op = "free" /\ ~stack'[x].owned /\ ~stack'[x].new
  <2>1. MoreCalls(st, stack')
    BY <1>1, FreeingFrames
  <2> QED
    BY <2>1 DEF MoreCalls
<1>5. Len(st) > 0 /\ 1 \in DOMAIN st
  BY <1>1, <1>4, EmptySeq, LenProperties
<1>6. stack'[1] = st[1] /\ stack' # <<>>
  BY <1>4, <1>5
<1>7. Roots(held', stack') = Less(r, d)
  BY <1>6, RootsSame
<1>8. \A x \in DOMAIN stack' : x > 1 => stack'[x].op = "free"
  <2>1. \A x \in DOMAIN st : x > 1 => st[x].op = "free"
    BY DEF CallOK
  <2> QED
    BY <1>4, <1>5, <2>1
<1>9. \A x \in DOMAIN stack' : stack'[x].op = "free" => ~stack'[x].owned /\ ~stack'[x].new
  BY <1>4 DEF CallOK
<1>10. st[1].obj \in Obj
  BY <1>1, <1>5, FrameFields
<1>11. CallOK(heap, held, stack)'
  BY <1>3, <1>6, <1>8, <1>9, <1>10 DEF CallOK
<1>12. ~In("merge")'
  <2>1. Len(stack') \in DOMAIN stack' /\ (Len(stack') = 1 \/ Len(stack') > 1)
    BY <1>1, <1>6, LastFrame
  <2> QED
    BY <1>6, <1>8, <2>1 DEF In, Calling, Top
<1>13. RoomOK'
  BY <1>3, <1>12, BoundedRoom DEF RoomOK
<1>14. Sound(heap', stack', Roots(held', stack'))
  BY <1>1, <1>7
<1> QED
  BY <1>11, <1>13, <1>14 DEF IInv

\* A call that deletes nothing is active.
LEMMA QuietNext ==
  ASSUME NEW f \in FrameType, f.op \in {"merge", "undo", "overrun"},
         stack' = <<f>>, held' \in [Obj -> 0..MaxHeld],
         NEW q, Sound(heap', <<>>, q),
         \A o \in Obj :
           q[o] = held'[o] + ((IF f.owned THEN Count(f.vals, o) ELSE 0)
                                + (IF f.new /\ f.obj = o THEN 1 ELSE 0)),
         Room(heap', 0),
         f.op = "overrun" => ~f.owned /\ ~f.new,
         f.op = "merge" =>
           /\ heap'[f.obj].refc > 0
           /\ ~f.owned => \A x \in DOMAIN f.vals : held'[f.vals[x]] > 0
           /\ Room(heap', 2 * Len(f.vals)),
         f.new => held'[f.obj] = 0
  PROVE  IInv'
<1>1. /\ stack' \in Seq(FrameType) /\ DOMAIN stack' = {1} /\ stack'[1] = f
      /\ Len(stack') = 1 /\ stack' # <<>>
  BY OneFrame
<1>2. Sound(heap', stack', q) /\ q \in [Obj -> Nat]
  BY QuietSound DEF Sound
<1>3. Roots(held', stack') = q
  <2>1. \A o \in Obj : Count(Owned(f), o) =
           (IF f.owned THEN Count(f.vals, o) ELSE 0)
             + (IF f.new /\ f.obj = o THEN 1 ELSE 0)
    BY OwnedType
  <2>2. \A o \in Obj : Claims(stack', o) = Count(Owned(f), o)
    BY <1>1 DEF Claims
  <2>3. \A o \in Obj : held'[o] + Claims(stack', o) = q[o]
    BY <2>1, <2>2
  <2>4. q = [o \in Obj |-> q[o]]
    BY <1>2
  <2> QED
    BY <2>3, <2>4 DEF Roots
<1>4. CallOK(heap, held, stack)'
  BY <1>1 DEF CallOK
<1>5. RoomOK'
  BY <1>1, BoundedRoom DEF RoomOK, In, Top
<1> QED
  BY <1>2, <1>3, <1>4, <1>5 DEF IInv

LEMMA ListOverrunStep ==
  ASSUME IInv, stack = <<>>, NEW l \in Obj, NEW s \in Args, ListOverrun(l, s)
  PROVE  IInv'
<1> DEFINE f == Frame("overrun", l)
<1>1. f \in FrameType /\ f.op = "overrun" /\ ~f.owned /\ ~f.new
  BY NewFrame DEF Ops, Frame
<1>2. /\ held \in [Obj -> 0..MaxHeld] /\ held \in [Obj -> Nat]
      /\ Sound(heap, <<>>, held) /\ Room(heap, 0)
  BY Idle
<1>3. stack' = <<f>> /\ heap' = heap /\ held' = held
  BY DEF ListOverrun
<1> HIDE DEF f
<1>4. \A o \in Obj : held[o] = held[o] + (0 + 0)
  BY <1>2
<1>5. \A o \in Obj :
        held[o] = held'[o] + ((IF f.owned THEN Count(f.vals, o) ELSE 0)
                                + (IF f.new /\ f.obj = o THEN 1 ELSE 0))
  BY <1>1, <1>3, <1>4
<1> QED
  BY <1>1, <1>2, <1>3, <1>5, QuietNext

\* The frame of a replacement.
StoreCall(d, n, s) ==
  [Frame("store", d) EXCEPT !.slot = n, !.vals = s, !.owned = TRUE]

LEMMA StoreFrame ==
  ASSUME NEW d \in Obj, NEW n \in Nat, NEW s \in Seq(Obj)
  PROVE  LET f == StoreCall(d, n, s)
         IN  /\ f \in FrameType /\ f.op = "store" /\ f.obj = d /\ f.slot = n
             /\ f.vals = s /\ f.owned /\ ~f.new
BY DEF StoreCall, Frame, FrameType, Ops

\* The value after a key.
LEMMA ValueAfter ==
  ASSUME NEW n \in Nat, n % 2 = 0, NEW x \in 1..n, x % 2 = 1
  PROVE  x + 1 \in 1..n /\ x + 1 \in Nat
OBVIOUS

LEMMA DictReplaceStep ==
  ASSUME IInv, Pairs(heap), stack = <<>>, NEW d \in Obj, NEW v \in Obj, NEW x,
         DictReplace(d, x, v)
  PROVE  IInv'
<1> DEFINE h == Increfs(heap, <<v>>)
           r == More(held, v)
           f == StoreCall(d, x + 1, <<v>>)
           e == heap[d].els[x + 1]
           st == <<f>>
<1>1. /\ held \in [Obj -> 0..MaxHeld] /\ held \in [Obj -> Nat]
      /\ heap \in [Obj -> Object] /\ Sound(heap, <<>>, held) /\ Room(heap, 0)
      /\ \A c \in Obj : held[c] > 0 => heap[c].refc > 0
  BY Idle
<1>2. /\ held[d] > 0 /\ held[v] > 0 /\ heap[d].type = "dict"
      /\ x \in DOMAIN heap[d].els /\ x % 2 = 1
      /\ heap' = Dropped(h, e) /\ stack' = Freeing(h, st, e) /\ held' = held
  BY DecrefForm DEF DictReplace, Dict, Held, KeyAt, Replacing, StoreCall
<1>3. x + 1 \in DOMAIN heap[d].els /\ x + 1 \in Nat
  <2>1. DOMAIN heap[d].els = 1..Len(heap[d].els) /\ Len(heap[d].els) \in Nat
    BY <1>1, ObjectType
  <2>2. Len(heap[d].els) % 2 = 0
    BY <1>2 DEF Pairs
  <2> QED
    BY <1>2, <2>1, <2>2, ValueAfter
<1>4. <<v>> \in Seq(Obj) /\ \A y \in DOMAIN <<v>> : <<v>>[y] = v
  OBVIOUS
<1>5. Plus(held, <<v>>) = r
  BY <1>1, PlusOne
<1>6. Sound(h, <<>>, r)
  BY <1>1, <1>2, <1>4, <1>5, IncrefsSound
<1>7. /\ h \in [Obj -> Object] /\ Room(h, 0)
      /\ \A c \in Obj : h[c].els = heap[c].els
  BY <1>1, <1>4, IncrefsFields
<1>8. /\ f \in FrameType /\ f.op = "store" /\ f.obj = d /\ f.slot = x + 1
      /\ f.vals = <<v>> /\ f.owned /\ ~f.new
  BY <1>3, <1>4, StoreFrame
<1> HIDE DEF h, f, r
<1>9. Len(<<v>>) = 1
  OBVIOUS
<1>10. /\ st \in Seq(FrameType) /\ DOMAIN st = {1} /\ st[1] = f /\ Len(st) = 1
       /\ st # <<>>
  BY <1>8, OneFrame
<1>11. f.slot \in DOMAIN h[f.obj].els /\ h[f.obj].els[f.slot] = e
  BY <1>3, <1>7, <1>8
<1>12. e \in Obj /\ Sound(h, st, More(r, e))
  BY <1>6, <1>8, <1>11, ReplaceSound
<1> HIDE DEF st, e
<1>13. r \in [Obj -> Nat]
  BY <1>6 DEF Sound
<1>14. Less(More(r, e), e) = r /\ More(r, e)[e] > 0
  BY <1>12, <1>13, LessMore
<1>15. Roots(held, st) = r
  <2>1. \A o \in Obj : Claims(st, o) = Count(<<v>>, o) + 0
    BY <1>8, <1>10, OwnedType DEF Claims
  <2>2. \A o \in Obj : Count(<<v>>, o) \in Nat
    BY <1>4, CountType
  <2>3. \A o \in Obj : held[o] + Claims(st, o) = held[o] + Count(<<v>>, o)
    BY <2>1, <2>2
  <2>4. Roots(held, st) = Plus(held, <<v>>)
    BY <2>3 DEF Roots, Plus
  <2> QED
    BY <1>5, <2>4
<1>16. CallOK(h, held, st)
  BY <1>2, <1>8, <1>9, <1>10, <1>11 DEF CallOK
<1>17. st[1].op \notin {"merge", "overrun"}
  BY <1>8, <1>10
<1> QED
  BY <1>1, <1>2, <1>7, <1>10, <1>12, <1>14, <1>15, <1>16, <1>17, CallNext

\* The frame of a merge.
MergeCall(d, s, owned, new) ==
  [Frame("merge", d) EXCEPT !.vals = s, !.owned = owned, !.new = new]

LEMMA MergeFrame ==
  ASSUME NEW d \in Obj, NEW s \in Seq(Obj), NEW owned \in BOOLEAN, NEW new \in BOOLEAN
  PROVE  LET f == MergeCall(d, s, owned, new)
         IN  /\ f \in FrameType /\ f.op = "merge" /\ f.obj = d /\ f.vals = s
             /\ f.owned = owned /\ f.new = new
             /\ Merging(d, s, owned, new) = <<f>>
BY DEF MergeCall, Merging, Frame, FrameType, Ops

LEMMA AbsorbType ==
  ASSUME held \in [Obj -> 0..MaxHeld], NEW s \in Given
  PROVE  /\ s \in Seq(Obj) /\ \A o \in Obj : Count(s, o) \in Nat /\ Count(s, o) <= held[o]
         /\ Absorb(s) \in [Obj -> 0..MaxHeld]
         /\ \A o \in Obj : Absorb(s)[o] = held[o] - Count(s, o)
         /\ \A o \in Obj : Absorb(s)[o] + Count(s, o) = held[o]
<1>1. s \in Seq(Obj) /\ \A o \in Obj : Count(s, o) \in Nat /\ Count(s, o) <= held[o]
  BY Passed DEF Given
<1>2. \A o \in Obj :
        /\ held[o] - Count(s, o) \in 0..MaxHeld
        /\ held[o] - Count(s, o) + Count(s, o) = held[o]
  BY <1>1, BoundsAssumption
<1> QED
  BY <1>1, <1>2 DEF Absorb

LEMMA DictMergeStep ==
  ASSUME IInv, stack = <<>>, NEW d \in Obj, NEW s \in Args, DictMerge(d, s)
  PROVE  IInv'
<1> DEFINE f == MergeCall(d, s, FALSE, FALSE)
<1>1. /\ held \in [Obj -> 0..MaxHeld] /\ held \in [Obj -> Nat]
      /\ Sound(heap, <<>>, held) /\ Room(heap, 0)
      /\ \A c \in Obj : held[c] > 0 => heap[c].refc > 0
  BY Idle
<1>2. s \in Seq(Obj) /\ \A x \in DOMAIN s : held[s[x]] > 0
  BY <1>1, Passed
<1>3. /\ f \in FrameType /\ f.op = "merge" /\ f.obj = d /\ f.vals = s
      /\ ~f.owned /\ ~f.new /\ Merging(d, s, FALSE, FALSE) = <<f>>
  BY <1>2, MergeFrame
<1>4. /\ held[d] > 0 /\ Room(heap, 2 * Len(s))
      /\ heap' = heap /\ held' = held /\ stack' = <<f>>
  BY <1>3, BoundedRoom DEF DictMerge, Dict, Held
<1> HIDE DEF f
<1>5. \A o \in Obj :
        held[o] = held'[o] + ((IF f.owned THEN Count(f.vals, o) ELSE 0)
                                + (IF f.new /\ f.obj = o THEN 1 ELSE 0))
  BY <1>1, <1>3, <1>4
<1>6. /\ heap'[f.obj].refc > 0
      /\ \A x \in DOMAIN f.vals : held'[f.vals[x]] > 0
      /\ Room(heap', 2 * Len(f.vals)) /\ Room(heap', 0)
  BY <1>1, <1>2, <1>3, <1>4
<1>7. held' \in [Obj -> 0..MaxHeld] /\ Sound(heap', <<>>, held)
  BY <1>1, <1>4
<1> QED
  BY <1>3, <1>4, <1>5, <1>6, <1>7, QuietNext

LEMMA DictMergeZStep ==
  ASSUME IInv, stack = <<>>, NEW d \in Obj, NEW s \in Args, DictMergeZ(d, s)
  PROVE  IInv'
<1> DEFINE f == MergeCall(d, s, TRUE, FALSE)
<1>1. /\ held \in [Obj -> 0..MaxHeld] /\ held \in [Obj -> Nat]
      /\ Sound(heap, <<>>, held) /\ Room(heap, 0)
      /\ \A c \in Obj : held[c] > 0 => heap[c].refc > 0
  BY Idle
<1>2. /\ s \in Seq(Obj) /\ Absorb(s) \in [Obj -> 0..MaxHeld]
      /\ \A o \in Obj : Count(s, o) \in Nat /\ Absorb(s)[o] + Count(s, o) = held[o]
  BY <1>1, AbsorbType DEF DictMergeZ
<1>3. /\ f \in FrameType /\ f.op = "merge" /\ f.obj = d /\ f.vals = s
      /\ f.owned /\ ~f.new /\ Merging(d, s, TRUE, FALSE) = <<f>>
  BY <1>2, MergeFrame
<1>4. /\ held[d] > 0 /\ Room(heap, 2 * Len(s))
      /\ heap' = heap /\ held' = Absorb(s) /\ stack' = <<f>>
  BY <1>3, BoundedRoom DEF DictMergeZ, Dict, Held
<1> HIDE DEF f
<1>5. \A o \in Obj :
        held[o] = held'[o] + ((IF f.owned THEN Count(f.vals, o) ELSE 0)
                                + (IF f.new /\ f.obj = o THEN 1 ELSE 0))
  BY <1>2, <1>3, <1>4
<1>6. /\ heap'[f.obj].refc > 0
      /\ Room(heap', 2 * Len(f.vals)) /\ Room(heap', 0)
  BY <1>1, <1>3, <1>4
<1>7. held' \in [Obj -> 0..MaxHeld] /\ Sound(heap', <<>>, held)
  BY <1>1, <1>2, <1>4
<1> QED
  BY <1>3, <1>4, <1>5, <1>6, <1>7, QuietNext

\* What is made for the constructors of dictionaries.
LEMMA MadeDict ==
  ASSUME IInv, stack = <<>>, NEW o \in Free
  PROVE  LET g == Made(heap, o, "dict", 0)
         IN  /\ Sound(g, <<>>, More(held, o))
             /\ \A n : Room(heap, n) => Room(g, n)
             /\ g[o].refc > 0
             /\ o \in Obj /\ held[o] = 0
             /\ \A c \in Obj : More(held, o)[c] = held[c] + (IF c = o THEN 1 ELSE 0)
             /\ heap \in [Obj -> Object] /\ g \in [Obj -> Object]
             /\ g = [heap EXCEPT ![o] = New("dict", <<>>, 0)]
<1> DEFINE g == Made(heap, o, "dict", 0)
<1>1. /\ Sound(heap, <<>>, held) /\ heap \in [Obj -> Object] /\ held \in [Obj -> Nat]
  BY Idle
<1>2. o \in Obj /\ heap[o].type = "none" /\ held[o] = 0 /\ heap[o].els = <<>>
  BY <1>1, FreeObject, FreePlace DEF NoObject
<1>3. "dict" \in Kinds \ {"none"} /\ 0 \in Nat
  BY DEF Kinds
<1>4. Sound(g, <<>>, More(held, o))
  BY <1>1, <1>2, <1>3, MakeSound
<1>5. g \in [Obj -> Object]
  BY <1>4 DEF Sound
<1>6. g = [heap EXCEPT ![o] = New("dict", <<>>, 0)]
  BY DEF Made
<1>7. \A c \in Obj : DOMAIN g[c].els = DOMAIN heap[c].els
  BY <1>1, <1>2, <1>6 DEF New
<1>8. g[o].refc > 0
  BY <1>1, <1>2, <1>6 DEF New
<1> HIDE DEF g
<1>9. \A n : Room(heap, n) => Room(g, n)
  BY <1>7, PlacesSame
<1>10. \A c \in Obj : More(held, o)[c] = held[c] + (IF c = o THEN 1 ELSE 0)
  BY <1>1 DEF More
<1> QED
  BY <1>1, <1>2, <1>4, <1>5, <1>6, <1>8, <1>9, <1>10 DEF g

LEMMA DictNewStep ==
  ASSUME IInv, stack = <<>>, NEW o \in Obj, NEW s \in Args, DictNew(o, s)
  PROVE  IInv'
<1> DEFINE f == MergeCall(o, s, FALSE, TRUE)
           g == Made(heap, o, "dict", 0)
           q == More(held, o)
<1>1. held \in [Obj -> 0..MaxHeld] /\ held \in [Obj -> Nat] /\ Room(heap, 0)
  BY Idle
<1>2. s \in Seq(Obj) /\ \A x \in DOMAIN s : held[s[x]] > 0
  BY <1>1, Passed
<1>3. /\ f \in FrameType /\ f.op = "merge" /\ f.obj = o /\ f.vals = s
      /\ ~f.owned /\ f.new /\ Merging(o, s, FALSE, TRUE) = <<f>>
  BY <1>2, MergeFrame
<1>4. o \in Free /\ Room(heap, 2 * Len(s)) /\ held' = held /\ stack' = <<f>>
  BY <1>3, BoundedRoom DEF DictNew, MayMake
<1>5. /\ Sound(g, <<>>, q)
      /\ \A n : Room(heap, n) => Room(g, n)
      /\ g[o].refc > 0 /\ held[o] = 0
      /\ \A c \in Obj : q[c] = held[c] + (IF c = o THEN 1 ELSE 0)
      /\ g = [heap EXCEPT ![o] = New("dict", <<>>, 0)]
  BY <1>4, MadeDict
<1>6. heap' = g
  BY <1>5 DEF DictNew
<1> HIDE DEF f, g, q
<1>7. \A c \in Obj :
        q[c] = held'[c] + ((IF f.owned THEN Count(f.vals, c) ELSE 0)
                                + (IF f.new /\ f.obj = c THEN 1 ELSE 0))
  BY <1>3, <1>4, <1>5
<1>8. /\ heap'[f.obj].refc > 0 /\ held'[f.obj] = 0
      /\ \A x \in DOMAIN f.vals : held'[f.vals[x]] > 0
      /\ Room(heap', 2 * Len(f.vals)) /\ Room(heap', 0)
  BY <1>1, <1>2, <1>3, <1>4, <1>5, <1>6
<1>9. held' \in [Obj -> 0..MaxHeld] /\ Sound(heap', <<>>, q)
  BY <1>1, <1>4, <1>5, <1>6
<1> QED
  BY <1>3, <1>4, <1>7, <1>8, <1>9, QuietNext

LEMMA DictNewZStep ==
  ASSUME IInv, stack = <<>>, NEW o \in Obj, NEW s \in Args, DictNewZ(o, s)
  PROVE  IInv'
<1> DEFINE f == MergeCall(o, s, TRUE, TRUE)
           g == Made(heap, o, "dict", 0)
           q == More(held, o)
<1>1. held \in [Obj -> 0..MaxHeld] /\ held \in [Obj -> Nat] /\ Room(heap, 0)
  BY Idle
<1>2. /\ s \in Seq(Obj) /\ Absorb(s) \in [Obj -> 0..MaxHeld]
      /\ \A c \in Obj : Count(s, c) \in Nat /\ Count(s, c) <= held[c]
      /\ \A c \in Obj : Absorb(s)[c] = held[c] - Count(s, c)
      /\ \A c \in Obj : Absorb(s)[c] + Count(s, c) = held[c]
  BY <1>1, AbsorbType DEF DictNewZ
<1>3. /\ f \in FrameType /\ f.op = "merge" /\ f.obj = o /\ f.vals = s
      /\ f.owned /\ f.new /\ Merging(o, s, TRUE, TRUE) = <<f>>
  BY <1>2, MergeFrame
<1>4. /\ o \in Free /\ Room(heap, 2 * Len(s)) /\ held' = Absorb(s) /\ stack' = <<f>>
  BY <1>3, BoundedRoom DEF DictNewZ, MayMake
<1>5. /\ Sound(g, <<>>, q)
      /\ \A n : Room(heap, n) => Room(g, n)
      /\ g[o].refc > 0 /\ held[o] = 0
      /\ \A c \in Obj : q[c] = held[c] + (IF c = o THEN 1 ELSE 0)
      /\ g = [heap EXCEPT ![o] = New("dict", <<>>, 0)]
  BY <1>4, MadeDict
<1>6. heap' = g
  BY <1>5 DEF DictNewZ
<1> HIDE DEF f, g, q
<1>7. ASSUME NEW c \in Obj
      PROVE  q[c] = held'[c] + ((IF f.owned THEN Count(f.vals, c) ELSE 0)
                                  + (IF f.new /\ f.obj = c THEN 1 ELSE 0))
  <2>1. held'[c] + Count(f.vals, c) = held[c] /\ f.owned /\ f.new /\ f.obj = o
    BY <1>2, <1>3, <1>4
  <2>2. Count(f.vals, c) \in Nat /\ held'[c] \in Nat
    BY <1>2, <1>3, <1>4, BoundsAssumption
  <2>3. q[c] = held[c] + (IF c = o THEN 1 ELSE 0)
    BY <1>5
  <2> QED
    BY <2>1, <2>2, <2>3
<1>8. held'[o] = 0
  <2>1. Count(s, o) \in Nat /\ Count(s, o) <= held[o] /\ held'[o] = held[o] - Count(s, o)
    BY <1>2, <1>4
  <2> QED
    BY <1>5, <2>1
<1>9. /\ heap'[f.obj].refc > 0 /\ held'[f.obj] = 0
      /\ Room(heap', 2 * Len(f.vals)) /\ Room(heap', 0)
  BY <1>1, <1>3, <1>4, <1>5, <1>6, <1>8
<1>10. held' \in [Obj -> 0..MaxHeld] /\ Sound(heap', <<>>, q)
  BY <1>2, <1>4, <1>5, <1>6
<1> QED
  BY <1>3, <1>4, <1>7, <1>9, <1>10, QuietNext

(***************************************************************************)
(* The steps of deleters.                                                  *)
(***************************************************************************)
LEMMA AdvancedCall ==
  ASSUME NEW h, NEW hl, NEW st \in Seq(FrameType), CallOK(h, hl, st),
         st # <<>>, st[Len(st)].op = "free"
  PROVE  /\ CallOK(h, hl, Advanced(st)) /\ Advanced(st) # <<>>
         /\ Owned(Advanced(st)[1]) = Owned(st[1])
         /\ Advanced(st)[1].op \notin {"merge", "overrun"}
<1> DEFINE tt == Advanced(st)
           n == Len(st)
<1>1. /\ tt \in Seq(FrameType) /\ Len(tt) = n /\ n \in Nat \ {0}
      /\ DOMAIN tt = 1..n /\ DOMAIN st = 1..n
      /\ \A x \in 1..(n - 1) : tt[x] = st[x]
      /\ tt[n].op = st[n].op /\ tt[n].obj = st[n].obj
      /\ tt[n].vals = st[n].vals /\ tt[n].slot = st[n].slot
      /\ tt[n].owned = st[n].owned /\ tt[n].new = st[n].new
  BY AdvancedFrames
<1>2. st[n].op = "free"
  OBVIOUS
<1> HIDE DEF tt, n
<1>3. ASSUME NEW x \in 1..n
      PROVE  /\ tt[x].op = st[x].op /\ tt[x].obj = st[x].obj
             /\ tt[x].vals = st[x].vals /\ tt[x].slot = st[x].slot
             /\ tt[x].owned = st[x].owned /\ tt[x].new = st[x].new
  <2>1. CASE x = n
    BY <1>1, <2>1
  <2>2. CASE x # n
    <3>1. x \in 1..(n - 1)
      BY <1>1, <2>2
    <3> QED
      BY <1>1, <3>1
  <2> QED
    BY <2>1, <2>2
<1>4. 1 \in 1..n /\ n \in 1..n
  BY <1>1
<1>5. tt # <<>> /\ st # <<>>
  BY <1>1, <1>4
<1>6. Owned(tt[1]) = Owned(st[1])
  BY <1>3, <1>4 DEF Owned
<1>7. \A x \in 1..n : x > 1 => st[x].op = "free"
  BY <1>1 DEF CallOK
<1>8. \A x \in 1..n : st[x].op = "free" => ~st[x].owned /\ ~st[x].new
  BY <1>1 DEF CallOK
<1>9. Len(st) = n
  BY DEF n
<1>10. st[1].op \notin {"merge", "overrun"}
  BY <1>2, <1>5, <1>9 DEF CallOK
<1>11. tt[1].op = st[1].op
  BY <1>3, <1>4
<1>12. CallOK(h, hl, tt)
  <2>1. \A x \in DOMAIN tt : x > 1 => tt[x].op = "free"
    BY <1>1, <1>3, <1>7
  <2>2. \A x \in DOMAIN tt : tt[x].op = "free" => ~tt[x].owned /\ ~tt[x].new
    BY <1>1, <1>3, <1>8
  <2>3. /\ tt[1].op = "store" =>
             /\ hl[tt[1].obj] > 0 /\ tt[1].slot \in DOMAIN h[tt[1].obj].els
             /\ tt[1].owned /\ ~tt[1].new /\ Len(tt[1].vals) = 1
        /\ tt[1].new => hl[tt[1].obj] = 0
    BY <1>3, <1>4, <1>5 DEF CallOK
  <2> QED
    BY <1>10, <1>11, <2>1, <2>2, <2>3 DEF CallOK
<1> QED
  BY <1>5, <1>6, <1>10, <1>11, <1>12 DEF tt

\* What the client holds is not being deleted.
LEMMA HeldLives ==
  ASSUME IInv, NEW o \in Obj, held[o] > 0
  PROVE  heap[o].refc > 0 /\ ~DyingIn(stack, o)
<1>1. /\ held \in [Obj -> Nat] /\ stack \in Seq(FrameType)
      /\ Sound(heap, stack, Roots(held, stack))
  BY BoundsAssumption DEF IInv, Sound
<1>2. Claims(stack, o) \in Nat /\ Roots(held, stack)[o] = held[o] + Claims(stack, o)
  BY <1>1, RootsType
<1>3. /\ heap[o].refc \in Nat /\ Roots(held, stack)[o] <= heap[o].refc
      /\ heap[o].refc > 0 => ~DyingIn(stack, o)
  BY <1>1, SoundObject
<1>4. held[o] \in Nat
  BY <1>1
<1> QED
  BY <1>2, <1>3, <1>4

LEMMA FreeElementStep ==
  ASSUME IInv, FreeElement
  PROVE  IInv'
<1> DEFINE n == Len(stack)
           c == stack[n].obj
           i == stack[n].next
           e == heap[c].els[i]
           st == Advanced(stack)
           r == Roots(held, stack)
<1>1. /\ held \in [Obj -> 0..MaxHeld] /\ held \in [Obj -> Nat]
      /\ Sound(heap, stack, r) /\ CallOK(heap, held, stack)
      /\ stack \in Seq(FrameType) /\ Room(heap, 0)
  BY BoundedRoom, BoundsAssumption DEF IInv, Sound, RoomOK
<1>2. /\ stack # <<>> /\ stack[n].op = "free" /\ i <= Len(heap[c].els)
      /\ held' = held
      /\ heap' = Dropped(heap, e) /\ stack' = Freeing(heap, st, e)
  BY DecrefForm DEF FreeElement, In, Calling, Top, Advanced, Below, Returned
<1>3. \A x \in DOMAIN stack : stack[x].op = "store" => stack[x].obj # c
  <2>1. ASSUME NEW x \in DOMAIN stack, stack[x].op = "store", stack[x].obj = c
        PROVE  FALSE
    <3>1. x = 1
      <4>1. DOMAIN stack = 1..Len(stack) /\ Len(stack) \in Nat
        BY <1>1, LenProperties
      <4>2. ~(x > 1)
        BY <1>1, <2>1 DEF CallOK
      <4> QED
        BY <4>1, <4>2
    <3>2. held[c] > 0 /\ c \in Obj
      BY <1>1, <1>2, <2>1, <3>1, FrameFields DEF CallOK
    <3>3. ~DyingIn(stack, c)
      BY <3>2, HeldLives
    <3>4. n \in DOMAIN stack
      BY <1>1, <1>2, LastFrame
    <3> QED
      BY <1>2, <3>3, <3>4 DEF DyingIn
  <2> QED
    BY <2>1
<1>4. e \in Obj /\ Sound(heap, st, More(r, e))
  BY <1>1, <1>2, <1>3, AdvanceSound
<1>5. /\ CallOK(heap, held, st) /\ st # <<>> /\ Owned(st[1]) = Owned(stack[1])
      /\ st[1].op \notin {"merge", "overrun"}
  BY <1>1, <1>2, AdvancedCall
<1> HIDE DEF st, e, c, i, n
<1>6. Roots(held, st) = r
  BY <1>2, <1>5, RootsSame
<1>7. r \in [Obj -> Nat]
  BY <1>1 DEF Sound
<1> HIDE DEF r
<1>8. Less(More(r, e), e) = r /\ More(r, e)[e] > 0
  BY <1>4, <1>7, LessMore
<1>9. held' \in [Obj -> 0..MaxHeld] /\ CallOK(heap, held', st) /\ Roots(held', st) = Less(More(r, e), e)
  BY <1>1, <1>2, <1>5, <1>6, <1>8
<1> QED
  BY <1>1, <1>2, <1>4, <1>5, <1>8, <1>9, CallNext

\* The calls below a deleter, once it has freed its object.
LEMMA ReturnedCall ==
  ASSUME NEW h \in [Obj -> Object], NEW hl, NEW st \in Seq(FrameType), CallOK(h, hl, st),
         st # <<>>, st[Len(st)].op = "free", hl[st[Len(st)].obj] = 0
  PROVE  /\ CallOK(Freed(h, st[Len(st)].obj), hl, Returned(st))
         /\ Returned(st) # <<>> =>
              /\ Owned(Returned(st)[1]) = Owned(st[1])
              /\ Returned(st)[Len(Returned(st))].op # "merge"
         /\ Returned(st) = <<>> => ~st[1].owned /\ ~st[1].new
<1> DEFINE tt == Returned(st)
           n == Len(st)
           d == st[n].obj
           g == Freed(h, d)
<1>1. /\ tt \in Seq(FrameType) /\ Len(tt) = n - 1 /\ n \in Nat \ {0}
      /\ DOMAIN tt = 1..(n - 1) /\ DOMAIN st = 1..n
      /\ \A x \in 1..(n - 1) : tt[x] = st[x]
      /\ st[n] \in FrameType
  BY BelowFrames
<1>2. d \in Obj /\ st[n].op = "free" /\ hl[d] = 0 /\ n = Len(st)
  BY <1>1 DEF FrameType
<1>3. \A o \in Obj : o # d => g[o] = h[o]
  BY <1>2 DEF Freed
<1> HIDE DEF tt, n, d, g
<1>4. \A x \in 1..n : x > 1 => st[x].op = "free"
  BY <1>1 DEF CallOK
<1>5. \A x \in 1..n : st[x].op = "free" => ~st[x].owned /\ ~st[x].new
  BY <1>1 DEF CallOK
<1>6. \A x \in 1..(n - 1) : x \in 1..n
  BY <1>1
<1>7. CASE n = 1
  <2>1. tt = <<>>
    BY <1>1, <1>7, EmptySeq
  <2>2. CallOK(g, hl, tt)
    BY <2>1 DEF CallOK
  <2>3. ~st[1].owned /\ ~st[1].new
    BY <1>1, <1>2, <1>5, <1>7
  <2> QED
    BY <2>1, <2>2, <2>3 DEF tt, n, d, g
<1>8. CASE n # 1
  <2>1. 1 \in 1..(n - 1) /\ n - 1 \in 1..(n - 1) /\ 1 \in 1..n /\ (n - 1 = 1 \/ n - 1 > 1)
    BY <1>1, <1>8
  <2>2. tt # <<>> /\ tt[1] = st[1]
    BY <1>1, <2>1
  <2>3. st[1].op \notin {"merge", "overrun"}
    BY <1>2, <1>8 DEF CallOK
  <2>4. \A x \in DOMAIN tt : x > 1 => tt[x].op = "free"
    BY <1>1, <1>4, <1>6
  <2>5. \A x \in DOMAIN tt : tt[x].op = "free" => ~tt[x].owned /\ ~tt[x].new
    BY <1>1, <1>5, <1>6
  <2>6. st[1].obj \in Obj
    BY <1>1, <2>1, FrameFields
  <2>7. st[1].op = "store" =>
          /\ hl[st[1].obj] > 0 /\ st[1].slot \in DOMAIN h[st[1].obj].els
          /\ st[1].owned /\ ~st[1].new /\ Len(st[1].vals) = 1
    BY DEF CallOK
  <2>8. st[1].new => hl[st[1].obj] = 0
    BY DEF CallOK
  <2>9. st[1].op = "store" => g[st[1].obj] = h[st[1].obj]
    BY <1>2, <1>3, <2>6, <2>7
  <2>10. CallOK(g, hl, tt)
    BY <2>2, <2>3, <2>4, <2>5, <2>7, <2>8, <2>9 DEF CallOK
  <2>11. tt[Len(tt)].op # "merge"
    BY <1>1, <1>6, <2>1, <2>2, <2>3, <2>4
  <2> QED
    BY <2>2, <2>10, <2>11 DEF tt, n, d, g
<1> QED
  BY <1>7, <1>8

LEMMA FreeMemoryStep ==
  ASSUME IInv, FreeMemory
  PROVE  IInv'
<1> DEFINE n == Len(stack)
           d == stack[n].obj
           g == Freed(heap, d)
           tt == Returned(stack)
           r == Roots(held, stack)
<1>1. /\ held \in [Obj -> 0..MaxHeld] /\ held \in [Obj -> Nat]
      /\ Sound(heap, stack, r) /\ CallOK(heap, held, stack)
      /\ stack \in Seq(FrameType) /\ Room(heap, 0) /\ heap \in [Obj -> Object]
  BY BoundedRoom, BoundsAssumption DEF IInv, Sound, RoomOK
<1>2. /\ stack # <<>> /\ stack[n].op = "free" /\ stack[n].next > Len(heap[d].els)
      /\ held' = held /\ heap' = g /\ stack' = tt
  BY DEF FreeMemory, In, Calling, Top, Below, Returned, Freed
<1>3. d \in Obj /\ heap[d].refc = 0 /\ Sound(g, tt, r)
  BY <1>1, <1>2, FreedSound
<1>4. held[d] = 0
  <2>1. ~(held[d] > 0)
    BY <1>3, HeldLives
  <2> QED
    BY <1>1, <1>3, <2>1
<1>5. /\ CallOK(g, held, tt)
      /\ tt # <<>> => Owned(tt[1]) = Owned(stack[1]) /\ tt[Len(tt)].op # "merge"
      /\ tt = <<>> => ~stack[1].owned /\ ~stack[1].new
  BY <1>1, <1>2, <1>4, ReturnedCall
<1>6. Room(g, 0)
  <2>1. g \in [Obj -> Object]
    BY <1>3 DEF Sound
  <2>2. \A c \in Obj : DOMAIN g[c].els \subseteq DOMAIN heap[c].els
    BY <1>1, <1>3 DEF Freed, NoObject
  <2> HIDE DEF g
  <2> QED
    BY <1>1, <2>1, <2>2, PlacesLess
<1> HIDE DEF n, d, g, tt
<1>7. Roots(held, tt) = r
  <2>1. CASE tt = <<>>
    <3>1. Roots(held, stack) = held
      BY <1>1, <1>2, <1>5, <2>1, RootsNone
    <3>2. Roots(held, tt) = held
      BY <1>1, <2>1, RootsNone
    <3> QED
      BY <3>1, <3>2
  <2>2. CASE tt # <<>>
    BY <1>2, <1>5, <2>2, RootsSame
  <2> QED
    BY <2>1, <2>2
<1>8. CallOK(heap, held, stack)'
  BY <1>2, <1>5
<1>9. ~In("merge")'
  BY <1>2, <1>5 DEF In, Calling, Top
<1>10. RoomOK'
  BY <1>2, <1>6, <1>9, BoundedRoom DEF RoomOK
<1>11. Sound(heap', stack', Roots(held', stack')) /\ held' \in [Obj -> 0..MaxHeld]
  BY <1>1, <1>2, <1>3, <1>7
<1> QED
  BY <1>8, <1>10, <1>11 DEF IInv

(***************************************************************************)
(* The other steps, of a call without deleters on top of it.               *)
(***************************************************************************)
LEMMA LoneCall ==
  ASSUME IInv, Calling, Top.op # "free"
  PROVE  /\ Top \in FrameType /\ stack = <<Top>> /\ Below = <<>> /\ stack[1] = Top
         /\ Len(stack) = 1 /\ stack # <<>>
         /\ held \in [Obj -> 0..MaxHeld] /\ held \in [Obj -> Nat]
         /\ heap \in [Obj -> Object] /\ Room(heap, 0)
         /\ Sound(heap, <<Top>>, Roots(held, stack))
         /\ Roots(held, stack) \in [Obj -> Nat]
         /\ \A o \in Obj : Roots(held, stack)[o] =
              held[o] + ((IF Top.owned THEN Count(Top.vals, o) ELSE 0)
                           + (IF Top.new /\ Top.obj = o THEN 1 ELSE 0))
<1>1. /\ held \in [Obj -> 0..MaxHeld] /\ held \in [Obj -> Nat]
      /\ Sound(heap, stack, Roots(held, stack)) /\ CallOK(heap, held, stack)
      /\ stack \in Seq(FrameType) /\ Room(heap, 0) /\ heap \in [Obj -> Object]
  BY BoundedRoom, BoundsAssumption DEF IInv, Sound, RoomOK
<1>2. stack # <<>> /\ Top = stack[Len(stack)]
  BY DEF Calling, Top
<1>3. Len(stack) \in DOMAIN stack /\ (Len(stack) = 1 \/ Len(stack) > 1)
  BY <1>1, <1>2, LastFrame
<1>4. Len(stack) = 1
  BY <1>1, <1>2, <1>3 DEF CallOK
<1>5. Top = stack[1] /\ Top \in FrameType
  BY <1>1, <1>2, <1>3, <1>4, FrameFields
<1> DEFINE f == Top
           t == <<f>>
<1>6. f \in FrameType /\ stack[1] = f
  BY <1>5
<1> HIDE DEF f
<1>7. stack = t
  <2>1. t \in Seq(FrameType) /\ Len(t) = 1 /\ t[1] = f
    BY <1>6, OneFrame
  <2> HIDE DEF t
  <2>2. \A x \in 1..Len(stack) : stack[x] = t[x]
    BY <1>4, <1>6, <2>1
  <2>3. Len(stack) = Len(t)
    BY <1>4, <2>1
  <2> QED
    BY <1>1, <2>1, <2>2, <2>3, SeqEqual
<1>8. Below = <<>>
  <2>1. Len(stack) - 1 < 1 /\ Len(stack) - 1 \in Int
    BY <1>4
  <2> QED
    BY <2>1, SubSeqEmpty DEF Below
<1>9. Roots(held, stack) \in [Obj -> Nat]
  BY <1>1 DEF Sound
<1>10. \A o \in Obj : Roots(held, stack)[o] =
         held[o] + ((IF f.owned THEN Count(f.vals, o) ELSE 0)
                      + (IF f.new /\ f.obj = o THEN 1 ELSE 0))
  <2>1. \A o \in Obj : Count(Owned(f), o) =
           (IF f.owned THEN Count(f.vals, o) ELSE 0)
             + (IF f.new /\ f.obj = o THEN 1 ELSE 0)
    BY <1>6, OwnedType
  <2>2. \A o \in Obj : Claims(stack, o) = Count(Owned(f), o)
    BY <1>2, <1>6 DEF Claims
  <2>3. \A o \in Obj : Roots(held, stack)[o] = held[o] + Claims(stack, o)
    BY DEF Roots
  <2> QED
    BY <2>1, <2>2, <2>3
<1>11. Sound(heap, t, Roots(held, stack))
  BY <1>1, <1>7
<1> QED
  BY <1>1, <1>2, <1>4, <1>6, <1>7, <1>8, <1>9, <1>10, <1>11 DEF f

LEMMA DictStoreStep ==
  ASSUME IInv, DictStore
  PROVE  IInv'
<1> DEFINE f == Top
           r == Roots(held, stack)
           v == f.vals[1]
           g == Stored(heap, f.obj, f.slot, v)
<1>1. /\ Calling /\ f.op = "store" /\ heap' = g /\ stack' = Below /\ held' = held
  BY DEF DictStore, In, Stored
<1>2. /\ f \in FrameType /\ Below = <<>> /\ stack[1] = f /\ stack # <<>>
      /\ held \in [Obj -> 0..MaxHeld] /\ held \in [Obj -> Nat]
      /\ heap \in [Obj -> Object] /\ Room(heap, 0)
      /\ Sound(heap, <<f>>, r) /\ r \in [Obj -> Nat]
      /\ \A o \in Obj : r[o] =
              held[o] + ((IF f.owned THEN Count(f.vals, o) ELSE 0)
                           + (IF f.new /\ f.obj = o THEN 1 ELSE 0))
  BY <1>1, LoneCall
<1> HIDE DEF f, r
<1>3. /\ held[f.obj] > 0 /\ f.slot \in DOMAIN heap[f.obj].els
      /\ f.owned /\ ~f.new /\ Len(f.vals) = 1
  BY <1>1, <1>2 DEF CallOK, IInv
<1>4. f.obj \in Obj /\ f.vals \in Seq(Obj)
  BY <1>2 DEF FrameType
<1>5. heap[f.obj].refc > 0
  BY <1>3, <1>4, HeldLives
<1>6. v \in Obj /\ \A o \in Obj : Count(f.vals, o) = IF v = o THEN 1 ELSE 0
  <2>1. v \in Obj
    BY <1>3, <1>4, ElementOfSeq
  <2>2. f.vals = <<v>>
    <3>1. <<v>> \in Seq(Obj) /\ Len(<<v>>) = 1 /\ <<v>>[1] = v
      BY <2>1
    <3> DEFINE t == <<v>>
    <3>2. t \in Seq(Obj) /\ Len(t) = Len(f.vals) /\ \A x \in 1..Len(f.vals) : f.vals[x] = t[x]
      BY <1>3, <3>1
    <3> HIDE DEF t
    <3>3. f.vals = t
      BY <1>4, <3>2, SeqEqual
    <3> QED
      BY <3>3 DEF t
  <2>3. \A o \in Obj : Count(<<v>>, o) = IF v = o THEN 1 ELSE 0
    BY <2>1, CountOne
  <2> HIDE DEF v
  <2> QED
    BY <2>1, <2>2, <2>3
<1> HIDE DEF v
<1>7. \A o \in Obj : r[o] = held[o] + (IF v = o THEN 1 ELSE 0)
  <2>1. TAKE o \in Obj
  <2>2. r[o] = held[o] + ((IF v = o THEN 1 ELSE 0) + 0)
    BY <1>2, <1>3, <1>6
  <2> QED
    BY <2>2
<1>8. r[v] > 0
  <2>1. held[v] \in Nat /\ r[v] = held[v] + 1
    BY <1>2, <1>6, <1>7
  <2> QED
    BY <2>1
<1>9. Sound(g, <<>>, Less(r, v))
  BY <1>1, <1>2, <1>3, <1>5, <1>6, <1>8, StoredSound
<1>10. Less(r, v) = held
  <2>1. Less(r, v) = [o \in Obj |-> IF o = v THEN r[o] - 1 ELSE r[o]]
    BY <1>2 DEF Less
  <2>2. \A o \in Obj : (IF o = v THEN r[o] - 1 ELSE r[o]) = held[o]
    BY <1>2, <1>7
  <2>3. held = [o \in Obj |-> held[o]]
    BY <1>2
  <2> QED
    BY <2>1, <2>2, <2>3
<1>11. \A o \in Obj : DOMAIN g[o].els = DOMAIN heap[o].els
  <2>1. /\ heap \in [Obj -> Object] /\ f.obj \in Obj
        /\ f.slot \in DOMAIN heap[f.obj].els /\ v \in Obj
    BY <1>2, <1>3, <1>4, <1>6
  <2> DEFINE h == heap
             c == f.obj
             i == f.slot
  <2>2. h \in [Obj -> Object] /\ c \in Obj /\ i \in DOMAIN h[c].els /\ v \in Obj
    BY <2>1
  <2> HIDE DEF h, c, i
  <2>3. \A o \in Obj : DOMAIN Stored(h, c, i, v)[o].els = DOMAIN h[o].els
    BY <2>2, StoredObject
  <2> QED
    BY <2>3 DEF h, c, i
<1> HIDE DEF g
<1>12. Room(g, 0)
  BY <1>2, <1>11, PlacesSame
<1> QED
  BY <1>1, <1>2, <1>9, <1>10, <1>12, IdleNext

LEMMA MergeFailsStep ==
  ASSUME IInv, MergeFails
  PROVE  IInv'
<1> DEFINE f == Top
           q == Roots(held, stack)
           g == [f EXCEPT !.op = "undo"]
<1>1. /\ Calling /\ f.op = "merge" /\ heap' = heap /\ held' = held
      /\ stack' = Append(Below, g)
  BY DEF MergeFails, In
<1>2. /\ f \in FrameType /\ Below = <<>> /\ stack[1] = f /\ stack # <<>>
      /\ held \in [Obj -> 0..MaxHeld] /\ held \in [Obj -> Nat]
      /\ Room(heap, 0) /\ Sound(heap, <<f>>, q)
      /\ \A o \in Obj : q[o] =
              held[o] + ((IF f.owned THEN Count(f.vals, o) ELSE 0)
                           + (IF f.new /\ f.obj = o THEN 1 ELSE 0))
  BY <1>1, LoneCall
<1>3. f.new => held[f.obj] = 0
  BY <1>2 DEF IInv, CallOK
<1> HIDE DEF f, q
<1>4. /\ g \in FrameType /\ g.op = "undo" /\ g.obj = f.obj /\ g.vals = f.vals
      /\ g.owned = f.owned /\ g.new = f.new
  BY <1>2 DEF FrameType, Ops
<1> HIDE DEF g
<1>5. stack' = <<g>>
  BY <1>1, <1>2
<1>6. Sound(heap', <<>>, q)
  BY <1>1, <1>2, QuietSound
<1>7. \A o \in Obj :
        q[o] = held'[o] + ((IF g.owned THEN Count(g.vals, o) ELSE 0)
                             + (IF g.new /\ g.obj = o THEN 1 ELSE 0))
  BY <1>1, <1>2, <1>4
<1>8. /\ g.op \in {"merge", "undo", "overrun"} /\ held' \in [Obj -> 0..MaxHeld]
      /\ Room(heap', 0) /\ (g.new => held'[g.obj] = 0)
      /\ g.op # "merge" /\ g.op # "overrun"
  BY <1>1, <1>2, <1>3, <1>4
<1> QED
  BY <1>4, <1>5, <1>6, <1>7, <1>8, QuietNext

LEMMA UndoneStep ==
  ASSUME IInv, Undone
  PROVE  IInv'
<1> DEFINE f == Top
           q == Roots(held, stack)
<1>1. /\ Calling /\ f.op = "undo" /\ held' = held /\ (f.owned => f.vals = <<>>)
      /\ f.new => Decref(heap, Below, f.obj)
      /\ ~f.new => stack' = Below /\ heap' = heap
  BY DEF Undone, In
<1>2. /\ f \in FrameType /\ Below = <<>>
      /\ held \in [Obj -> 0..MaxHeld] /\ held \in [Obj -> Nat]
      /\ Room(heap, 0) /\ Sound(heap, <<f>>, q) /\ q \in [Obj -> Nat]
      /\ \A o \in Obj : q[o] =
              held[o] + ((IF f.owned THEN Count(f.vals, o) ELSE 0)
                           + (IF f.new /\ f.obj = o THEN 1 ELSE 0))
  BY <1>1, LoneCall
<1> HIDE DEF f, q
<1>3. \A o \in Obj : q[o] = held[o] + (IF f.new /\ f.obj = o THEN 1 ELSE 0)
  <2>1. TAKE o \in Obj
  <2>2. (IF f.owned THEN Count(f.vals, o) ELSE 0) = 0
    BY <1>1, CountEmpty
  <2> QED
    BY <1>2, <2>2
<1>4. Sound(heap, <<>>, q)
  BY <1>1, <1>2, QuietSound
<1>5. f.obj \in Obj
  BY <1>2 DEF FrameType
<1>6. CASE f.new
  <2>1. heap' = Dropped(heap, f.obj) /\ stack' = Freeing(heap, <<>>, f.obj)
    BY <1>1, <1>2, <1>6, DecrefForm
  <2>2. q[f.obj] > 0
    <3>1. held[f.obj] \in Nat /\ q[f.obj] = held[f.obj] + 1
      BY <1>2, <1>3, <1>5, <1>6
    <3> QED
      BY <3>1
  <2>3. Less(q, f.obj) = held
    <3>1. Less(q, f.obj) = [o \in Obj |-> IF o = f.obj THEN q[o] - 1 ELSE q[o]]
      BY <1>2 DEF Less
    <3>2. \A o \in Obj : (IF o = f.obj THEN q[o] - 1 ELSE q[o]) = held[o]
      BY <1>2, <1>3, <1>6
    <3>3. held = [o \in Obj |-> held[o]]
      BY <1>2
    <3> QED
      BY <3>1, <3>2, <3>3
  <2>4. held' \in [Obj -> 0..MaxHeld] /\ held' = Less(q, f.obj)
    BY <1>1, <1>2, <2>3
  <2> QED
    BY <1>2, <1>4, <1>5, <2>1, <2>2, <2>4, DropNext
<1>7. CASE ~f.new
  <2>1. q = held
    <3>1. \A o \in Obj : q[o] = held[o]
      BY <1>2, <1>3, <1>7
    <3> QED
      BY <1>2, <3>1
  <2> QED
    BY <1>1, <1>2, <1>4, <1>7, <2>1, IdleNext
<1> QED
  BY <1>6, <1>7

LEMMA MergeEndsStep ==
  ASSUME IInv, MergeEnds
  PROVE  IInv'
<1> DEFINE f == Top
           q == Roots(held, stack)
<1>1. /\ Calling /\ f.op = "merge" /\ f.vals = <<>> /\ heap' = heap /\ stack' = Below
      /\ held' = IF f.new THEN Take(f.obj) ELSE held
  BY DEF MergeEnds, In
<1>2. /\ f \in FrameType /\ Below = <<>> /\ stack[1] = f /\ stack # <<>>
      /\ held \in [Obj -> 0..MaxHeld] /\ held \in [Obj -> Nat]
      /\ Room(heap, 0) /\ Sound(heap, <<f>>, q) /\ q \in [Obj -> Nat]
      /\ \A o \in Obj : q[o] =
              held[o] + ((IF f.owned THEN Count(f.vals, o) ELSE 0)
                           + (IF f.new /\ f.obj = o THEN 1 ELSE 0))
  BY <1>1, LoneCall
<1>3. f.new => held[f.obj] = 0
  BY <1>2 DEF IInv, CallOK
<1> HIDE DEF f, q
<1>4. \A o \in Obj : q[o] = held[o] + (IF f.new /\ f.obj = o THEN 1 ELSE 0)
  <2>1. TAKE o \in Obj
  <2>2. (IF f.owned THEN Count(f.vals, o) ELSE 0) = 0
    BY <1>1, CountEmpty
  <2> QED
    BY <1>2, <2>2
<1>5. Sound(heap, <<>>, q)
  BY <1>1, <1>2, QuietSound
<1>6. f.obj \in Obj /\ MaxHeld \in Nat /\ MaxHeld > 0
  BY <1>2, BoundsAssumption DEF FrameType
<1>7. held' = q /\ held' \in [Obj -> 0..MaxHeld]
  <2>1. CASE f.new
    <3>1. held[f.obj] < MaxHeld
      BY <1>3, <1>6, <2>1
    <3>2. held' = More(held, f.obj) /\ More(held, f.obj) \in [Obj -> 0..MaxHeld]
      BY <1>1, <1>2, <1>6, <2>1, <3>1, TakeType
    <3>3. More(held, f.obj) = [o \in Obj |-> IF o = f.obj THEN held[o] + 1 ELSE held[o]]
      BY <1>2 DEF More
    <3>4. \A o \in Obj : q[o] = IF o = f.obj THEN held[o] + 1 ELSE held[o]
      BY <1>2, <1>4, <2>1
    <3>5. q = [o \in Obj |-> q[o]]
      BY <1>2
    <3>6. q = More(held, f.obj)
      BY <3>3, <3>4, <3>5
    <3> QED
      BY <3>2, <3>6
  <2>2. CASE ~f.new
    <3>1. \A o \in Obj : q[o] = held[o]
      BY <1>2, <1>4, <2>2
    <3>2. q = held
      BY <1>2, <3>1
    <3> QED
      BY <1>1, <1>2, <2>2, <3>2
  <2> QED
    BY <2>1, <2>2
<1> QED
  BY <1>1, <1>2, <1>5, <1>7, IdleNext

\* The values without the first one.
NextValue(f) == [f EXCEPT !.vals = Tail(@)]

LEMMA NextValueFrame ==
  ASSUME NEW f \in FrameType, f.vals # <<>>
  PROVE  LET g == NextValue(f)
         IN  /\ g \in FrameType /\ g.op = f.op /\ g.obj = f.obj /\ g.vals = Tail(f.vals)
             /\ g.owned = f.owned /\ g.new = f.new
<1>1. f.vals \in Seq(Obj)
  BY DEF FrameType
<1>2. Tail(f.vals) \in Seq(Obj)
  BY <1>1, HeadTailProperties
<1> QED
  BY <1>2 DEF FrameType, NextValue

LEMMA UndoValueStep ==
  ASSUME IInv, UndoValue
  PROVE  IInv'
<1> DEFINE f == Top
           q == Roots(held, stack)
           v == Head(f.vals)
           g == NextValue(f)
           st == <<g>>
<1>1. /\ Calling /\ f.op = "undo" /\ held' = held /\ f.owned /\ f.vals # <<>>
      /\ Decref(heap, Append(Below, g), v)
  BY DEF UndoValue, In, NextValue
<1>2. /\ f \in FrameType /\ Below = <<>> /\ stack[1] = f /\ stack # <<>>
      /\ held \in [Obj -> 0..MaxHeld] /\ held \in [Obj -> Nat]
      /\ Room(heap, 0) /\ Sound(heap, <<f>>, q) /\ q \in [Obj -> Nat]
      /\ \A o \in Obj : q[o] =
              held[o] + ((IF f.owned THEN Count(f.vals, o) ELSE 0)
                           + (IF f.new /\ f.obj = o THEN 1 ELSE 0))
  BY <1>1, LoneCall
<1>3. f.new => held[f.obj] = 0
  BY <1>2 DEF IInv, CallOK
<1> HIDE DEF f, q
<1>4. /\ g \in FrameType /\ g.op = f.op /\ g.obj = f.obj /\ g.vals = Tail(f.vals)
      /\ g.owned = f.owned /\ g.new = f.new
  BY <1>1, <1>2, NextValueFrame
<1>5. f.vals \in Seq(Obj)
  BY <1>2 DEF FrameType
<1>6. /\ v \in Obj /\ Tail(f.vals) \in Seq(Obj)
      /\ \A o \in Obj : Count(f.vals, o) = Count(Tail(f.vals), o) + (IF v = o THEN 1 ELSE 0)
  BY <1>1, <1>5, CountTail
<1>7. \A o \in Obj : Count(Tail(f.vals), o) \in Nat
  BY <1>6, CountType
<1> HIDE DEF g, v
<1>8. /\ st \in Seq(FrameType) /\ DOMAIN st = {1} /\ st[1] = g /\ Len(st) = 1
      /\ st # <<>> /\ Append(Below, g) = st
  BY <1>2, <1>4, OneFrame
<1>9. Sound(heap, st, q)
  <2>1. Sound(heap, <<>>, q)
    BY <1>1, <1>2, QuietSound
  <2> QED
    BY <1>1, <1>4, <2>1, QuietSound
<1> HIDE DEF st
<1>10. heap' = Dropped(heap, v) /\ stack' = Freeing(heap, st, v)
  BY <1>1, <1>8, DecrefForm
<1>11. q[v] > 0
  <2>1. /\ q[v] = held[v] + (Count(f.vals, v) + (IF f.new /\ f.obj = v THEN 1 ELSE 0))
        /\ Count(f.vals, v) = Count(Tail(f.vals), v) + 1
        /\ held[v] \in Nat /\ Count(Tail(f.vals), v) \in Nat
    BY <1>1, <1>2, <1>6, <1>7
  <2> QED
    BY <2>1
<1>12. Roots(held, st) = Less(q, v)
  <2>1. Less(q, v) = [o \in Obj |-> IF o = v THEN q[o] - 1 ELSE q[o]]
    BY <1>2 DEF Less
  <2>2. \A o \in Obj : Claims(st, o) =
          Count(Tail(f.vals), o) + (IF f.new /\ f.obj = o THEN 1 ELSE 0)
    <3>1. \A o \in Obj : Count(Owned(g), o) =
             (IF g.owned THEN Count(g.vals, o) ELSE 0)
               + (IF g.new /\ g.obj = o THEN 1 ELSE 0)
      BY <1>4, OwnedType
    <3>2. \A o \in Obj : Claims(st, o) = Count(Owned(g), o)
      BY <1>8 DEF Claims
    <3> QED
      BY <1>1, <1>4, <3>1, <3>2
  <2>3. ASSUME NEW o \in Obj
        PROVE  held[o] + Claims(st, o) = IF o = v THEN q[o] - 1 ELSE q[o]
    <3>1. /\ q[o] = held[o] + (Count(f.vals, o) + (IF f.new /\ f.obj = o THEN 1 ELSE 0))
          /\ Count(f.vals, o) = Count(Tail(f.vals), o) + (IF v = o THEN 1 ELSE 0)
          /\ held[o] \in Nat /\ Count(Tail(f.vals), o) \in Nat
      BY <1>1, <1>2, <1>6, <1>7
    <3> QED
      BY <2>2, <3>1
  <2> QED
    BY <2>1, <2>3 DEF Roots
<1>13. CallOK(heap, held, st) /\ st[1].op \notin {"merge", "overrun"}
  BY <1>1, <1>3, <1>4, <1>8 DEF CallOK
<1>14. held' \in [Obj -> 0..MaxHeld] /\ CallOK(heap, held', st) /\ Roots(held', st) = Less(q, v)
  BY <1>1, <1>2, <1>12, <1>13
<1> QED
  BY <1>2, <1>6, <1>8, <1>9, <1>10, <1>11, <1>13, <1>14, CallNext

\* A key and a value.
LEMMA CountPair ==
  ASSUME NEW k \in Obj, NEW v \in Obj
  PROVE  /\ <<k, v>> \in Seq(Obj) /\ Len(<<k, v>>) = 2
         /\ \A o \in Obj : Count(<<k, v>>, o) =
              (IF k = o THEN 1 ELSE 0) + (IF v = o THEN 1 ELSE 0)
<1> DEFINE a == <<k>>
           b == <<v>>
           s == <<k, v>>
           u == a \o b
<1>a. /\ a \in Seq(Obj) /\ Len(a) = 1 /\ a[1] = k
      /\ b \in Seq(Obj) /\ Len(b) = 1 /\ b[1] = v
      /\ s \in Seq(Obj) /\ Len(s) = 2 /\ s[1] = k /\ s[2] = v
  OBVIOUS
<1> HIDE DEF a, b, s
<1>b. /\ u \in Seq(Obj) /\ Len(u) = Len(a) + Len(b)
      /\ \A x \in 1..(Len(a) + Len(b)) : u[x] = IF x <= Len(a) THEN a[x] ELSE b[x - Len(a)]
  BY <1>a, ConcatProperties
<1> HIDE DEF u
<1>c. Len(u) = Len(s) /\ \A x \in 1..Len(u) : u[x] = s[x]
  <2>1. u[1] = k /\ u[2] = v /\ Len(u) = 2
    BY <1>a, <1>b
  <2>2. 1..Len(u) = {1, 2}
    BY <2>1
  <2> QED
    BY <1>a, <2>1, <2>2
<1>d. u = s
  BY <1>a, <1>b, <1>c, SeqEqual
<1>1. /\ <<k>> \in Seq(Obj) /\ <<v>> \in Seq(Obj) /\ <<k>> \o <<v>> = <<k, v>>
      /\ <<k, v>> \in Seq(Obj) /\ Len(<<k, v>>) = 2
  BY <1>a, <1>d DEF a, b, s, u
<1>2. \A o \in Obj : Count(<<k>> \o <<v>>, o) = Count(<<k>>, o) + Count(<<v>>, o)
  <2> HIDE DEF a, b
  <2>1. \A o : Count(a \o b, o) = Count(a, o) + Count(b, o)
    BY <1>a, CountConcat
  <2> QED
    BY <2>1 DEF a, b
<1>3. \A o \in Obj : /\ Count(<<k>>, o) = IF k = o THEN 1 ELSE 0
                     /\ Count(<<v>>, o) = IF v = o THEN 1 ELSE 0
  <2>1. \A o : Count(<<k>>, o) = IF k = o THEN 1 ELSE 0
    BY CountOne
  <2>2. \A o : Count(<<v>>, o) = IF v = o THEN 1 ELSE 0
    BY CountOne
  <2> QED
    BY <2>1, <2>2
<1>4. \A o \in Obj : Count(<<k, v>>, o) =
        (IF k = o THEN 1 ELSE 0) + (IF v = o THEN 1 ELSE 0)
  BY <1>1, <1>2, <1>3
<1> QED
  BY <1>1, <1>4

LEMMA RoomLess ==
  ASSUME NEW h \in [Obj -> Object], NEW n \in Nat, NEW m \in Nat, m <= n, Room(h, n)
  PROVE  Room(h, m)
<1>1. Cardinality(PlacesOf(h)) \in Nat /\ MaxElems \in Nat
  BY PlacesType
<1> QED
  BY <1>1 DEF Room

\* Heap h with elements s added to c.
Extended(h, c, s) == [h EXCEPT ![c].els = @ \o s]

LEMMA ExtendedAppended ==
  ASSUME NEW h \in [Obj -> Object], NEW c \in Obj, NEW s \in Seq(Obj)
  PROVE  Appended(h, Extended(h, c, s), c, s)
<1> DEFINE t == h[c].els \o s
           y == [h[c] EXCEPT !.els = t]
           g == Extended(h, c, s)
<1>1. h[c] \in Object /\ h[c].els \in Seq(Obj)
  BY ObjectType
<1>2. t \in Seq(Obj)
  BY <1>1, ConcatProperties
<1>3. g = [h EXCEPT ![c] = y]
  BY DEF Extended
<1> HIDE DEF t, g
<1>4. y \in Object /\ y.type = h[c].type /\ y.refc = h[c].refc /\ y.els = t
  BY <1>1, <1>2 DEF Object
<1> HIDE DEF y
<1>5. g \in [Obj -> Object] /\ g[c] = y /\ \A o \in Obj : o # c => g[o] = h[o]
  BY <1>3, <1>4
<1> QED
  BY <1>4, <1>5 DEF Appended, g, t

\* An item of a merge: a key is made, the pair is stored, and the merge
\* gives up its reference to the value or takes one.
LEMMA ItemSound ==
  ASSUME NEW h, NEW r, Sound(h, <<>>, r), NEW k \in Obj, h[k].type = "none",
         NEW d \in Obj, h[d].refc > 0, NEW v \in Obj, r[v] > 0
  PROVE  LET g == Extended(Made(h, k, "leaf", 0), d, <<k, v>>)
         IN  /\ Sound(g, <<>>, Less(r, v))
             /\ Sound(Raised(g, v), <<>>, r)
             /\ \A o \in Obj : h[o].refc > 0 => g[o].refc > 0
             /\ \A n \in Nat : Room(h, n + 2) => Room(g, n)
<1> DEFINE a == Made(h, k, "leaf", 0)
           s == <<k, v>>
           g == Extended(a, d, s)
           q == More(r, k)
<1>1. h \in [Obj -> Object] /\ r \in [Obj -> Nat] /\ h[k] = NoObject /\ r[k] = 0
  BY FreePlace DEF Sound
<1>2. "leaf" \in Kinds \ {"none"} /\ 0 \in Nat
  BY DEF Kinds
<1>3. Sound(a, <<>>, q)
  BY <1>2, MakeSound
<1>4. a \in [Obj -> Object] /\ q \in [Obj -> Nat]
  BY <1>3 DEF Sound
<1>5. a[k] = New("leaf", <<>>, 0) /\ \A o \in Obj : o # k => a[o] = h[o]
  BY <1>1 DEF Made
<1>6. \A o \in Obj : h[o].refc > 0 => o # k
  BY <1>1 DEF NoObject
<1>7. \A o \in Obj : DOMAIN a[o].els = DOMAIN h[o].els
  BY <1>1, <1>5 DEF New, NoObject
<1>8. \A o \in Obj : q[o] = r[o] + (IF k = o THEN 1 ELSE 0)
  BY <1>1 DEF More
<1> HIDE DEF a, q
<1>9. /\ s \in Seq(Obj) /\ Len(s) = 2
      /\ \A o \in Obj : Count(s, o) = (IF k = o THEN 1 ELSE 0) + (IF v = o THEN 1 ELSE 0)
  BY CountPair
<1> HIDE DEF s
<1>10. Appended(a, g, d, s)
  BY <1>4, <1>9, ExtendedAppended
<1> HIDE DEF g
<1>11. Whole(<<>>, d)
  BY DEF Whole, GivenBack
<1>12. a[d].refc > 0
  BY <1>5, <1>6
<1>13. \A o \in Obj : Count(s, o) <= q[o]
  <2>1. TAKE o \in Obj
  <2>2. r[o] \in Nat /\ (v = o => r[o] > 0)
    BY <1>1
  <2> QED
    BY <1>8, <1>9, <2>2
<1>14. Sound(g, <<>>, Minus(q, s))
  BY <1>3, <1>9, <1>10, <1>11, <1>12, <1>13, AppendSound
<1>15. Minus(q, s) = Less(r, v)
  <2>1. Less(r, v) = [o \in Obj |-> IF o = v THEN r[o] - 1 ELSE r[o]]
    BY <1>1 DEF Less
  <2>2. ASSUME NEW o \in Obj
        PROVE  q[o] - Count(s, o) = IF o = v THEN r[o] - 1 ELSE r[o]
    <3>1. r[o] \in Nat
      BY <1>1
    <3> QED
      BY <1>8, <1>9, <3>1
  <2> QED
    BY <2>1, <2>2 DEF Minus
<1>16. \A o \in Obj : h[o].refc > 0 => g[o].refc > 0
  BY <1>5, <1>6, <1>10 DEF Appended
<1>17. Less(r, v) \in [Obj -> Nat]
  BY <1>14, <1>15 DEF Sound
<1>18. h[v].refc > 0
  <2>1. r[v] \in Nat /\ h[v].refc \in Nat /\ r[v] <= h[v].refc
    BY SoundObject
  <2> QED
    BY <2>1
<1>19. Sound(Raised(g, v), <<>>, More(Less(r, v), v))
  BY <1>14, <1>15, <1>16, <1>18, RaiseSound
<1>20. More(Less(r, v), v) = r
  <2>1. Less(r, v) = [o \in Obj |-> IF o = v THEN r[o] - 1 ELSE r[o]]
    BY <1>1 DEF Less
  <2>2. More(Less(r, v), v) = [o \in Obj |-> IF o = v THEN r[o] - 1 + 1 ELSE r[o]]
    BY <2>1 DEF More
  <2>3. \A o \in Obj : r[o] \in Nat /\ r[o] - 1 + 1 = r[o]
    BY <1>1
  <2>4. r = [o \in Obj |-> r[o]]
    BY <1>1
  <2> QED
    BY <2>2, <2>3, <2>4
<1>21. \A n \in Nat : Room(h, n + 2) => Room(g, n)
  BY <1>7, <1>9, <1>10, PlacesSame, RoomAppended
<1> QED
  BY <1>14, <1>15, <1>16, <1>19, <1>20, <1>21 DEF g, a, s

\* The dictionary and the value of an item are there, and the value has a
\* reference outside of containers.
LEMMA ItemObjects ==
  ASSUME IInv, Calling, Top.op = "merge", Top.vals # <<>>
  PROVE  /\ Top.obj \in Obj /\ heap[Top.obj].refc > 0
         /\ heap[Top.obj].type # "none"
         /\ Head(Top.vals) \in Obj /\ Roots(held, stack)[Head(Top.vals)] > 0
         /\ heap[Head(Top.vals)].type # "none"
<1> DEFINE f == Top
           q == Roots(held, stack)
           v == Head(f.vals)
           t == Tail(f.vals)
<1>1. /\ f \in FrameType /\ stack[1] = f /\ stack # <<>>
      /\ held \in [Obj -> Nat]
      /\ Sound(heap, <<f>>, q) /\ q \in [Obj -> Nat]
      /\ \A o \in Obj : q[o] =
              held[o] + ((IF f.owned THEN Count(f.vals, o) ELSE 0)
                           + (IF f.new /\ f.obj = o THEN 1 ELSE 0))
  BY LoneCall
<1>2. /\ heap[f.obj].refc > 0
      /\ ~f.owned => \A x \in DOMAIN f.vals : held[f.vals[x]] > 0
  BY <1>1 DEF IInv, CallOK
<1>3. f.vals # <<>>
  OBVIOUS
<1> HIDE DEF f, q
<1>4. f.vals \in Seq(Obj) /\ f.obj \in Obj /\ f.owned \in BOOLEAN /\ f.new \in BOOLEAN
  BY <1>1 DEF FrameType
<1>5. /\ v \in Obj /\ t \in Seq(Obj)
      /\ Count(f.vals, v) = Count(t, v) + 1
      /\ 1 \in DOMAIN f.vals /\ v = f.vals[1]
  BY <1>3, <1>4, CountTail
<1>6. Count(t, v) \in Nat /\ held[v] \in Nat
  BY <1>1, <1>5, CountType
<1> HIDE DEF v, t
<1>7. q[v] > 0
  <2>1. CASE f.owned
    <3>1. q[v] = held[v] + (Count(f.vals, v) + (IF f.new /\ f.obj = v THEN 1 ELSE 0))
      BY <1>1, <1>5, <2>1
    <3> QED
      BY <1>5, <1>6, <3>1
  <2>2. CASE ~f.owned
    <3>1. /\ q[v] = held[v] + (0 + (IF f.new /\ f.obj = v THEN 1 ELSE 0))
          /\ held[v] > 0
      BY <1>1, <1>2, <1>5, <2>2
    <3> QED
      BY <1>6, <3>1
  <2> QED
    BY <2>1, <2>2
<1>8. /\ q[v] \in Nat /\ heap[v].refc \in Nat /\ q[v] <= heap[v].refc
      /\ heap[v].refc > 0 => heap[v].type # "none"
      /\ heap[f.obj].refc > 0 => heap[f.obj].type # "none"
  BY <1>1, <1>4, <1>5, SoundObject
<1>9. heap[v].refc > 0
  BY <1>7, <1>8
<1> QED
  BY <1>2, <1>4, <1>5, <1>7, <1>8, <1>9 DEF f, q, v

LEMMA ItemForm ==
  ASSUME IInv, MergeItem
  PROVE  \E k \in Free :
           LET g == Extended(Made(heap, k, "leaf", 0), Top.obj, <<k, Head(Top.vals)>>)
           IN  /\ Top.owned => heap' = [g EXCEPT ![Head(Top.vals)].refc = @]
               /\ ~Top.owned => heap' = Raised(g, Head(Top.vals))
<1> DEFINE v == Head(Top.vals)
           d == Top.obj
           own == Top.owned
<1>1. PICK k \in Free :
        heap' = [heap EXCEPT ![k] = New("leaf", <<>>, 0),
                             ![d].els = @ \o <<k, v>>,
                             ![v].refc = IF own THEN @ ELSE @ + 1]
  BY DEF MergeItem
<1>2. /\ d \in Obj /\ heap[d].type # "none" /\ v \in Obj /\ heap[v].type # "none"
  BY ItemObjects DEF MergeItem, In
<1>3. heap \in [Obj -> Object]
  BY DEF IInv, Sound
<1>4. k \in Obj /\ k # d /\ k # v
  BY <1>2 DEF Free, Live
<1> DEFINE new == New("leaf", <<>>, 0)
           s == <<k, v>>
           a == Made(heap, k, "leaf", 0)
           g == Extended(a, d, s)
<1>5. a = [heap EXCEPT ![k] = new]
  BY DEF Made
<1>6. heap' = [heap EXCEPT ![k] = new, ![d].els = @ \o s,
                           ![v].refc = IF own THEN @ ELSE @ + 1]
  BY <1>1
<1>7. g = [a EXCEPT ![d].els = @ \o s]
  BY DEF Extended
<1> HIDE DEF a, g, s, new, own, v, d
<1>8. a[d] = heap[d] /\ a[v] = heap[v] /\ DOMAIN a = Obj
  BY <1>2, <1>3, <1>4, <1>5
<1>9. g = [[heap EXCEPT ![k] = new] EXCEPT ![d].els = heap[d].els \o s]
  BY <1>5, <1>7, <1>8
<1>10. g[v].refc = heap[v].refc
  <2>1. CASE v = d
    <3>1. g[d] = [a[d] EXCEPT !.els = a[d].els \o s]
      BY <1>2, <1>7, <1>8
    <3>2. heap[d] \in Object
      BY <1>2, <1>3
    <3> QED
      BY <1>8, <2>1, <3>1, <3>2 DEF Object
  <2>2. CASE v # d
    BY <1>2, <1>7, <1>8, <2>2
  <2> QED
    BY <2>1, <2>2
<1>11. heap' = [g EXCEPT ![v].refc = IF own THEN heap[v].refc ELSE heap[v].refc + 1]
  BY <1>6, <1>9
<1>12. own => heap' = [g EXCEPT ![v].refc = @]
  BY <1>10, <1>11
<1>13. ~own => heap' = Raised(g, v)
  BY <1>10, <1>11 DEF Raised
<1> QED
  BY <1>12, <1>13 DEF g, a, s, v, d, own

\* A field that is given its own value stays.
LEMMA RefcSame ==
  ASSUME NEW h \in [Obj -> Object], NEW v \in Obj
  PROVE  [h EXCEPT ![v].refc = @] = h
<1>1. h[v] \in Object /\ [h[v] EXCEPT !.refc = @] = h[v]
  BY DEF Object
<1>2. [h EXCEPT ![v].refc = @] = [h EXCEPT ![v] = [h[v] EXCEPT !.refc = @]]
  OBVIOUS
<1>3. [h EXCEPT ![v] = h[v]] = h
  OBVIOUS
<1> QED
  BY <1>1, <1>2, <1>3

LEMMA MergeItemStep ==
  ASSUME IInv, MergeItem
  PROVE  IInv'
<1> DEFINE f == Top
           q == Roots(held, stack)
           v == Head(f.vals)
           t == Tail(f.vals)
           g == NextValue(f)
<1>1. /\ Calling /\ f.op = "merge" /\ f.vals # <<>> /\ held' = held
      /\ stack' = Append(Below, g)
  BY DEF MergeItem, In, NextValue
<1>2. /\ f \in FrameType /\ Below = <<>> /\ stack[1] = f /\ stack # <<>>
      /\ held \in [Obj -> 0..MaxHeld] /\ held \in [Obj -> Nat]
      /\ Room(heap, 0) /\ Sound(heap, <<f>>, q) /\ q \in [Obj -> Nat]
      /\ heap \in [Obj -> Object]
      /\ \A o \in Obj : q[o] =
              held[o] + ((IF f.owned THEN Count(f.vals, o) ELSE 0)
                           + (IF f.new /\ f.obj = o THEN 1 ELSE 0))
  BY <1>1, LoneCall
<1>3. /\ f.new => held[f.obj] = 0
      /\ heap[f.obj].refc > 0
      /\ ~f.owned => \A x \in DOMAIN f.vals : held[f.vals[x]] > 0
  BY <1>1, <1>2 DEF IInv, CallOK
<1>4. Room(heap, 2 * Len(f.vals))
  BY <1>1, BoundedRoom DEF IInv, RoomOK, In
<1>5. PICK k \in Free :
        LET e == Extended(Made(heap, k, "leaf", 0), f.obj, <<k, v>>)
        IN  /\ f.owned => heap' = [e EXCEPT ![v].refc = @]
            /\ ~f.owned => heap' = Raised(e, v)
  BY ItemForm
<1> DEFINE e == Extended(Made(heap, k, "leaf", 0), f.obj, <<k, v>>)
<1>6. /\ f.owned => heap' = [e EXCEPT ![v].refc = @]
      /\ ~f.owned => heap' = Raised(e, v)
      /\ k \in Obj /\ heap[k].type = "none"
  BY <1>5 DEF Free, Live
<1> HIDE DEF f, q
<1>7. /\ g \in FrameType /\ g.op = f.op /\ g.obj = f.obj /\ g.vals = t
      /\ g.owned = f.owned /\ g.new = f.new
  BY <1>1, <1>2, NextValueFrame
<1>8. f.vals \in Seq(Obj) /\ f.obj \in Obj /\ f.owned \in BOOLEAN /\ f.new \in BOOLEAN
  BY <1>2 DEF FrameType
<1>9. /\ v \in Obj /\ t \in Seq(Obj) /\ Len(t) = Len(f.vals) - 1
      /\ \A o \in Obj : Count(f.vals, o) = Count(t, o) + (IF v = o THEN 1 ELSE 0)
      /\ \A x \in DOMAIN t : x + 1 \in DOMAIN f.vals /\ t[x] = f.vals[x + 1]
      /\ 1 \in DOMAIN f.vals /\ v = f.vals[1]
  BY <1>1, <1>8, CountTail
<1>10. \A o \in Obj : Count(t, o) \in Nat /\ held[o] \in Nat
  BY <1>2, <1>9, CountType
<1>11. Len(t) \in Nat /\ 2 * Len(f.vals) = 2 * Len(t) + 2 /\ 2 * Len(t) \in Nat
  BY <1>8, <1>9, LenProperties
<1> HIDE DEF g, v, t
<1>12. q[v] > 0
  BY <1>1, ItemObjects DEF f, q, v
<1>13. Sound(heap, <<>>, q)
  BY <1>1, <1>2, QuietSound
<1>14. /\ Sound(e, <<>>, Less(q, v)) /\ Sound(Raised(e, v), <<>>, q)
       /\ e[f.obj].refc > 0
       /\ \A n \in Nat : Room(heap, n + 2) => Room(e, n)
  BY <1>3, <1>6, <1>8, <1>9, <1>12, <1>13, ItemSound
<1> HIDE DEF e
<1>15. e \in [Obj -> Object]
  BY <1>14 DEF Sound
<1>16. Room(e, 2 * Len(t)) /\ Room(e, 0)
  BY <1>4, <1>11, <1>14, <1>15, RoomLess
<1>17. CASE f.owned
  <2>1. heap' = e
    BY <1>6, <1>9, <1>15, <1>17, RefcSame
  <2>2. \A o \in Obj : Less(q, v)[o] =
          held'[o] + ((IF g.owned THEN Count(g.vals, o) ELSE 0)
                        + (IF g.new /\ g.obj = o THEN 1 ELSE 0))
    <3>1. Less(q, v) = [o \in Obj |-> IF o = v THEN q[o] - 1 ELSE q[o]]
      BY <1>2 DEF Less
    <3>2. ASSUME NEW o \in Obj
          PROVE  (IF o = v THEN q[o] - 1 ELSE q[o]) =
                   held[o] + (Count(t, o) + (IF f.new /\ f.obj = o THEN 1 ELSE 0))
      <4>1. /\ q[o] = held[o] + (Count(f.vals, o) + (IF f.new /\ f.obj = o THEN 1 ELSE 0))
            /\ Count(f.vals, o) = Count(t, o) + (IF v = o THEN 1 ELSE 0)
            /\ held[o] \in Nat /\ Count(t, o) \in Nat
        BY <1>2, <1>9, <1>10, <1>17
      <4> QED
        BY <4>1
    <3> QED
      BY <1>1, <1>7, <1>17, <3>1, <3>2
  <2>3. Sound(heap', <<>>, Less(q, v)) /\ heap'[g.obj].refc > 0
        /\ Room(heap', 0) /\ Room(heap', 2 * Len(g.vals))
    BY <1>7, <1>14, <1>16, <2>1
  <2>4. /\ g.op \in {"merge", "undo", "overrun"} /\ held' \in [Obj -> 0..MaxHeld]
        /\ (g.new => held'[g.obj] = 0) /\ g.op # "overrun" /\ stack' = <<g>> /\ g.owned
    BY <1>1, <1>2, <1>3, <1>7, <1>17
  <2> QED
    BY <1>7, <2>2, <2>3, <2>4, QuietNext
<1>18. CASE ~f.owned
  <2>1. /\ heap' = Raised(e, v) /\ \A o \in Obj : heap'[o].els = e[o].els
        /\ heap'[g.obj].refc > 0
    <3>1. heap' = Raised(e, v)
      BY <1>6, <1>18
    <3>2. e[v].refc \in Nat /\ e[v].refc + 1 \in Nat /\ e[v].refc + 1 > 0
      BY <1>9, <1>15, ObjectType
    <3>3. heap' = [e EXCEPT ![v].refc = e[v].refc + 1]
      BY <3>1 DEF Raised
    <3> QED
      BY <1>7, <1>8, <1>9, <1>14, <1>15, <3>1, <3>2, <3>3, Recounted
  <2>2. \A o \in Obj : q[o] =
          held'[o] + ((IF g.owned THEN Count(g.vals, o) ELSE 0)
                        + (IF g.new /\ g.obj = o THEN 1 ELSE 0))
    BY <1>1, <1>2, <1>7, <1>18
  <2>3. Sound(heap', <<>>, q) /\ Room(heap', 0) /\ Room(heap', 2 * Len(g.vals))
    BY <1>7, <1>14, <1>16, <2>1, PlacesSame
  <2>4. /\ g.op \in {"merge", "undo", "overrun"} /\ held' \in [Obj -> 0..MaxHeld]
        /\ (g.new => held'[g.obj] = 0) /\ g.op # "overrun" /\ stack' = <<g>>
        /\ \A x \in DOMAIN g.vals : held'[g.vals[x]] > 0
    BY <1>1, <1>2, <1>3, <1>7, <1>9, <1>18
  <2> QED
    BY <1>7, <2>1, <2>2, <2>3, <2>4, QuietNext
<1> QED
  BY <1>8, <1>17, <1>18

(***************************************************************************)
(* A dictionary has a value for each key: elements come and go in pairs.   *)
(***************************************************************************)
LEMMA PairsSame ==
  ASSUME NEW h, NEW g, Pairs(h),
         \A o \in Obj : g[o].type = h[o].type /\ g[o].els = h[o].els
  PROVE  Pairs(g)
BY DEF Pairs

LEMMA PairsChanged ==
  ASSUME NEW h, NEW g, Pairs(h), NEW d \in Obj, \A o \in Obj : o # d => g[o] = h[o],
         g[d].type = "dict" => Len(g[d].els) % 2 = 0
  PROVE  Pairs(g)
BY DEF Pairs

\* A count may be any number.
LEMMA RecountedFields ==
  ASSUME NEW h \in [Obj -> Object], NEW d \in Obj, NEW n
  PROVE  \A o \in Obj : /\ [h EXCEPT ![d].refc = n][o].type = h[o].type
                        /\ [h EXCEPT ![d].refc = n][o].els = h[o].els
<1>1. h[d] \in Object
  OBVIOUS
<1>2. [h[d] EXCEPT !.refc = n].type = h[d].type /\ [h[d] EXCEPT !.refc = n].els = h[d].els
  BY <1>1 DEF Object
<1> QED
  BY <1>2

LEMMA PairsDropped ==
  ASSUME NEW h \in [Obj -> Object], NEW d \in Obj, Pairs(h)
  PROVE  Pairs(Dropped(h, d)) /\ Pairs(Raised(h, d))
<1>1. \A o \in Obj : Dropped(h, d)[o].type = h[o].type /\ Dropped(h, d)[o].els = h[o].els
  BY RecountedFields DEF Dropped
<1>2. \A o \in Obj : Raised(h, d)[o].type = h[o].type /\ Raised(h, d)[o].els = h[o].els
  BY RecountedFields DEF Raised
<1> QED
  BY <1>1, <1>2, PairsSame

LEMMA PairsIncrefs ==
  ASSUME NEW h \in [Obj -> Object], NEW s \in Seq(Obj), Pairs(h)
  PROVE  Pairs(Increfs(h, s)) /\ Increfs(h, s) \in [Obj -> Object]
BY IncrefsFields, PairsSame

\* An object is made, no dictionary or an empty one.
LEMMA PairsCreated ==
  ASSUME NEW h \in [Obj -> Object], NEW o \in Obj, NEW type, NEW s, NEW cap, Pairs(h),
         type # "dict" \/ s = <<>>
  PROVE  Pairs(Created(h, o, type, s, cap))
<1> DEFINE g == Created(h, o, type, s, cap)
<1>1. g[o] = New(type, s, cap) /\ \A c \in Obj : c # o => g[c] = h[c]
  BY DEF Created
<1>2. g[o].type = type /\ g[o].els = s
  BY <1>1 DEF New
<1>3. s = <<>> => Len(s) % 2 = 0
  <2>1. Len(<<>>) = 0 /\ 0 % 2 = 0
    OBVIOUS
  <2> QED
    BY <2>1
<1> HIDE DEF g
<1>4. Pairs(g)
  BY <1>1, <1>2, <1>3, PairsChanged
<1> QED
  BY <1>4 DEF g

\* Two more elements.
LEMMA TwoMore ==
  ASSUME NEW n \in Nat, n % 2 = 0
  PROVE  (n + 2) % 2 = 0
OBVIOUS

LEMMA PairsAppended ==
  ASSUME NEW h, NEW g, NEW c \in Obj, NEW s \in Seq(Obj), Appended(h, g, c, s), Pairs(h),
         h[c].type # "dict" \/ Len(s) = 2
  PROVE  Pairs(g)
<1>1. /\ h \in [Obj -> Object] /\ g[c].els = h[c].els \o s
      /\ g[c].type = h[c].type
      /\ \A o \in Obj : o # c => g[o] = h[o]
  BY DEF Appended
<1>2. h[c].els \in Seq(Obj) /\ Len(h[c].els) \in Nat
  BY <1>1, ObjectType
<1>3. Len(g[c].els) = Len(h[c].els) + Len(s)
  BY <1>1, <1>2, ConcatProperties
<1>4. g[c].type = "dict" => Len(g[c].els) % 2 = 0
  <2>1. SUFFICES ASSUME g[c].type = "dict"
                 PROVE  Len(g[c].els) % 2 = 0
    OBVIOUS
  <2>2. Len(h[c].els) % 2 = 0 /\ Len(g[c].els) = Len(h[c].els) + 2
    BY <1>1, <1>3, <2>1 DEF Pairs
  <2> QED
    BY <1>2, <2>2, TwoMore
<1> QED
  BY <1>1, <1>4, PairsChanged

\* The type of a list or an object not there is no dictionary's.
LEMMA PairsShorter ==
  ASSUME NEW h, NEW g, NEW c \in Obj, NEW s, Appended(g, h, c, s), Pairs(h),
         h[c].type # "dict"
  PROVE  Pairs(g) /\ g \in [Obj -> Object]
<1>1. /\ g[c].type # "dict" /\ \A o \in Obj : o # c => g[o] = h[o]
      /\ g \in [Obj -> Object]
  BY DEF Appended
<1> QED
  BY <1>1, PairsChanged

LEMMA PairsStep ==
  ASSUME IInv, Pairs(heap), Step
  PROVE  Pairs(heap')
<1>1. heap \in [Obj -> Object] /\ stack \in Seq(FrameType)
  BY DEF IInv, Sound
<1>2. ASSUME Calling
      PROVE  Len(stack) \in DOMAIN stack /\ Top \in FrameType /\ Top.obj \in Obj
                /\ Top.vals \in Seq(Obj)
  <2>1. Len(stack) \in DOMAIN stack
    BY <1>1, <1>2, LastFrame DEF Calling
  <2> QED
    BY <1>1, <2>1, FrameFields DEF Top
<1>3. CASE FreeElement
  <2>1. /\ Calling /\ Top.op = "free" /\ Top.next <= Len(heap[Top.obj].els)
        /\ heap' = Dropped(heap, heap[Top.obj].els[Top.next])
    BY <1>3, DecrefForm DEF FreeElement, In
  <2>2. Top.next \in 1..(Len(heap[Top.obj].els) + 1) /\ Top.obj \in Obj
    BY <1>2, <2>1 DEF IInv, Sound, DeletersOK, Top
  <2>3. Len(heap[Top.obj].els) \in Nat
    BY <1>1, <2>2, ObjectType
  <2>4. Top.next \in 1..Len(heap[Top.obj].els)
    BY <2>1, <2>2, <2>3
  <2>5. heap[Top.obj].els[Top.next] \in Obj
    BY <1>1, <2>2, <2>4, ObjectType
  <2> QED
    BY <1>1, <2>1, <2>5, PairsDropped
<1>4. CASE FreeMemory
  <2>1. heap' = Freed(heap, Top.obj) /\ Top.obj \in Obj
    BY <1>2, <1>4 DEF FreeMemory, Freed, In
  <2>2. /\ heap'[Top.obj].type # "dict"
        /\ \A o \in Obj : o # Top.obj => heap'[o] = heap[o]
    BY <1>1, <2>1 DEF Freed, NoObject
  <2> QED
    BY <2>1, <2>2, PairsChanged
<1>5. CASE DictStore
  <2>1. /\ Calling /\ Top.op = "store"
        /\ heap' = Stored(heap, Top.obj, Top.slot, Top.vals[1])
    BY <1>5 DEF DictStore, In, Stored
  <2>2. Top \in FrameType /\ stack[1] = Top /\ stack # <<>>
    BY <2>1, LoneCall
  <2>3. Top.slot \in DOMAIN heap[Top.obj].els /\ Len(Top.vals) = 1
    BY <2>1, <2>2 DEF IInv, CallOK
  <2>4. Top.obj \in Obj /\ Top.vals[1] \in Obj
    BY <1>2, <2>1, <2>3, ElementOfSeq
  <2>5. /\ heap' \in [Obj -> Object]
        /\ \A o \in Obj : heap'[o].type = heap[o].type
        /\ \A o \in Obj : DOMAIN heap'[o].els = DOMAIN heap[o].els
    BY <1>1, <2>1, <2>3, <2>4, StoredObject
  <2>6. ASSUME NEW o \in Obj
        PROVE  Len(heap'[o].els) = Len(heap[o].els)
    <3>1. /\ Len(heap'[o].els) \in Nat /\ DOMAIN heap'[o].els = 1..Len(heap'[o].els)
          /\ Len(heap[o].els) \in Nat /\ DOMAIN heap[o].els = 1..Len(heap[o].els)
      BY <1>1, <2>5, ObjectType
    <3> QED
      BY <2>5, <3>1
  <2> QED
    BY <2>5, <2>6 DEF Pairs
<1>6. CASE MergeItem
  <2>1. /\ Calling /\ Top.op = "merge" /\ Top.vals # <<>>
    BY <1>6 DEF MergeItem, In
  <2> DEFINE v == Head(Top.vals)
  <2>2. v \in Obj /\ Top.obj \in Obj
    BY <1>2, <2>1, CountTail
  <2>3. PICK k \in Free :
          LET e == Extended(Made(heap, k, "leaf", 0), Top.obj, <<k, v>>)
          IN  /\ Top.owned => heap' = [e EXCEPT ![v].refc = @]
              /\ ~Top.owned => heap' = Raised(e, v)
    BY <1>6, ItemForm
  <2> DEFINE s == <<k, v>>
             a == Made(heap, k, "leaf", 0)
             e == Extended(a, Top.obj, s)
  <2>4. k \in Obj
    BY DEF Free
  <2>5. s \in Seq(Obj) /\ Len(s) = 2
    BY <2>2, <2>4, CountPair
  <2>6. New("leaf", <<>>, 0) \in Object
    BY EmptySeq DEF New, Object, Kinds
  <2>7. a \in [Obj -> Object] /\ Pairs(a)
    <3>1. a = Created(heap, k, "leaf", <<>>, 0)
      BY DEF Made, Created
    <3>2. a = [heap EXCEPT ![k] = New("leaf", <<>>, 0)]
      BY DEF Made
    <3> HIDE DEF a
    <3>3. Pairs(a)
      BY <1>1, <2>4, <3>1, PairsCreated
    <3> QED
      BY <1>1, <2>4, <2>6, <3>2, <3>3
  <2>8. e = Extended(a, Top.obj, s)
    OBVIOUS
  <2> HIDE DEF a, s
  <2>9. Appended(a, e, Top.obj, s)
    BY <2>2, <2>5, <2>7, ExtendedAppended
  <2>10. /\ Top.owned => heap' = [e EXCEPT ![v].refc = @]
         /\ ~Top.owned => heap' = Raised(e, v)
    BY <2>3 DEF a, s
  <2> HIDE DEF e, v
  <2>11. Pairs(e) /\ e \in [Obj -> Object]
    BY <2>2, <2>5, <2>7, <2>9, PairsAppended DEF Appended
  <2>12. CASE Top.owned
    BY <2>2, <2>10, <2>11, <2>12, RefcSame
  <2>13. CASE ~Top.owned
    BY <2>2, <2>10, <2>11, <2>13, PairsDropped
  <2> QED
    BY <2>12, <2>13
<1>7. CASE UndoValue
  <2>1. Calling /\ Top.vals # <<>> /\ heap' = Dropped(heap, Head(Top.vals))
    BY <1>7, DecrefForm DEF UndoValue, In
  <2>2. Head(Top.vals) \in Obj
    BY <1>2, <2>1, CountTail
  <2> QED
    BY <1>1, <2>1, <2>2, PairsDropped
<1>8. CASE Undone
  <2>1. Calling /\ (heap' = heap \/ heap' = Dropped(heap, Top.obj))
    BY <1>8, DecrefForm DEF Undone, In
  <2> QED
    BY <1>1, <1>2, <2>1, PairsDropped
<1>9. CASE MergeFails \/ MergeEnds
  BY <1>9 DEF MergeFails, MergeEnds
<1> QED
  BY <1>3, <1>4, <1>5, <1>6, <1>7, <1>8, <1>9 DEF Step

LEMMA PairsCall ==
  ASSUME IInv, Pairs(heap), stack = <<>>, Call
  PROVE  Pairs(heap')
<1>1. heap \in [Obj -> Object] /\ held \in [Obj -> 0..MaxHeld]
  BY DEF IInv, Sound
<1>2. \A s \in Args : s \in Seq(Obj)
  BY <1>1, Passed
<1>3. ASSUME NEW o \in Obj, Make(o)
      PROVE  Pairs(heap')
  <2>1. heap' = Created(heap, o, "leaf", <<>>, 0)
    BY <1>3 DEF Make, Created
  <2> QED
    BY <1>1, <2>1, PairsCreated
<1>4. ASSUME NEW o \in Obj, NewRef(o)
      PROVE  Pairs(heap')
  <2>1. heap' = Raised(heap, o)
    BY <1>4 DEF NewRef, Raised
  <2> QED
    BY <1>1, <2>1, PairsDropped
<1>5. ASSUME NEW o \in Obj, Drop(o)
      PROVE  Pairs(heap')
  <2>1. heap' = Dropped(heap, o)
    BY <1>5, DecrefForm DEF Drop
  <2> QED
    BY <1>1, <2>1, PairsDropped
<1>6. ASSUME NEW l \in Obj, ListPop(l) \/ ListPopU(l)
      PROVE  Pairs(heap')
  <2>1. /\ heap[l].type # "dict" /\ heap[l].els # <<>>
        /\ heap' = Shortened(l) \/ heap' = Dropped(Shortened(l), LastOf(l))
    BY <1>6, DecrefForm DEF ListPop, ListPopU, List
  <2>2. LastOf(l) \in Obj /\ Appended(Shortened(l), heap, l, <<LastOf(l)>>)
    BY <1>1, <2>1, ShortenedAppended
  <2>3. Pairs(Shortened(l)) /\ Shortened(l) \in [Obj -> Object]
    BY <2>1, <2>2, PairsShorter
  <2> QED
    BY <2>1, <2>2, <2>3, PairsDropped
<1>7. ASSUME NEW o \in Obj, NEW s \in Args, TupleNew(o, s) \/ TupleNewZ(o, s)
      PROVE  Pairs(heap')
  <2>1. heap' = Created(Increfs(heap, s), o, "tuple", s, 0) \/ heap' = Created(heap, o, "tuple", s, 0)
    BY <1>7 DEF TupleNew, TupleNewZ, Created
  <2> QED
    BY <1>1, <1>2, <2>1, PairsCreated, PairsIncrefs
<1>8. ASSUME NEW o \in Obj, NEW s \in Args, ListNew(o, s) \/ ListNewZ(o, s)
      PROVE  Pairs(heap')
  <2>1. \/ heap' = Created(Increfs(heap, s \o s), o, "list", s \o s, Grown(0, Len(s)))
        \/ heap' = Created(heap, o, "list", s, Grown(0, Len(s)))
    BY <1>8 DEF ListNew, ListNewZ, Created
  <2>2. s \o s \in Seq(Obj)
    BY <1>2, ConcatProperties
  <2> QED
    BY <1>1, <2>1, <2>2, PairsCreated, PairsIncrefs
<1>9. ASSUME NEW l \in Obj, NEW s \in Args, ListPushX(l, s) \/ ListPushZ(l, s)
      PROVE  Pairs(heap')
  <2>1. /\ heap[l].type = "list"
        /\ heap' = Pushed(Increfs(heap, s), l, s) \/ heap' = Pushed(heap, l, s)
    BY <1>9 DEF ListPushX, ListPushZ, List
  <2> DEFINE h == Increfs(heap, s)
  <2>2. h \in [Obj -> Object] /\ Pairs(h) /\ h[l].type = heap[l].type
    BY <1>1, <1>2, PairsIncrefs, IncrefsFields
  <2>3. heap[l].type # "dict" /\ h[l].type # "dict"
    BY <2>1, <2>2
  <2> HIDE DEF h
  <2>4. Pairs(Pushed(h, l, s)) /\ Pairs(Pushed(heap, l, s))
    BY <1>1, <1>2, <2>2, <2>3, PushedAppended, PairsAppended
  <2> QED
    BY <2>1, <2>4 DEF h
<1>10. ASSUME NEW o \in Obj, NEW s \in Args, DictNew(o, s) \/ DictNewZ(o, s)
       PROVE  Pairs(heap')
  <2>1. heap' = Created(heap, o, "dict", <<>>, 0)
    BY <1>10 DEF DictNew, DictNewZ, Created
  <2> QED
    BY <1>1, <2>1, PairsCreated
<1>11. ASSUME NEW d \in Held, NEW v \in Held, NEW k \in Held, DictInsert(d, k, v)
       PROVE  Pairs(heap')
  <2> DEFINE s == <<k, v>>
             h == Increfs(heap, s)
  <2>1. d \in Obj /\ v \in Obj /\ k \in Obj
    BY DEF Held
  <2>2. heap' = Extended(h, d, s)
    BY <1>11 DEF DictInsert, Extended
  <2>3. s \in Seq(Obj) /\ Len(s) = 2
    BY <2>1, CountPair
  <2> HIDE DEF s
  <2>4. h \in [Obj -> Object] /\ Pairs(h)
    BY <1>1, <2>3, PairsIncrefs
  <2> HIDE DEF h
  <2>5. Appended(h, Extended(h, d, s), d, s)
    BY <2>1, <2>3, <2>4, ExtendedAppended
  <2> QED
    BY <2>1, <2>2, <2>3, <2>4, <2>5, PairsAppended
<1>12. ASSUME NEW d \in Held, NEW v \in Held, NEW x, DictReplace(d, x, v)
       PROVE  Pairs(heap')
  <2> DEFINE s == <<v>>
             h == Increfs(heap, s)
             e == heap[d].els[x + 1]
  <2>1. d \in Obj /\ v \in Obj
    BY DEF Held
  <2>2. heap' = Dropped(h, e) /\ heap[d].type = "dict" /\ x \in DOMAIN heap[d].els /\ x % 2 = 1
    BY <1>12, DecrefForm DEF DictReplace, Dict, KeyAt
  <2>3. e \in Obj
    <3>1. DOMAIN heap[d].els = 1..Len(heap[d].els) /\ Len(heap[d].els) \in Nat
      BY <1>1, <2>1, ObjectType
    <3>2. Len(heap[d].els) % 2 = 0
      BY <2>1, <2>2 DEF Pairs
    <3>3. x + 1 \in DOMAIN heap[d].els
      BY <2>2, <3>1, <3>2, ValueAfter
    <3> QED
      BY <1>1, <2>1, <3>3, ObjectType
  <2>4. s \in Seq(Obj)
    BY <2>1
  <2> HIDE DEF s, e
  <2>5. h \in [Obj -> Object] /\ Pairs(h)
    BY <1>1, <2>4, PairsIncrefs
  <2> HIDE DEF h
  <2> QED
    BY <2>2, <2>3, <2>5, PairsDropped
<1>13. ASSUME NEW l \in Obj, NEW s \in Args,
              ListOverrun(l, s) \/ DictMerge(l, s) \/ DictMergeZ(l, s)
       PROVE  Pairs(heap')
  BY <1>13 DEF ListOverrun, DictMerge, DictMergeZ
<1>14. CASE \E o \in Obj : Make(o) \/ NewRef(o) \/ Drop(o) \/ ListPop(o) \/ ListPopU(o)
  BY <1>3, <1>4, <1>5, <1>6, <1>14
<1>15. CASE \E o \in Obj : \E s \in Args :
              \/ TupleNew(o, s) \/ TupleNewZ(o, s)
              \/ ListNew(o, s) \/ ListNewZ(o, s)
              \/ ListPushX(o, s) \/ ListPushZ(o, s) \/ ListOverrun(o, s)
              \/ DictNew(o, s) \/ DictNewZ(o, s)
              \/ DictMerge(o, s) \/ DictMergeZ(o, s)
  BY <1>7, <1>8, <1>9, <1>10, <1>13, <1>15
<1>16. CASE \E d, v \in Held :
              \/ \E k \in Held : DictInsert(d, k, v)
              \/ \E x \in 1..MaxElems : DictReplace(d, x, v)
  BY <1>11, <1>12, <1>16
<1> QED
  BY <1>14, <1>15, <1>16 DEF Call

(***************************************************************************)
(* The invariant holds at first, and every step keeps it.                  *)
(***************************************************************************)
Inv == IInv /\ Pairs(heap)

LEMMA InitInv ==
  ASSUME Init
  PROVE  Inv
<1>1. /\ heap = [o \in Obj |-> NoObject] /\ held = [o \in Obj |-> 0] /\ stack = <<>>
  BY DEF Init
<1>2. NoObject \in Object /\ NoObject.els = <<>> /\ NoObject.type = "none" /\ NoObject.refc = 0
  BY EmptySeq DEF NoObject, Object, Kinds
<1>3. heap \in [Obj -> Object] /\ \A o \in Obj : heap[o] = NoObject
  BY <1>1, <1>2
<1>4. held \in [Obj -> 0..MaxHeld] /\ held \in [Obj -> Nat] /\ \A o \in Obj : held[o] = 0
  BY <1>1, BoundsAssumption
<1>5. stack \in Seq(FrameType) /\ DOMAIN stack = {}
  BY <1>1
<1>6. DeletersOK(heap, stack) /\ LifeOK(heap, stack)
  BY <1>2, <1>3, <1>5 DEF DeletersOK, LifeOK, DyingIn
<1>7. Counts(heap, stack, held)
  <2>1. SUFFICES ASSUME NEW o \in Obj
                 PROVE  heap[o].refc = held[o] + Cardinality(KeptIn(heap, stack, o))
    BY DEF Counts
  <2>2. \A c \in Obj : DOMAIN heap[c].els = {}
    BY <1>2, <1>3
  <2>3. KeptIn(heap, stack, o) = {}
    BY <2>2 DEF KeptIn
  <2>4. Cardinality(KeptIn(heap, stack, o)) = 0
    BY <2>3, FS_EmptySet
  <2>5. heap[o].refc = 0 /\ held[o] = 0
    BY <1>2, <1>3, <1>4
  <2> QED
    BY <2>4, <2>5
<1>8. Roots(held, stack) = held
  BY <1>1, <1>4, RootsNone
<1>9. Sound(heap, stack, Roots(held, stack))
  BY <1>3, <1>4, <1>5, <1>6, <1>7, <1>8 DEF Sound
<1>10. CallOK(heap, held, stack)
  BY <1>1, <1>5 DEF CallOK
<1>11. Bounded(0)
  <2>1. Places = {}
    BY <1>2, <1>3 DEF Places
  <2> QED
    BY <2>1, FS_EmptySet, BoundsAssumption DEF Bounded
<1>12. RoomOK
  BY <1>1, <1>11 DEF RoomOK, In, Calling
<1>13. Pairs(heap)
  BY <1>2, <1>3 DEF Pairs
<1> QED
  BY <1>4, <1>9, <1>10, <1>12, <1>13 DEF Inv, IInv

LEMMA StepInv ==
  ASSUME Inv, Step
  PROVE  IInv'
<1>1. IInv
  BY DEF Inv
<1>2. CASE FreeElement \/ FreeMemory
  BY <1>1, <1>2, FreeElementStep, FreeMemoryStep
<1>3. CASE DictStore
  BY <1>1, <1>3, DictStoreStep
<1>4. CASE MergeItem \/ MergeFails \/ MergeEnds
  BY <1>1, <1>4, MergeItemStep, MergeFailsStep, MergeEndsStep
<1>5. CASE UndoValue \/ Undone
  BY <1>1, <1>5, UndoValueStep, UndoneStep
<1> QED
  BY <1>2, <1>3, <1>4, <1>5 DEF Step

LEMMA CallInv ==
  ASSUME Inv, Call
  PROVE  IInv'
<1>1. IInv /\ Pairs(heap) /\ stack = <<>>
  BY DEF Inv, Call, Calling
<1>2. CASE \E o \in Obj : Make(o) \/ NewRef(o) \/ Drop(o) \/ ListPop(o) \/ ListPopU(o)
  BY <1>1, <1>2, MakeStep, NewRefStep, DropStep, ListPopStep, ListPopUStep
<1>3. CASE \E o \in Obj : \E s \in Args :
             \/ TupleNew(o, s) \/ TupleNewZ(o, s) \/ ListNew(o, s) \/ ListNewZ(o, s)
  BY <1>1, <1>3, TupleNewStep, TupleNewZStep, ListNewStep, ListNewZStep
<1>4. CASE \E o \in Obj : \E s \in Args :
             ListPushX(o, s) \/ ListPushZ(o, s) \/ ListOverrun(o, s)
  BY <1>1, <1>4, ListPushXStep, ListPushZStep, ListOverrunStep
<1>5. CASE \E o \in Obj : \E s \in Args :
             DictNew(o, s) \/ DictNewZ(o, s) \/ DictMerge(o, s) \/ DictMergeZ(o, s)
  BY <1>1, <1>5, DictNewStep, DictNewZStep, DictMergeStep, DictMergeZStep
<1>6. CASE \E d, v \in Held :
             \/ \E k \in Held : DictInsert(d, k, v)
             \/ \E x \in 1..MaxElems : DictReplace(d, x, v)
  <2>1. PICK d \in Held, v \in Held :
             \/ \E k \in Held : DictInsert(d, k, v)
             \/ \E x \in 1..MaxElems : DictReplace(d, x, v)
    BY <1>6
  <2>2. Held \subseteq Obj
    BY DEF Held
  <2> QED
    BY <1>1, <2>1, <2>2, DictInsertStep, DictReplaceStep
<1> QED
  BY <1>2, <1>3, <1>4, <1>5, <1>6 DEF Call

LEMMA NextInv ==
  ASSUME Inv, [Next]_vars
  PROVE  Inv'
<1>1. CASE Step
  BY <1>1, StepInv, PairsStep DEF Inv
<1>2. CASE Call
  BY <1>2, CallInv, PairsCall DEF Inv, Call, Calling
<1>3. CASE UNCHANGED vars
  BY <1>3 DEF vars, Inv, IInv, RoomOK, Bounded, Places, In, Calling, Top
<1> QED
  BY <1>1, <1>2, <1>3 DEF Next

\* The invariant holds in every state of the specification.
THEOREM Invariance == Spec => []Inv
<1>1. Init => Inv
  BY InitInv
<1>2. Inv /\ [Next]_vars => Inv'
  BY NextInv
<1> QED
  BY <1>1, <1>2, PTL DEF Spec

(***************************************************************************)
(* What the invariant says: types, and exact counts.                       *)
(***************************************************************************)
\* The state in the shapes the lemmas use.
LEMMA InvState ==
  ASSUME Inv
  PROVE  /\ heap \in [Obj -> Object] /\ stack \in Seq(FrameType)
         /\ held \in [Obj -> 0..MaxHeld] /\ held \in [Obj -> Nat]
         /\ Sound(heap, stack, Roots(held, stack)) /\ CallOK(heap, held, stack)
BY BoundsAssumption DEF Inv, IInv, Sound

LEMMA InvTypeOK == Inv => TypeOK
BY InvState DEF TypeOK, Inv, IInv, RoomOK

\* The state of every program that follows the protocol is well-typed, and
\* within the bounds of the model.
THEOREM TypesOK == Spec => []TypeOK
BY Invariance, InvTypeOK, PTL

\* The kept references of the properties are those of the invariant.
LEMMA KeptAtIn ==
  ASSUME Inv
  PROVE  /\ \A c \in Obj : \A x : x \in Kept(c) <=>
              x \in DOMAIN heap[c].els /\ ~GivenBack(stack, c, x)
         /\ \A o : KeptAt(o) = KeptIn(heap, stack, o)
<1>1. heap \in [Obj -> Object]
  BY InvState
<1>2. \A c \in Obj : DOMAIN heap[c].els \subseteq Nat
  <2>1. TAKE c \in Obj
  <2>2. DOMAIN heap[c].els = 1..Len(heap[c].els)
    BY <1>1, ObjectType
  <2> QED
    BY <2>2
<1>3. \A c \in Obj : \A x : x \in Kept(c) <=>
        x \in DOMAIN heap[c].els /\ ~GivenBack(stack, c, x)
  BY DEF Kept, GivenBack
<1>4. \A p : p \in Places <=> p \in Obj \X Nat /\ p[2] \in DOMAIN heap[p[1]].els
  <2>1. TAKE p
  <2>2. ASSUME p \in Places
        PROVE  p \in Obj \X Nat /\ p[2] \in DOMAIN heap[p[1]].els
    <3>1. PICK c \in Obj : p \in {c} \X DOMAIN heap[c].els
      BY <2>2 DEF Places
    <3> QED
      BY <1>2, <3>1
  <2>3. ASSUME p \in Obj \X Nat, p[2] \in DOMAIN heap[p[1]].els
        PROVE  p \in Places
    <3>1. p \in {p[1]} \X DOMAIN heap[p[1]].els /\ p[1] \in Obj
      BY <2>3
    <3> QED
      BY <3>1 DEF Places
  <2> QED
    BY <2>2, <2>3
<1>5. ASSUME NEW o
      PROVE  KeptAt(o) = KeptIn(heap, stack, o)
  <2>1. \A p \in Obj \X Nat : p[1] \in Obj
    OBVIOUS
  <2> QED
    BY <1>3, <1>4, <2>1 DEF KeptAt, KeptIn
<1> QED
  BY <1>3, <1>5

\* Only the client's call owns references.
LEMMA ClaimedClaims ==
  ASSUME Inv, NEW o
  PROVE  Cardinality(ClaimedAt(o)) = Claims(stack, o)
<1> DEFINE C(x) == {x} \X {y \in DOMAIN Owned(stack[x]) : Owned(stack[x])[y] = o}
<1>1. stack \in Seq(FrameType) /\ CallOK(heap, held, stack)
  BY InvState
<1>2. ClaimedAt(o) = UNION {C(x) : x \in DOMAIN stack}
  BY DEF ClaimedAt
<1>3. CASE stack = <<>>
  <2>1. ClaimedAt(o) = {}
    BY <1>2, <1>3
  <2> QED
    BY <1>3, <2>1, FS_EmptySet DEF Claims
<1>4. CASE stack # <<>>
  <2>1. 1 \in DOMAIN stack
    BY <1>1, <1>4, LastFrame
  <2>2. ASSUME NEW x \in DOMAIN stack, x # 1
        PROVE  C(x) = {}
    <3>1. DOMAIN stack = 1..Len(stack) /\ Len(stack) \in Nat
      BY <1>1, LenProperties
    <3>2. x > 1
      BY <2>2, <3>1
    <3>3. ~stack[x].owned /\ ~stack[x].new
      BY <1>1, <3>2 DEF CallOK
    <3>4. Owned(stack[x]) = <<>>
      BY <3>3 DEF Owned
    <3> QED
      BY <3>4
  <2>3. ClaimedAt(o) = C(1)
    BY <1>2, <2>1, <2>2
  <2>4. Owned(stack[1]) \in Seq(Obj)
    BY <1>1, <2>1, FrameFields, OwnedType
  <2> DEFINE s == Owned(stack[1])
  <2>5. DOMAIN s = 1..Len(s)
    BY <2>4, LenProperties
  <2>6. C(1) = {1} \X {y \in DOMAIN s : s[y] = o} /\ s \in Seq(Obj)
    BY <2>4
  <2> HIDE DEF s, C
  <2>7. C(1) = Moved(s, o, 0, 1)
    <3>1. \A p \in {1} \X Nat : p[2] - 0 = p[2]
      OBVIOUS
    <3>2. DOMAIN s \subseteq Nat
      BY <2>5
    <3> QED
      BY <2>6, <3>1, <3>2 DEF Moved
  <2>8. Cardinality(C(1)) = Count(s, o)
    BY <2>6, <2>7, CountMoved
  <2> QED
    BY <1>4, <2>3, <2>8 DEF Claims, s
<1> QED
  BY <1>3, <1>4

LEMMA InvRefsExact == Inv => RefsExact
<1> SUFFICES ASSUME Inv, NEW o \in Obj
             PROVE  heap[o].refc = held[o] + Cardinality(KeptAt(o)) + Cardinality(ClaimedAt(o))
  BY DEF RefsExact
<1>1. /\ heap \in [Obj -> Object] /\ stack \in Seq(FrameType) /\ held \in [Obj -> Nat]
      /\ Sound(heap, stack, Roots(held, stack))
  BY InvState
<1>2. /\ Claims(stack, o) \in Nat /\ Roots(held, stack)[o] = held[o] + Claims(stack, o)
  BY <1>1, RootsType
<1>3. heap[o].refc = Roots(held, stack)[o] + Cardinality(KeptIn(heap, stack, o))
  BY <1>1, SoundObject
<1>4. Cardinality(KeptIn(heap, stack, o)) \in Nat
  BY <1>1, KeptFinite
<1>5. /\ Cardinality(KeptAt(o)) = Cardinality(KeptIn(heap, stack, o))
      /\ Cardinality(ClaimedAt(o)) = Claims(stack, o)
  BY KeptAtIn, ClaimedClaims
<1>6. held[o] \in Nat
  BY <1>1
<1> QED
  BY <1>2, <1>3, <1>4, <1>5, <1>6

\* A reference count is the number of references there are, also in the
\* middle of a cascade of deletions.
THEOREM CountsExact == Spec => []RefsExact
BY Invariance, InvRefsExact, PTL

(***************************************************************************)
(* What can be reached.                                                    *)
(***************************************************************************)
Counted == {o \in Obj : heap[o].refc > 0}

\* A kept element is counted, and is an object.
LEMMA ElementCounted ==
  ASSUME Inv, NEW c \in Obj, NEW o \in Elements(c)
  PROVE  o \in Counted
<1>1. /\ heap \in [Obj -> Object] /\ Sound(heap, stack, Roots(held, stack))
  BY InvState
<1>2. PICK x \in Kept(c) : o = heap[c].els[x]
  BY DEF Elements
<1>3. x \in DOMAIN heap[c].els /\ ~GivenBack(stack, c, x)
  BY <1>2, KeptAtIn
<1>4. o \in Obj /\ DOMAIN heap[c].els = 1..Len(heap[c].els)
  BY <1>1, <1>2, <1>3, ObjectType
<1>5. <<c, x>> \in Obj \X Nat /\ <<c, x>>[1] = c /\ <<c, x>>[2] = x
  BY <1>3, <1>4
<1>6. KeptIn(heap, stack, o) # {}
  BY <1>2, <1>3, <1>5 DEF KeptIn
<1>7. Cardinality(KeptIn(heap, stack, o)) \in Nat /\ Cardinality(KeptIn(heap, stack, o)) > 0
  BY <1>1, <1>6, KeptFinite
<1>8. /\ heap[o].refc = Roots(held, stack)[o] + Cardinality(KeptIn(heap, stack, o))
      /\ Roots(held, stack)[o] \in Nat
  BY <1>1, <1>4, SoundObject
<1>9. heap[o].refc > 0
  BY <1>7, <1>8
<1> QED
  BY <1>4, <1>9 DEF Counted

LEMMA InvReachableLives == Inv => ReachableLives
<1> SUFFICES ASSUME Inv
             PROVE  Reach(Held) \subseteq Live \ Dying
  BY DEF ReachableLives
<1>1. Closed(Counted)
  BY ElementCounted DEF Closed, Counted
<1>2. Held \subseteq Counted
  BY HeldLives DEF Inv, Held, Counted
<1>3. Reach(Held) \subseteq Counted
  BY <1>1, <1>2 DEF Reach, Counted
<1>4. Counted \subseteq Live \ Dying
  <2>1. SUFFICES ASSUME NEW o \in Counted
                 PROVE  o \in Live /\ o \notin Dying
    OBVIOUS
  <2>2. o \in Obj /\ heap[o].refc > 0
    BY DEF Counted
  <2>3. heap[o].type # "none" /\ ~DyingIn(stack, o)
    BY <2>2, InvState, SoundObject
  <2> QED
    BY <2>2, <2>3 DEF Live, Dying, DyingIn
<1> QED
  BY <1>3, <1>4

\* What the client can reach is neither freed nor about to be.
THEOREM ReachedIsSafe == Spec => []ReachableLives
BY Invariance, InvReachableLives, PTL

LEMMA ReachRoots ==
  ASSUME NEW roots
  PROVE  roots \cap Obj \subseteq Reach(roots) /\ Reach(roots) \subseteq Obj
BY DEF Reach

LEMMA ReachClosed ==
  ASSUME Inv, NEW roots
  PROVE  Closed(Reach(roots))
<1> SUFFICES ASSUME NEW c \in Reach(roots), NEW o \in Elements(c)
             PROVE  o \in Reach(roots)
  BY DEF Closed
<1>1. c \in Obj /\ o \in Obj
  BY ElementCounted DEF Reach, Counted
<1>2. ASSUME NEW S \in SUBSET Obj, roots \subseteq S, Closed(S)
      PROVE  o \in S
  <2>1. c \in S
    BY <1>2 DEF Reach
  <2> QED
    BY <1>2, <2>1 DEF Closed
<1> QED
  BY <1>1, <1>2 DEF Reach

LEMMA ReachLeast ==
  ASSUME NEW roots, NEW S \in SUBSET Obj, roots \subseteq S, Closed(S)
  PROVE  Reach(roots) \subseteq S
BY DEF Reach

\* What is in an element of a container is in the container.
LEMMA ReachElement ==
  ASSUME Inv, NEW c \in Obj, NEW o \in Elements(c)
  PROVE  Reach(Elements(o)) \cup {o} \subseteq Reach(Elements(c))
<1> DEFINE S == Reach(Elements(c))
<1>1. Closed(S) /\ S \in SUBSET Obj
  BY ReachClosed, ReachRoots
<1>2. o \in Obj
  BY ElementCounted DEF Counted
<1>3. o \in S
  BY <1>2, ReachRoots
<1> HIDE DEF S
<1>4. Elements(o) \subseteq S
  BY <1>1, <1>3 DEF Closed
<1>5. Reach(Elements(o)) \subseteq S
  BY <1>1, <1>4, ReachLeast
<1> QED
  BY <1>3, <1>5 DEF S

\* An object the client does not hold is, between calls, an element of
\* another.
LEMMA HasContainer ==
  ASSUME Inv, ~Calling, NEW o \in Live, o \notin Held
  PROVE  \E c \in Live : o \in Elements(c)
<1>1. /\ heap \in [Obj -> Object] /\ held \in [Obj -> Nat] /\ stack = <<>>
      /\ Sound(heap, stack, Roots(held, stack))
  BY InvState DEF Calling
<1>2. o \in Obj /\ heap[o].type # "none" /\ ~(held[o] > 0)
  BY DEF Live, Held
<1>3. ~DyingIn(stack, o)
  BY <1>1 DEF DyingIn
<1>4. heap[o].refc # 0
  BY <1>1, <1>2, <1>3 DEF Sound, LifeOK
<1>5. Roots(held, stack)[o] = 0
  <2>1. Roots(held, stack) = held
    BY <1>1, RootsNone
  <2>2. held[o] \in Nat
    BY <1>1, <1>2
  <2> QED
    BY <1>2, <2>1, <2>2
<1>6. Cardinality(KeptIn(heap, stack, o)) # 0
  <2>1. /\ heap[o].refc = Roots(held, stack)[o] + Cardinality(KeptIn(heap, stack, o))
        /\ heap[o].refc \in Nat
    BY <1>1, <1>2, SoundObject
  <2>2. Cardinality(KeptIn(heap, stack, o)) \in Nat
    BY <1>1, KeptFinite
  <2> QED
    BY <1>4, <1>5, <2>1, <2>2
<1>7. KeptIn(heap, stack, o) # {}
  BY <1>6, FS_EmptySet
<1>8. PICK p \in KeptIn(heap, stack, o) : TRUE
  BY <1>7
<1>9. /\ p[1] \in Obj /\ p[2] \in DOMAIN heap[p[1]].els /\ heap[p[1]].els[p[2]] = o
      /\ ~GivenBack(stack, p[1], p[2])
  BY <1>8 DEF KeptIn
<1>10. o \in Elements(p[1])
  BY <1>9, KeptAtIn DEF Elements
<1>11. heap[p[1]].type # "none"
  <2>1. SUFFICES ASSUME heap[p[1]].type = "none"
                 PROVE  FALSE
    OBVIOUS
  <2>2. heap[p[1]] = NoObject
    BY <1>1, <1>9, <2>1, SoundObject
  <2>3. DOMAIN heap[p[1]].els = {}
    BY <2>2 DEF NoObject
  <2> QED
    BY <1>9, <2>3
<1> QED
  BY <1>9, <1>10, <1>11 DEF Live

LEMMA InvOnlyCyclesLeak == Inv => OnlyCyclesLeak
<1> DEFINE cycles == {c \in Live : c \in Reach(Elements(c))}
           R == Reach(Held) \cup Reach(cycles)
           U == Live \ R
<1> SUFFICES ASSUME Inv, ~Calling
             PROVE  Live = R
  BY DEF OnlyCyclesLeak
<1>1. Live \subseteq Obj /\ Held \subseteq Obj /\ cycles \subseteq Obj
  BY DEF Live, Held
<1>2. R \subseteq Live
  <2>1. Closed(Counted) /\ Counted \in SUBSET Obj
    BY ElementCounted DEF Closed, Counted
  <2>2. Held \subseteq Counted
    BY HeldLives DEF Inv, Held, Counted
  <2>3. Live = Counted
    <3>1. ASSUME NEW o \in Obj
          PROVE  heap[o].type # "none" <=> heap[o].refc > 0
      <4>1. stack = <<>>
        BY DEF Calling
      <4>2. ~DyingIn(stack, o)
        BY <4>1 DEF DyingIn
      <4>3. Sound(heap, stack, Roots(held, stack))
        BY InvState
      <4>4. heap[o].refc = 0 <=> heap[o].type = "none"
        BY <4>2, <4>3 DEF Sound, LifeOK
      <4>5. heap[o].refc \in Nat
        BY <4>3, SoundObject
      <4> QED
        BY <4>4, <4>5
    <3> QED
      BY <3>1 DEF Live, Counted
  <2>4. cycles \subseteq Counted
    BY <2>3
  <2>5. Reach(Held) \subseteq Counted /\ Reach(cycles) \subseteq Counted
    BY <2>1, <2>2, <2>4, ReachLeast
  <2> QED
    BY <2>3, <2>5
<1>3. Held \subseteq R /\ cycles \subseteq R
  BY <1>1, ReachRoots
<1>4. ASSUME NEW c \in R, NEW o \in Elements(c)
      PROVE  o \in R
  BY <1>4, ReachClosed DEF Closed
<1>5. ASSUME NEW o \in U
      PROVE  \E c \in U : o \in Elements(c)
  <2>1. o \in Live /\ o \notin Held
    BY <1>3
  <2>2. PICK c \in Live : o \in Elements(c)
    BY <2>1, HasContainer
  <2> QED
    BY <1>4, <2>2
<1>6. \A o \in U : o \notin Reach(Elements(o))
  BY <1>3
<1>7. U \subseteq Obj
  BY <1>1
<1> HIDE DEF U
<1> DEFINE Out(o) == Obj \ Reach(Elements(o))
           T == {Out(o) : o \in U}
<1>8. ASSUME NEW c \in U, NEW o \in U, o \in Elements(c)
      PROVE  <<Out(c), Out(o)>> \in StrictSubsetOrdering(Obj)
  <2>1. Reach(Elements(o)) \cup {o} \subseteq Reach(Elements(c))
    BY <1>7, <1>8, ReachElement
  <2>2. o \notin Reach(Elements(o)) /\ o \in Obj
    BY <1>6, <1>7
  <2>3. Out(c) \subseteq Out(o) /\ o \in Out(o) /\ o \notin Out(c)
    BY <2>1, <2>2
  <2>4. Out(c) \in SUBSET Obj /\ Out(o) \in SUBSET Obj
    OBVIOUS
  <2> HIDE DEF Out
  <2> QED
    BY <2>3, <2>4 DEF StrictSubsetOrdering
<1>9. U = {}
  <2>1. SUFFICES ASSUME U # {}
                 PROVE  FALSE
    OBVIOUS
  <2>2. IsWellFoundedOn(StrictSubsetOrdering(Obj), SUBSET Obj)
    BY FS_StrictSubsetOrderingWellFounded, FS_FiniteSubsetsOfFinite, BoundsAssumption
  <2>3. T \subseteq SUBSET Obj /\ T # {}
    BY <2>1
  <2> HIDE DEF T
  <2>4. PICK x \in T : \A y \in T : ~(<<y, x>> \in StrictSubsetOrdering(Obj))
    BY <2>2, <2>3, WFMin
  <2>5. PICK o \in U : x = Out(o)
    BY DEF T
  <2>6. PICK c \in U : o \in Elements(c)
    BY <1>5
  <2>7. Out(c) \in T
    BY DEF T
  <2> QED
    BY <1>8, <2>4, <2>5, <2>6, <2>7
<1> QED
  BY <1>2, <1>9 DEF U

\* Between calls only cycles are left behind.
THEOREM CyclesAlone == Spec => []OnlyCyclesLeak
BY Invariance, InvOnlyCyclesLeak, PTL

(***************************************************************************)
(* How long objects live: Ownership implements Lifetime.                   *)
(***************************************************************************)
Reached == Reach(Held \cup Claimed)
ValuesOf(s) == {s[x] : x \in DOMAIN s}

\* The references a frame owns, those outside of containers, and the elements of c that
\* are kept.
OwnedBy(f) == {o \in Obj : o \in ValuesOf(Owned(f))}
Handles(hl, st) == {o \in Obj : hl[o] > 0} \cup UNION {OwnedBy(st[x]) : x \in DOMAIN st}
Kids(h, st, c) == {h[c].els[x] : x \in {y \in DOMAIN h[c].els : ~GivenBack(st, c, y)}}

LEMMA HandlesHeld == Held \cup Claimed = Handles(held, stack)
<1>1. ASSUME NEW o
      PROVE  ClaimedAt(o) # {} <=> \E x \in DOMAIN stack : o \in ValuesOf(Owned(stack[x]))
  <2> DEFINE C(x) == {x} \X {y \in DOMAIN Owned(stack[x]) : Owned(stack[x])[y] = o}
  <2>1. ClaimedAt(o) = UNION {C(x) : x \in DOMAIN stack}
    BY DEF ClaimedAt
  <2>2. ASSUME NEW x
        PROVE  C(x) # {} <=> o \in ValuesOf(Owned(stack[x]))
    <3> DEFINE Y == {y \in DOMAIN Owned(stack[x]) : Owned(stack[x])[y] = o}
    <3>1. Y # {} <=> o \in ValuesOf(Owned(stack[x]))
      BY DEF ValuesOf
    <3>2. C(x) = {x} \X Y
      OBVIOUS
    <3> HIDE DEF Y, C
    <3>3. ASSUME NEW y \in Y
          PROVE  <<x, y>> \in {x} \X Y
      OBVIOUS
    <3>4. ASSUME NEW p \in {x} \X Y
          PROVE  p[2] \in Y
      OBVIOUS
    <3> QED
      BY <3>1, <3>2, <3>3, <3>4
  <2> HIDE DEF C
  <2>3. ClaimedAt(o) # {} <=> \E x \in DOMAIN stack : C(x) # {}
    BY <2>1
  <2> QED
    BY <2>2, <2>3
<1> QED
  BY <1>1 DEF Held, Claimed, Handles, OwnedBy

LEMMA ElementsKids == \A c : Elements(c) = Kids(heap, stack, c)
BY DEF Elements, Kept, Kids, GivenBack

LEMMA OwnsFields ==
  ASSUME NEW f \in FrameType
  PROVE  /\ f.owned => OwnedBy(f) = ValuesOf(f.vals) \cup (IF f.new THEN {f.obj} ELSE {})
         /\ ~f.owned => OwnedBy(f) = (IF f.new THEN {f.obj} ELSE {})
         /\ f.vals \in Seq(Obj) /\ ValuesOf(f.vals) \subseteq Obj /\ f.obj \in Obj
<1>1. f.vals \in Seq(Obj) /\ f.obj \in Obj /\ f.owned \in BOOLEAN /\ f.new \in BOOLEAN
  BY DEF FrameType
<1>2. ValuesOf(f.vals) \subseteq Obj
  BY <1>1, LenProperties, ElementOfSeq DEF ValuesOf
<1>3. ASSUME NEW o \in Obj
      PROVE  /\ o \in OwnedBy(f) <=> Count(Owned(f), o) # 0
             /\ o \in ValuesOf(f.vals) <=> Count(f.vals, o) # 0
             /\ Count(f.vals, o) \in Nat
             /\ Count(Owned(f), o) = (IF f.owned THEN Count(f.vals, o) ELSE 0)
                                       + (IF f.new /\ f.obj = o THEN 1 ELSE 0)
  BY <1>1, OwnedType, CountType DEF OwnedBy, ValuesOf
<1>4. ASSUME NEW o \in Obj
      PROVE  o \in OwnedBy(f) <=> (f.owned /\ o \in ValuesOf(f.vals)) \/ (f.new /\ f.obj = o)
  <2> DEFINE m == Count(f.vals, o)
             n == Count(Owned(f), o)
  <2>1. m \in Nat /\ n = (IF f.owned THEN m ELSE 0) + (IF f.new /\ f.obj = o THEN 1 ELSE 0)
    BY <1>3
  <2>2. (o \in OwnedBy(f) <=> n # 0) /\ (o \in ValuesOf(f.vals) <=> m # 0)
    BY <1>3
  <2> HIDE DEF m, n
  <2>3. n # 0 <=> (f.owned /\ m # 0) \/ (f.new /\ f.obj = o)
    BY <1>1, <2>1
  <2> QED
    BY <2>2, <2>3
<1>5. OwnedBy(f) \subseteq Obj
  BY DEF OwnedBy
<1> HIDE DEF OwnedBy, ValuesOf
<1> QED
  BY <1>1, <1>2, <1>4, <1>5

LEMMA OwnsNothing ==
  ASSUME NEW f, ~f.owned, ~f.new
  PROVE  OwnedBy(f) = {}
<1>1. Owned(f) = <<>>
  BY DEF Owned
<1>2. DOMAIN <<>> = {}
  OBVIOUS
<1> QED
  BY <1>1, <1>2 DEF OwnedBy, ValuesOf

\* The least set is within any other.
LEMMA ReachedWithin ==
  ASSUME NEW S \in SUBSET Obj, Handles(held, stack)' \subseteq S,
         \A c \in S : Kids(heap, stack, c)' \subseteq S
  PROVE  Reached' \subseteq S
<1>1. (Held \cup Claimed = Handles(held, stack))'
  BY HandlesHeld, PTL
<1>2. (\A c : Elements(c) = Kids(heap, stack, c))'
  BY ElementsKids, PTL
<1>3. Closed(S)'
  BY <1>2 DEF Closed
<1>4. (Held \cup Claimed)' \subseteq S
  BY <1>1
<1> QED
  BY <1>3, <1>4 DEF Reached, Reach

\* What is reached has references.
LEMMA ReachedCounted ==
  ASSUME Inv
  PROVE  /\ Reached \subseteq Counted /\ Handles(held, stack) \subseteq Reached
         /\ \A c \in Reached : Kids(heap, stack, c) \subseteq Reached
<1>1. /\ stack \in Seq(FrameType) /\ held \in [Obj -> Nat] /\ CallOK(heap, held, stack)
      /\ Sound(heap, stack, Roots(held, stack))
  BY InvState
<1>2. ASSUME NEW o \in Claimed
      PROVE  o \in Counted
  <2>1. o \in Obj /\ o \in Handles(held, stack)
    BY HandlesHeld DEF Claimed
  <2>2. PICK x \in DOMAIN stack : o \in ValuesOf(Owned(stack[x]))
    BY DEF Claimed, ClaimedAt, ValuesOf
  <2>3. stack # <<>>
    BY <2>2
  <2>4. x = 1
    <3>1. x > 1 => stack[x].op = "free"
      BY <1>1 DEF CallOK
    <3>2. stack[x].op = "free" => ~stack[x].owned /\ ~stack[x].new
      BY <1>1 DEF CallOK
    <3>3. ~stack[x].owned /\ ~stack[x].new => o \notin ValuesOf(Owned(stack[x]))
      BY <2>1, OwnsNothing DEF OwnedBy
    <3>4. x \in 1..Len(stack) /\ Len(stack) \in Nat
      BY <1>1, LenProperties
    <3> QED
      BY <2>2, <3>1, <3>2, <3>3, <3>4
  <2>5. stack[1] \in FrameType
    BY <1>1, <2>2, <2>4, FrameFields
  <2>6. Owned(stack[1]) \in Seq(Obj)
    BY <2>5, OwnedType
  <2>7. Count(Owned(stack[1]), o) # 0
    BY <2>2, <2>4, <2>6, CountType DEF ValuesOf
  <2>8. Claims(stack, o) # 0
    BY <2>3, <2>7 DEF Claims
  <2>9. Claims(stack, o) \in Nat /\ Roots(held, stack)[o] = held[o] + Claims(stack, o) /\ held[o] \in Nat
    BY <1>1, <2>1, RootsType
  <2>10. heap[o].refc \in Nat /\ Roots(held, stack)[o] <= heap[o].refc
    BY <1>1, <2>1, SoundObject
  <2>11. heap[o].refc > 0
    BY <2>8, <2>9, <2>10
  <2> QED
    BY <2>1, <2>11 DEF Counted
<1>3. Held \subseteq Counted
  BY HeldLives DEF Inv, Held, Counted
<1>4. Closed(Counted) /\ Counted \in SUBSET Obj
  BY ElementCounted DEF Closed, Counted
<1>5. Held \cup Claimed \subseteq Counted
  BY <1>2, <1>3
<1>6. Reached \subseteq Counted
  BY <1>4, <1>5, ReachLeast DEF Reached
<1>7. Held \cup Claimed \subseteq Reached
  <2>1. Held \cup Claimed \subseteq Obj
    BY <1>4, <1>5
  <2> QED
    BY <2>1, ReachRoots DEF Reached
<1>8. Closed(Reached)
  BY ReachClosed DEF Reached
<1>9. \A c \in Reached : Kids(heap, stack, c) \subseteq Reached
  BY <1>8, ElementsKids DEF Closed
<1> QED
  BY <1>6, <1>7, <1>9, HandlesHeld

\* What is not there keeps nothing.
LEMMA FreeKeeps ==
  ASSUME Inv, NEW o \in Free
  PROVE  o \in Obj /\ heap[o] = NoObject /\ ValuesOf(heap[o].els) = {}
           /\ \A st : Kids(heap, st, o) = {}
<1>1. o \in Obj /\ heap[o].type = "none"
  BY DEF Free, Live
<1>2. heap[o] = NoObject
  BY <1>1, InvState, SoundObject
<1>3. DOMAIN heap[o].els = {}
  BY <1>2 DEF NoObject
<1> QED
  BY <1>1, <1>2, <1>3 DEF ValuesOf, Kids

\* Only what is made gets in reach, if no other element or reference comes from out of reach.
LEMMA ReachedStays ==
  ASSUME Inv, NEW N \in SUBSET Free, Handles(held', stack') \subseteq Reached \cup N,
         \A c \in Obj : Kids(heap', stack', c) \subseteq Kids(heap, stack, c) \cup Reached \cup N
  PROVE  Reached' \subseteq Reached \cup N
<1> DEFINE S == Reached \cup N
<1>1. S \in SUBSET Obj
  BY ReachRoots DEF Free, Reached
<1>2. \A c \in S : Kids(heap, stack, c) \subseteq S
  BY ReachedCounted, FreeKeeps
<1>3. \A c \in S : Kids(heap', stack', c) \subseteq S
  BY <1>1, <1>2
<1>4. Handles(held', stack') \subseteq S
  OBVIOUS
<1> HIDE DEF S
<1>5. Reached' \subseteq S
  BY <1>1, <1>3, <1>4, ReachedWithin
<1> QED
  BY <1>5 DEF S

\* The calls of which none has given anything back: a merge, or none at all.
Quiet(st) == \A c \in Obj : \A x : ~GivenBack(st, c, x)

LEMMA QuietStays ==
  ASSUME Inv, Quiet(stack), NEW N \in SUBSET Free, Handles(held', stack') \subseteq Reached \cup N,
         \A c \in Obj : ValuesOf(heap'[c].els) \subseteq ValuesOf(heap[c].els) \cup Reached \cup N
  PROVE  Reached' \subseteq Reached \cup N
<1>1. \A c \in Obj : Kids(heap, stack, c) = ValuesOf(heap[c].els)
  BY DEF Quiet, Kids, ValuesOf
<1>2. \A c \in Obj : Kids(heap', stack', c) \subseteq ValuesOf(heap'[c].els)
  BY DEF Kids, ValuesOf
<1> HIDE DEF Inv, Handles, Kids, ValuesOf, Quiet
<1> QED
  BY <1>1, <1>2, ReachedStays

\* The steps of Lifetime.
LEMMA Makes ==
  ASSUME NEW o \in Free, NEW k \in Kinds \ {"none"}, Reached' \subseteq Reached \cup {o},
         \A c \in Obj : heap'[c].type = IF c = o THEN k ELSE heap[c].type
  PROVE  Abs!Next
<1>1. o \in Obj /\ heap[o].type = "none"
  BY DEF Free, Live
<1>2. [c \in Obj |-> heap'[c].type] = [[c \in Obj |-> heap[c].type] EXCEPT ![o] = k]
  BY <1>1
<1>3. Abs!Make(o, k)
  BY <1>1, <1>2 DEF Abs!Make, Reached
<1> QED
  BY <1>1, <1>3 DEF Abs!Next

LEMMA Loses ==
  ASSUME Reached' \subseteq Reached, \A c \in Obj : heap'[c].type = heap[c].type
  PROVE  Abs!Next
<1>1. [c \in Obj |-> heap'[c].type] = [c \in Obj |-> heap[c].type]
  OBVIOUS
<1> QED
  BY <1>1 DEF Abs!Next, Abs!Lose, Reached

LEMMA Frees ==
  ASSUME NEW o \in Obj, heap[o].type # "none", o \notin Reached, Reached' \subseteq Reached,
         \A c \in Obj : heap'[c].type = IF c = o THEN "none" ELSE heap[c].type
  PROVE  Abs!Next
<1>1. [c \in Obj |-> heap'[c].type] = [[c \in Obj |-> heap[c].type] EXCEPT ![o] = "none"]
  OBVIOUS
<1>2. Abs!Free(o)
  BY <1>1 DEF Abs!Free, Reached
<1> QED
  BY <1>2 DEF Abs!Next

\* A step that makes no object, or makes one, while nothing is given back.
LEMMA QuietLoses ==
  ASSUME Inv, Quiet(stack), Handles(held', stack') \subseteq Reached,
         \A c \in Obj : heap'[c].type = heap[c].type,
         \A c \in Obj : ValuesOf(heap'[c].els) \subseteq ValuesOf(heap[c].els) \cup Reached
  PROVE  Abs!Next
<1>1. Reached' \subseteq Reached \cup {}
  BY QuietStays
<1> QED
  BY <1>1, Loses

LEMMA QuietMakes ==
  ASSUME Inv, Quiet(stack), NEW o \in Free, NEW k \in Kinds \ {"none"},
         Handles(held', stack') \subseteq Reached \cup {o},
         \A c \in Obj : heap'[c].type = IF c = o THEN k ELSE heap[c].type,
         \A c \in Obj : ValuesOf(heap'[c].els) \subseteq ValuesOf(heap[c].els) \cup Reached \cup {o}
  PROVE  Abs!Next
<1>1. {o} \in SUBSET Free
  OBVIOUS
<1>2. Reached' \subseteq Reached \cup {o}
  BY <1>1, QuietStays
<1> QED
  BY <1>2, Makes

\* The references a new stack owns.
LEMMA StackHandles ==
  ASSUME NEW hl, NEW S, \A o \in Obj : hl[o] > 0 => o \in S
  PROVE  /\ Handles(hl, <<>>) \subseteq S
         /\ \A f : OwnedBy(f) \subseteq S => Handles(hl, <<f>>) \subseteq S
<1>1. DOMAIN <<>> = {}
  OBVIOUS
<1>2. \A f : DOMAIN <<f>> = {1} /\ <<f>>[1] = f
  OBVIOUS
<1> QED
  BY <1>1, <1>2 DEF Handles

\* A deleter that begins owns nothing and has given nothing back.
LEMMA FreeingHandles ==
  ASSUME NEW h, NEW st \in Seq(FrameType), NEW d \in Obj
  PROVE  /\ \A hl : Handles(hl, Freeing(h, st, d)) \subseteq Handles(hl, st)
         /\ \A c, x : GivenBack(st, c, x) => GivenBack(Freeing(h, st, d), c, x)
<1> DEFINE tt == Freeing(h, st, d)
<1>1. MoreCalls(st, tt)
  BY FreeingFrames
<1> HIDE DEF tt
<1>2. \A x \in DOMAIN tt : x \notin DOMAIN st => OwnedBy(tt[x]) = {}
  BY <1>1, OwnsNothing DEF MoreCalls
<1>3. \A x \in DOMAIN st : x \in DOMAIN tt /\ tt[x] = st[x]
  BY <1>1 DEF MoreCalls
<1>4. \A hl : Handles(hl, tt) \subseteq Handles(hl, st)
  <2>1. \A x \in DOMAIN tt : x \in DOMAIN st \/ OwnedBy(tt[x]) = {}
    BY <1>2
  <2> HIDE DEF OwnedBy
  <2> QED
    BY <1>3, <2>1 DEF Handles
<1>5. \A c, x : GivenBack(st, c, x) => GivenBack(tt, c, x)
  BY <1>3 DEF GivenBack
<1> QED
  BY <1>4, <1>5 DEF tt

LEMMA ValuesConcat ==
  ASSUME NEW s \in Seq(Obj), NEW t \in Seq(Obj)
  PROVE  ValuesOf(s \o t) = ValuesOf(s) \cup ValuesOf(t)
<1> DEFINE u == s \o t
           m == Len(s)
           n == Len(t)
<1>1. m \in Nat /\ n \in Nat /\ DOMAIN s = 1..m /\ DOMAIN t = 1..n
  BY LenProperties
<1>2. /\ DOMAIN u = 1..(m + n)
      /\ \A x \in 1..(m + n) : u[x] = IF x <= m THEN s[x] ELSE t[x - m]
  <2>1. u \in Seq(Obj) /\ Len(u) = m + n
    BY ConcatProperties
  <2>2. DOMAIN u = 1..Len(u)
    BY <2>1, LenProperties
  <2> QED
    BY <2>1, <2>2, ConcatProperties
<1> HIDE DEF u, m, n
<1>3. \A x \in 1..m : x \in 1..(m + n) /\ u[x] = s[x]
  BY <1>1, <1>2
<1>4. \A x \in 1..n : x + m \in 1..(m + n) /\ u[x + m] = t[x]
  <2>1. TAKE x \in 1..n
  <2>2. x + m \in 1..(m + n) /\ ~(x + m <= m) /\ x + m - m = x
    BY <1>1
  <2> DEFINE y == x + m
  <2>3. y \in 1..(m + n) /\ ~(y <= m) /\ y - m = x
    BY <1>1, <2>2
  <2> HIDE DEF y
  <2>4. u[y] = t[y - m]
    BY <1>2, <2>3
  <2> QED
    BY <2>2, <2>3, <2>4 DEF y
<1>5. \A x \in 1..(m + n) : (x \in 1..m /\ u[x] = s[x]) \/ (x - m \in 1..n /\ u[x] = t[x - m])
  BY <1>1, <1>2
<1>6. ValuesOf(u) \subseteq ValuesOf(s) \cup ValuesOf(t)
  BY <1>1, <1>2, <1>5 DEF ValuesOf
<1>7. ValuesOf(s) \subseteq ValuesOf(u)
  BY <1>1, <1>2, <1>3 DEF ValuesOf
<1>8. ValuesOf(t) \subseteq ValuesOf(u)
  <2>1. SUFFICES ASSUME NEW x \in 1..n
                 PROVE  t[x] \in ValuesOf(u)
    BY <1>1 DEF ValuesOf
  <2>2. x + m \in DOMAIN u /\ u[x + m] = t[x]
    BY <1>2, <1>4
  <2> QED
    BY <2>2 DEF ValuesOf
<1> QED
  BY <1>6, <1>7, <1>8 DEF u

LEMMA AppendedValues ==
  ASSUME NEW h, NEW g, NEW c \in Obj, NEW s \in Seq(Obj), Appended(h, g, c, s)
  PROVE  \A o \in Obj :
           /\ g[o].type = h[o].type
           /\ ValuesOf(g[o].els) = ValuesOf(h[o].els) \cup (IF o = c THEN ValuesOf(s) ELSE {})
<1>1. /\ h \in [Obj -> Object] /\ g[c].els = h[c].els \o s /\ g[c].type = h[c].type
      /\ \A o \in Obj : o # c => g[o] = h[o]
  BY DEF Appended
<1>2. h[c].els \in Seq(Obj)
  BY <1>1, ObjectType
<1>3. ValuesOf(g[c].els) = ValuesOf(h[c].els) \cup ValuesOf(s)
  BY <1>1, <1>2, ValuesConcat
<1> HIDE DEF ValuesOf
<1>4. \A o \in Obj : o # c => g[o].type = h[o].type /\ ValuesOf(g[o].els) = ValuesOf(h[o].els)
  BY <1>1
<1> QED
  BY <1>1, <1>3, <1>4

LEMMA CreatedValues ==
  ASSUME NEW h \in [Obj -> Object], NEW o \in Obj, NEW k, NEW s, NEW cap
  PROVE  \A c \in Obj :
           /\ Created(h, o, k, s, cap)[c].type = IF c = o THEN k ELSE h[c].type
           /\ Created(h, o, k, s, cap)[c].els = IF c = o THEN s ELSE h[c].els
BY DEF Created, New

\* What is in reach between calls.
LEMMA IdleReached ==
  ASSUME Inv, stack = <<>>
  PROVE  /\ Quiet(stack) /\ heap \in [Obj -> Object]
         /\ held \in [Obj -> 0..MaxHeld] /\ held \in [Obj -> Nat]
         /\ \A o \in Obj : held[o] > 0 => o \in Reached
         /\ \A c \in Reached : ValuesOf(heap[c].els) \subseteq Reached
         /\ \A s \in Args : s \in Seq(Obj) /\ ValuesOf(s) \subseteq Reached
<1>1. Quiet(stack)
  BY DEF Quiet, GivenBack
<1>2. /\ heap \in [Obj -> Object] /\ held \in [Obj -> 0..MaxHeld] /\ held \in [Obj -> Nat]
  BY InvState
<1>3. \A o \in Obj : held[o] > 0 => o \in Reached
  BY ReachedCounted DEF Handles
<1>4. ASSUME NEW c \in Reached
      PROVE  ValuesOf(heap[c].els) \subseteq Reached
  <2>1. c \in Obj
    BY ReachedCounted DEF Counted
  <2>2. Kids(heap, stack, c) = ValuesOf(heap[c].els)
    BY <1>1, <2>1 DEF Quiet, Kids, ValuesOf
  <2> QED
    BY <2>2, ReachedCounted
<1>5. \A s \in Args : s \in Seq(Obj) /\ ValuesOf(s) \subseteq Reached
  BY <1>2, <1>3, Passed DEF ValuesOf
<1> QED
  BY <1>1, <1>2, <1>3, <1>4, <1>5

LEMMA CreatedMakes ==
  ASSUME Inv, stack = <<>>, NEW o \in Free, NEW k \in Kinds \ {"none"},
         NEW h \in [Obj -> Object], \A c \in Obj : h[c].type = heap[c].type /\ h[c].els = heap[c].els,
         NEW s, ValuesOf(s) \subseteq Reached, NEW cap, heap' = Created(h, o, k, s, cap),
         Handles(held', stack') \subseteq Reached \cup {o}
  PROVE  Abs!Next
<1>1. o \in Obj
  BY DEF Free
<1>2. \A c \in Obj : /\ heap'[c].type = IF c = o THEN k ELSE heap[c].type
                     /\ heap'[c].els = IF c = o THEN s ELSE heap[c].els
  BY <1>1, CreatedValues
<1>3. \A c \in Obj : ValuesOf(heap'[c].els) \subseteq ValuesOf(heap[c].els) \cup Reached \cup {o}
  BY <1>2
<1>4. Quiet(stack)
  BY IdleReached
<1> QED
  BY <1>2, <1>3, <1>4, QuietMakes

LEMMA MakeLives ==
  ASSUME Inv, stack = <<>>, NEW o \in Obj, Make(o)
  PROVE  Abs!Next
<1>1. /\ o \in Free /\ heap' = Created(heap, o, "leaf", <<>>, 0) /\ held' = Take(o) /\ stack' = <<>>
  BY DEF Make, Created
<1>2. \A c \in Obj : held'[c] > 0 => c \in Reached \cup {o}
  BY <1>1, IdleReached DEF Take
<1>3. Handles(held', stack') \subseteq Reached \cup {o}
  BY <1>1, <1>2, StackHandles
<1>4. ValuesOf(<<>>) = {}
  BY DEF ValuesOf
<1>5. "leaf" \in Kinds \ {"none"}
  BY DEF Kinds
<1>6. heap \in [Obj -> Object]
  BY IdleReached
<1> QED
  BY <1>1, <1>3, <1>4, <1>5, <1>6, CreatedMakes

\* What is left of what the client has handed over.
LEMMA AbsorbHeld ==
  ASSUME Inv, stack = <<>>, NEW s \in Given, NEW c \in Obj, Absorb(s)[c] > 0
  PROVE  c \in Reached
<1>1. /\ Count(s, c) \in Nat /\ Absorb(s)[c] = held[c] - Count(s, c) /\ held[c] \in Nat
  BY IdleReached, AbsorbType
<1>2. held[c] > 0
  BY <1>1
<1> QED
  BY <1>2, IdleReached

LEMMA NewLives ==
  ASSUME Inv, stack = <<>>, NEW o \in Obj, NEW s \in Args, TupleNew(o, s) \/ ListNew(o, s)
  PROVE  Abs!Next
<1> DEFINE h == Increfs(heap, s)
           g == Increfs(heap, s \o s)
<1>1. /\ o \in Free /\ held' = Take(o) /\ stack' = <<>>
      /\ \/ heap' = Created(h, o, "tuple", s, 0)
         \/ heap' = Created(g, o, "list", s \o s, Grown(0, Len(s)))
  BY DEF TupleNew, ListNew, Created
<1>2. s \in Seq(Obj) /\ ValuesOf(s) \subseteq Reached /\ heap \in [Obj -> Object]
  BY IdleReached
<1>3. s \o s \in Seq(Obj) /\ ValuesOf(s \o s) \subseteq Reached
  BY <1>2, ValuesConcat, ConcatProperties
<1>4. /\ h \in [Obj -> Object] /\ \A c \in Obj : h[c].type = heap[c].type /\ h[c].els = heap[c].els
      /\ g \in [Obj -> Object] /\ \A c \in Obj : g[c].type = heap[c].type /\ g[c].els = heap[c].els
  BY <1>2, <1>3, IncrefsFields
<1> HIDE DEF h, g
<1>5. \A c \in Obj : held'[c] > 0 => c \in Reached \cup {o}
  BY <1>1, IdleReached DEF Take
<1>6. Handles(held', stack') \subseteq Reached \cup {o}
  BY <1>1, <1>5, StackHandles
<1>7. {"tuple", "list"} \subseteq Kinds \ {"none"}
  BY DEF Kinds
<1>8. CASE heap' = Created(h, o, "tuple", s, 0)
  BY <1>1, <1>2, <1>4, <1>6, <1>7, <1>8, CreatedMakes
<1>9. CASE heap' = Created(g, o, "list", s \o s, Grown(0, Len(s)))
  BY <1>1, <1>3, <1>4, <1>6, <1>7, <1>9, CreatedMakes
<1> QED
  BY <1>1, <1>8, <1>9

LEMMA NewZLives ==
  ASSUME Inv, stack = <<>>, NEW o \in Obj, NEW s \in Args, TupleNewZ(o, s) \/ ListNewZ(o, s)
  PROVE  Abs!Next
<1>1. /\ o \in Free /\ held' = [Absorb(s) EXCEPT ![o] = 1] /\ stack' = <<>> /\ s \in Given
      /\ \/ heap' = Created(heap, o, "tuple", s, 0)
         \/ heap' = Created(heap, o, "list", s, Grown(0, Len(s)))
  BY DEF TupleNewZ, ListNewZ, Created
<1>2. ValuesOf(s) \subseteq Reached /\ heap \in [Obj -> Object]
  BY IdleReached
<1>3. \A c \in Obj : held'[c] > 0 => c \in Reached \cup {o}
  <2>1. \A c \in Obj : c # o => held'[c] = Absorb(s)[c]
    BY <1>1 DEF Absorb
  <2> QED
    BY <1>1, <2>1, AbsorbHeld
<1>4. Handles(held', stack') \subseteq Reached \cup {o}
  BY <1>1, <1>3, StackHandles
<1>5. {"tuple", "list"} \subseteq Kinds \ {"none"}
  BY DEF Kinds
<1> QED
  BY <1>1, <1>2, <1>4, <1>5, CreatedMakes

LEMMA DictNewLives ==
  ASSUME Inv, stack = <<>>, NEW o \in Obj, NEW s \in Args, DictNew(o, s) \/ DictNewZ(o, s)
  PROVE  Abs!Next
<1>1. s \in Seq(Obj) /\ ValuesOf(s) \subseteq Reached /\ heap \in [Obj -> Object]
  BY IdleReached
<1>2. PICK owned \in BOOLEAN :
        /\ o \in Free /\ heap' = Created(heap, o, "dict", <<>>, 0)
        /\ stack' = Merging(o, s, owned, TRUE)
        /\ held' = held \/ (s \in Given /\ held' = Absorb(s))
  <2>1. CASE DictNew(o, s)
    BY <2>1 DEF DictNew, Created
  <2>2. CASE DictNewZ(o, s)
    BY <2>2 DEF DictNewZ, Created
  <2> QED
    BY <2>1, <2>2
<1> DEFINE f == MergeCall(o, s, owned, TRUE)
<1>3. f \in FrameType /\ f.obj = o /\ f.vals = s /\ stack' = <<f>>
  BY <1>1, <1>2, MergeFrame
<1> HIDE DEF f
<1>4. OwnedBy(f) \subseteq Reached \cup {o}
  BY <1>1, <1>3, OwnsFields
<1>5. \A c \in Obj : held'[c] > 0 => c \in Reached \cup {o}
  BY <1>2, IdleReached, AbsorbHeld
<1>6. Handles(held', stack') \subseteq Reached \cup {o}
  BY <1>3, <1>4, <1>5, StackHandles
<1>7. "dict" \in Kinds \ {"none"} /\ ValuesOf(<<>>) = {}
  BY DEF Kinds, ValuesOf
<1> QED
  BY <1>1, <1>2, <1>6, <1>7, CreatedMakes

\* The client takes or drops a reference.
LEMMA RefLives ==
  ASSUME Inv, stack = <<>>, NEW o \in Obj, NewRef(o) \/ Drop(o)
  PROVE  Abs!Next
<1>1. /\ Quiet(stack) /\ heap \in [Obj -> Object] /\ held \in [Obj -> Nat]
      /\ \A c \in Obj : held[c] > 0 => c \in Reached
      /\ \A c \in Reached : ValuesOf(heap[c].els) \subseteq Reached
  BY IdleReached
<1>2. /\ \A c \in Obj : heap'[c].type = heap[c].type /\ heap'[c].els = heap[c].els
      /\ Handles(held', stack') \subseteq Reached
  <2>1. CASE NewRef(o)
    <3>1. heap' = Raised(heap, o) /\ held' = Take(o) /\ stack' = <<>>
      BY <2>1 DEF NewRef, Raised
    <3>2. o \in Reached
      <4>1. o \in Held \/ \E c \in Held : o \in {heap[c].els[x] : x \in DOMAIN heap[c].els}
        BY <2>1 DEF NewRef
      <4> QED
        BY <1>1, <4>1 DEF Held, ValuesOf
    <3>3. \A c \in Obj : held'[c] > 0 => c \in Reached
      BY <1>1, <3>1, <3>2 DEF Take
    <3>4. \A c \in Obj : heap'[c].type = heap[c].type /\ heap'[c].els = heap[c].els
      BY <1>1, <3>1, RecountedFields DEF Raised
    <3>5. Handles(held', stack') \subseteq Reached
      BY <3>1, <3>3, StackHandles
    <3> QED
      BY <3>4, <3>5
  <2>2. CASE Drop(o)
    <3>1. heap' = Dropped(heap, o) /\ held' = Give(o) /\ stack' = Freeing(heap, <<>>, o)
      BY <2>2, DecrefForm DEF Drop
    <3>2. \A c \in Obj : held'[c] > 0 => c \in Reached
      <4>1. \A c \in Obj : held'[c] > 0 => held[c] > 0
        BY <1>1, <3>1 DEF Give
      <4> QED
        BY <1>1, <4>1
    <3>3. Handles(held', stack') \subseteq Handles(held', <<>>)
      <4>1. <<>> \in Seq(FrameType)
        OBVIOUS
      <4> QED
        BY <3>1, <4>1, FreeingHandles
    <3>4. Handles(held', <<>>) \subseteq Reached
      BY <3>2, StackHandles
    <3> QED
      BY <1>1, <3>1, <3>3, <3>4, RecountedFields DEF Dropped
  <2> QED
    BY <2>1, <2>2
<1> QED
  BY <1>1, <1>2, QuietLoses

LEMMA PushLives ==
  ASSUME Inv, stack = <<>>, NEW l \in Obj, NEW s \in Args, ListPushX(l, s) \/ ListPushZ(l, s)
  PROVE  Abs!Next
<1> DEFINE h == Increfs(heap, s)
<1>1. /\ Quiet(stack) /\ heap \in [Obj -> Object] /\ s \in Seq(Obj) /\ ValuesOf(s) \subseteq Reached
      /\ \A c \in Obj : held[c] > 0 => c \in Reached
  BY IdleReached
<1>2. /\ stack' = <<>> /\ (held' = held \/ (s \in Given /\ held' = Absorb(s)))
      /\ heap' = Pushed(h, l, s) \/ heap' = Pushed(heap, l, s)
  BY DEF ListPushX, ListPushZ
<1>3. h \in [Obj -> Object] /\ \A c \in Obj : h[c].type = heap[c].type /\ h[c].els = heap[c].els
  BY <1>1, IncrefsFields
<1> HIDE DEF h
<1>4. /\ \A c \in Obj : heap'[c].type = heap[c].type
      /\ \A c \in Obj : ValuesOf(heap'[c].els) \subseteq ValuesOf(heap[c].els) \cup Reached
  <2>1. ASSUME NEW g, NEW q, g \in [Obj -> Object], q = Pushed(g, l, s),
               \A c \in Obj : g[c].type = heap[c].type /\ g[c].els = heap[c].els
        PROVE  /\ \A c \in Obj : q[c].type = heap[c].type
               /\ \A c \in Obj : ValuesOf(q[c].els) \subseteq ValuesOf(heap[c].els) \cup Reached
    <3>1. Appended(g, q, l, s)
      BY <1>1, <2>1, PushedAppended
    <3>2. s \in Seq(Obj)
      BY <1>1
    <3>3. \A c \in Obj : /\ q[c].type = g[c].type
                         /\ ValuesOf(q[c].els) = ValuesOf(g[c].els) \cup (IF c = l THEN ValuesOf(s) ELSE {})
      BY <3>1, <3>2, AppendedValues
    <3> QED
      BY <1>1, <2>1, <3>3
  <2> QED
    BY <1>1, <1>2, <1>3, <2>1
<1>5. \A c \in Obj : held'[c] > 0 => c \in Reached
  BY <1>1, <1>2, AbsorbHeld
<1>6. Handles(held', stack') \subseteq Reached
  BY <1>2, <1>5, StackHandles
<1> QED
  BY <1>1, <1>4, <1>6, QuietLoses

LEMMA PopLives ==
  ASSUME Inv, stack = <<>>, NEW l \in Obj, ListPop(l) \/ ListPopU(l)
  PROVE  Abs!Next
<1> DEFINE g == Shortened(l)
           o == LastOf(l)
<1>1. /\ Quiet(stack) /\ heap \in [Obj -> Object] /\ held \in [Obj -> Nat]
      /\ \A c \in Obj : held[c] > 0 => c \in Reached
      /\ \A c \in Reached : ValuesOf(heap[c].els) \subseteq Reached
  BY IdleReached
<1>2. /\ held[l] > 0 /\ heap[l].els # <<>>
      /\ \/ heap' = g /\ stack' = <<>> /\ held' = Take(o)
         \/ heap' = Dropped(g, o) /\ stack' = Freeing(g, <<>>, o) /\ held' = held
  BY DecrefForm DEF ListPop, ListPopU, List, Held
<1>3. o \in Obj /\ Appended(g, heap, l, <<o>>) /\ o \in ValuesOf(heap[l].els)
  <2>1. heap[l].els \in Seq(Obj)
    BY <1>1, ObjectType
  <2>2. Len(heap[l].els) \in DOMAIN heap[l].els
    BY <1>2, <2>1, EmptySeq, LenProperties
  <2> QED
    BY <1>1, <1>2, <2>2, ShortenedAppended DEF LastOf, ValuesOf
<1> HIDE DEF g, o
<1>4. \A c \in Obj : g[c].type = heap[c].type /\ ValuesOf(g[c].els) \subseteq ValuesOf(heap[c].els)
  <2>1. <<o>> \in Seq(Obj)
    BY <1>3
  <2> DEFINE s == <<o>>
  <2>2. s \in Seq(Obj) /\ Appended(g, heap, l, s)
    BY <1>3, <2>1
  <2> HIDE DEF s
  <2>3. \A c \in Obj : /\ heap[c].type = g[c].type
                       /\ ValuesOf(heap[c].els) = ValuesOf(g[c].els) \cup (IF c = l THEN ValuesOf(s) ELSE {})
    BY <2>2, AppendedValues
  <2> QED
    BY <2>3
<1>5. g \in [Obj -> Object]
  BY <1>3 DEF Appended
<1>6. o \in Reached
  BY <1>1, <1>2, <1>3
<1>7. /\ \A c \in Obj : heap'[c].type = heap[c].type
      /\ \A c \in Obj : ValuesOf(heap'[c].els) \subseteq ValuesOf(heap[c].els) \cup Reached
  <2>1. CASE heap' = g
    BY <1>4, <2>1
  <2>2. CASE heap' = Dropped(g, o)
    <3>1. \A c \in Obj : heap'[c].type = g[c].type /\ heap'[c].els = g[c].els
      BY <1>3, <1>5, <2>2, RecountedFields DEF Dropped
    <3> QED
      BY <1>4, <3>1
  <2> QED
    BY <1>2, <2>1, <2>2
<1>8. \A c \in Obj : held'[c] > 0 => c \in Reached
  BY <1>1, <1>2, <1>6 DEF Take
<1>9. Handles(held', stack') \subseteq Handles(held', <<>>)
  <2>1. <<>> \in Seq(FrameType)
    OBVIOUS
  <2> QED
    BY <1>2, <1>3, <2>1, FreeingHandles
<1>10. Handles(held', stack') \subseteq Reached
  BY <1>8, <1>9, StackHandles
<1> QED
  BY <1>1, <1>7, <1>10, QuietLoses

\* A call begins that has changed nothing yet.
LEMMA BeginLives ==
  ASSUME Inv, stack = <<>>, NEW d \in Obj, NEW s \in Args,
         ListOverrun(d, s) \/ DictMerge(d, s) \/ DictMergeZ(d, s)
  PROVE  Abs!Next
<1>1. /\ Quiet(stack) /\ s \in Seq(Obj) /\ ValuesOf(s) \subseteq Reached
      /\ \A c \in Obj : held[c] > 0 => c \in Reached
  BY IdleReached
<1>2. PICK f : /\ heap' = heap /\ stack' = <<f>> /\ OwnedBy(f) \subseteq Reached
               /\ held' = held \/ (s \in Given /\ held' = Absorb(s))
  <2>1. CASE ListOverrun(d, s)
    <3> DEFINE f == Frame("overrun", d)
    <3>1. ~f.owned /\ ~f.new
      BY DEF Frame
    <3>2. heap' = heap /\ stack' = <<f>> /\ held' = held
      BY <2>1 DEF ListOverrun
    <3> HIDE DEF f
    <3>3. OwnedBy(f) \subseteq Reached
      BY <3>1, OwnsNothing
    <3> QED
      BY <3>2, <3>3
  <2>2. ASSUME NEW owned \in BOOLEAN, stack' = Merging(d, s, owned, FALSE)
        PROVE  \E f : stack' = <<f>> /\ OwnedBy(f) \subseteq Reached
    <3> DEFINE f == MergeCall(d, s, owned, FALSE)
    <3>1. f \in FrameType /\ f.vals = s /\ ~f.new /\ stack' = <<f>>
      BY <1>1, <2>2, MergeFrame
    <3> HIDE DEF f
    <3>2. OwnedBy(f) \subseteq Reached
      BY <1>1, <3>1, OwnsFields
    <3> QED
      BY <3>1, <3>2
  <2>3. CASE DictMerge(d, s) \/ DictMergeZ(d, s)
    BY <2>2, <2>3 DEF DictMerge, DictMergeZ
  <2> QED
    BY <2>1, <2>3
<1>3. \A c \in Obj : held'[c] > 0 => c \in Reached
  BY <1>1, <1>2, AbsorbHeld
<1>4. Handles(held', stack') \subseteq Reached
  BY <1>2, <1>3, StackHandles
<1> QED
  BY <1>1, <1>2, <1>4, QuietLoses

LEMMA InsertLives ==
  ASSUME Inv, stack = <<>>, NEW d \in Held, NEW v \in Held, NEW k \in Held, DictInsert(d, k, v)
  PROVE  Abs!Next
<1> DEFINE s == <<k, v>>
           h == Increfs(heap, s)
<1>1. /\ Quiet(stack) /\ heap \in [Obj -> Object]
      /\ \A c \in Obj : held[c] > 0 => c \in Reached
  BY IdleReached
<1>2. /\ d \in Obj /\ v \in Obj /\ k \in Obj /\ v \in Reached /\ k \in Reached
  BY <1>1 DEF Held
<1>3. s \in Seq(Obj) /\ ValuesOf(s) \subseteq Reached
  <2>1. DOMAIN s = {1, 2} /\ s[1] = k /\ s[2] = v
    OBVIOUS
  <2> QED
    BY <1>2, <2>1, CountPair DEF ValuesOf
<1>4. heap' = Extended(h, d, s) /\ held' = held /\ stack' = <<>>
  BY DEF DictInsert, Extended
<1> HIDE DEF s
<1>5. h \in [Obj -> Object] /\ \A c \in Obj : h[c].type = heap[c].type /\ h[c].els = heap[c].els
  BY <1>1, <1>3, IncrefsFields
<1> HIDE DEF h
<1>6. Appended(h, heap', d, s)
  BY <1>2, <1>3, <1>4, <1>5, ExtendedAppended
<1>7. \A c \in Obj : /\ heap'[c].type = h[c].type
                     /\ ValuesOf(heap'[c].els) = ValuesOf(h[c].els) \cup (IF c = d THEN ValuesOf(s) ELSE {})
  BY <1>2, <1>3, <1>6, AppendedValues
<1>8. Handles(held', stack') \subseteq Reached
  BY <1>1, <1>4, StackHandles
<1>9. /\ \A c \in Obj : heap'[c].type = heap[c].type
      /\ \A c \in Obj : ValuesOf(heap'[c].els) \subseteq ValuesOf(heap[c].els) \cup Reached
  BY <1>3, <1>5, <1>7
<1> QED
  BY <1>1, <1>8, <1>9, QuietLoses

LEMMA ReplaceLives ==
  ASSUME Inv, stack = <<>>, NEW d \in Held, NEW v \in Held, NEW x, DictReplace(d, x, v)
  PROVE  Abs!Next
<1> DEFINE s == <<v>>
           h == Increfs(heap, s)
           e == heap[d].els[x + 1]
           f == StoreCall(d, x + 1, s)
<1>1. /\ Quiet(stack) /\ heap \in [Obj -> Object]
      /\ \A c \in Obj : held[c] > 0 => c \in Reached
  BY IdleReached
<1>2. d \in Obj /\ v \in Obj /\ v \in Reached
  BY <1>1 DEF Held
<1>3. /\ heap[d].type = "dict" /\ x \in DOMAIN heap[d].els /\ x % 2 = 1
      /\ heap' = Dropped(h, e) /\ stack' = Freeing(h, <<f>>, e) /\ held' = held
  BY DecrefForm DEF DictReplace, Dict, KeyAt, Replacing, StoreCall
<1>4. e \in Obj /\ x + 1 \in Nat
  <2>1. DOMAIN heap[d].els = 1..Len(heap[d].els) /\ Len(heap[d].els) \in Nat
    BY <1>1, <1>2, ObjectType
  <2>2. Len(heap[d].els) % 2 = 0
    BY <1>2, <1>3 DEF Inv, Pairs
  <2>3. x + 1 \in DOMAIN heap[d].els /\ x + 1 \in Nat
    BY <1>3, <2>1, <2>2, ValueAfter
  <2> QED
    BY <1>1, <1>2, <2>3, ObjectType
<1>5. s \in Seq(Obj) /\ ValuesOf(s) \subseteq Reached
  <2>1. DOMAIN s = {1} /\ s[1] = v
    OBVIOUS
  <2> QED
    BY <1>2, <2>1 DEF ValuesOf
<1> HIDE DEF s, e
<1>6. f \in FrameType /\ f.vals = s /\ f.owned /\ ~f.new
  BY <1>2, <1>4, <1>5, StoreFrame
<1>7. h \in [Obj -> Object] /\ \A c \in Obj : h[c].type = heap[c].type /\ h[c].els = heap[c].els
  BY <1>1, <1>5, IncrefsFields
<1> HIDE DEF h, f
<1>8. \A c \in Obj : heap'[c].type = heap[c].type /\ heap'[c].els = heap[c].els
  BY <1>3, <1>4, <1>7, RecountedFields DEF Dropped
<1>9. OwnedBy(f) \subseteq Reached
  BY <1>5, <1>6, OwnsFields
<1>10. Handles(held', <<f>>) \subseteq Reached
  BY <1>1, <1>3, <1>9, StackHandles
<1>11. <<f>> \in Seq(FrameType)
  BY <1>6
<1>12. Handles(held', stack') \subseteq Handles(held', <<f>>)
  BY <1>3, <1>4, <1>11, FreeingHandles
<1>13. Handles(held', stack') \subseteq Reached
  BY <1>10, <1>12
<1> QED
  BY <1>1, <1>8, <1>13, QuietLoses

LEMMA CallLives ==
  ASSUME Inv, Call
  PROVE  Abs!Next
<1>1. stack = <<>>
  BY DEF Call, Calling
<1>2. CASE \E o \in Obj : Make(o) \/ NewRef(o) \/ Drop(o) \/ ListPop(o) \/ ListPopU(o)
  BY <1>1, <1>2, MakeLives, RefLives, PopLives
<1>3. CASE \E o \in Obj : \E s \in Args :
             \/ TupleNew(o, s) \/ TupleNewZ(o, s) \/ ListNew(o, s) \/ ListNewZ(o, s)
  BY <1>1, <1>3, NewLives, NewZLives
<1>4. CASE \E o \in Obj : \E s \in Args :
             ListPushX(o, s) \/ ListPushZ(o, s) \/ ListOverrun(o, s)
  BY <1>1, <1>4, PushLives, BeginLives
<1>5. CASE \E o \in Obj : \E s \in Args :
             DictNew(o, s) \/ DictNewZ(o, s) \/ DictMerge(o, s) \/ DictMergeZ(o, s)
  BY <1>1, <1>5, DictNewLives, BeginLives
<1>6. CASE \E d, v \in Held :
             \/ \E k \in Held : DictInsert(d, k, v)
             \/ \E x \in 1..MaxElems : DictReplace(d, x, v)
  BY <1>1, <1>6, InsertLives, ReplaceLives
<1> QED
  BY <1>2, <1>3, <1>4, <1>5, <1>6 DEF Call

\* A deleter gives back one more reference: its element may go out of reach.
LEMMA FreeElementLives ==
  ASSUME Inv, FreeElement
  PROVE  Abs!Next
<1> DEFINE n == Len(stack)
           e == heap[stack[n].obj].els[stack[n].next]
           st == Advanced(stack)
<1>1. /\ heap \in [Obj -> Object] /\ stack \in Seq(FrameType) /\ stack # <<>>
      /\ stack[n].op = "free" /\ stack[n].next <= Len(heap[stack[n].obj].els)
      /\ held' = held
      /\ heap' = Dropped(heap, e) /\ stack' = Freeing(heap, st, e)
  BY InvState, DecrefForm DEF FreeElement, In, Calling, Top, Advanced, Below, Returned
<1>2. /\ st \in Seq(FrameType) /\ n \in Nat \ {0} /\ DOMAIN st = 1..n /\ DOMAIN stack = 1..n
      /\ \A x \in 1..(n - 1) : st[x] = stack[x]
      /\ st[n].next = stack[n].next + 1
      /\ st[n].op = stack[n].op /\ st[n].obj = stack[n].obj
      /\ st[n].vals = stack[n].vals /\ st[n].slot = stack[n].slot
      /\ st[n].owned = stack[n].owned /\ st[n].new = stack[n].new
  BY <1>1, AdvancedFrames
<1>3. e \in Obj
  <2>1. stack[n].obj \in Obj /\ n \in DOMAIN stack /\ stack[n].next \in Nat
    BY <1>1, <1>2, FrameFields
  <2>2. stack[n].next \in 1..(Len(heap[stack[n].obj].els) + 1)
    BY <1>1, <2>1 DEF Inv, IInv, Sound, DeletersOK
  <2>3. stack[n].next \in DOMAIN heap[stack[n].obj].els
    BY <1>1, <2>1, <2>2, ObjectType
  <2> QED
    BY <1>1, <2>1, <2>3, ObjectType
<1> HIDE DEF e, st, n
<1>4. \A x \in 1..n : x = n \/ (x \in 1..(n - 1) /\ st[x] = stack[x])
  BY <1>2
<1>5. \A x \in 1..n : OwnedBy(st[x]) = OwnedBy(stack[x])
  <2>1. Owned(st[n]) = Owned(stack[n])
    BY <1>2 DEF Owned
  <2> QED
    BY <1>4, <2>1 DEF OwnedBy
<1>6. ASSUME NEW c \in Obj, NEW i \in DOMAIN heap[c].els, GivenBack(stack, c, i)
      PROVE  GivenBack(st, c, i)
  <2>1. PICK y \in 1..n : GaveBack(stack[y], c, i)
    BY <1>2, <1>6 DEF GivenBack
  <2>2. CASE y # n
    BY <1>2, <1>4, <2>1, <2>2 DEF GivenBack
  <2>3. CASE y = n
    <3>1. n \in DOMAIN stack /\ stack[n].next \in Nat /\ i \in Nat
      <4>1. stack[n].next \in Nat
        BY <1>1, <1>2, <2>1, <2>3, FrameFields
      <4>2. DOMAIN heap[c].els \subseteq Nat
        BY <1>1, ObjectType
      <4> QED
        BY <1>2, <2>1, <2>3, <4>1, <4>2
    <3>2. stack[n].obj = c /\ i < stack[n].next
      BY <1>1, <2>1, <2>3 DEF GaveBack
    <3>3. i < st[n].next
      BY <1>2, <3>1, <3>2
    <3>4. GaveBack(st[n], c, i)
      BY <1>1, <1>2, <3>2, <3>3 DEF GaveBack
    <3> QED
      BY <1>2, <2>1, <2>3, <3>4 DEF GivenBack
  <2> QED
    BY <2>2, <2>3
<1>7. Handles(held', stack') \subseteq Reached
  <2>1. Handles(held', stack') \subseteq Handles(held, st)
    BY <1>1, <1>2, <1>3, FreeingHandles
  <2>2. Handles(held, st) \subseteq Handles(held, stack)
    BY <1>2, <1>5 DEF Handles
  <2> QED
    BY <2>1, <2>2, ReachedCounted
<1>8. \A c \in Obj : heap'[c].type = heap[c].type /\ heap'[c].els = heap[c].els
  BY <1>1, <1>3, RecountedFields DEF Dropped
<1>9. \A c \in Obj : Kids(heap', stack', c) \subseteq Kids(heap, stack, c)
  <2>1. \A c, i : GivenBack(st, c, i) => GivenBack(stack', c, i)
    BY <1>1, <1>2, <1>3, FreeingHandles
  <2>2. \A c \in Obj : \A i \in DOMAIN heap[c].els :
           ~GivenBack(stack', c, i) => ~GivenBack(stack, c, i)
    BY <1>6, <2>1
  <2> QED
    BY <1>8, <2>2 DEF Kids
<1>10. Reached' \subseteq Reached
  <2>1. Reached' \subseteq Reached \cup {}
    BY <1>7, <1>9, ReachedStays
  <2> QED
    BY <2>1
<1> QED
  BY <1>8, <1>10, Loses

\* The memory of an object goes, which nobody can get at.
LEMMA FreeMemoryLives ==
  ASSUME Inv, FreeMemory
  PROVE  Abs!Next
<1> DEFINE n == Len(stack)
           d == stack[n].obj
           tt == Returned(stack)
<1>1. /\ heap \in [Obj -> Object] /\ stack \in Seq(FrameType) /\ stack # <<>>
      /\ stack[n].op = "free" /\ stack[n].next > Len(heap[d].els)
      /\ held' = held /\ heap' = Freed(heap, d) /\ stack' = tt
      /\ Sound(heap, stack, Roots(held, stack))
  BY InvState DEF FreeMemory, In, Calling, Top, Below, Returned, Freed
<1>2. d \in Obj /\ heap[d].refc = 0
  BY <1>1, FreedSound
<1>3. /\ n \in Nat \ {0} /\ DOMAIN stack = 1..n /\ DOMAIN tt = 1..(n - 1)
      /\ \A x \in 1..(n - 1) : tt[x] = stack[x]
  BY <1>1, BelowFrames
<1>4. heap[d].type # "none"
  <2>1. n \in DOMAIN stack
    BY <1>3
  <2> QED
    BY <1>1, <2>1 DEF Sound, DeletersOK
<1>5. d \notin Reached
  BY <1>2, ReachedCounted DEF Counted
<1>6. /\ \A c \in Obj : heap'[c].type = IF c = d THEN "none" ELSE heap[c].type
      /\ \A c \in Obj : c # d => heap'[c].els = heap[c].els
      /\ heap'[d].els = <<>>
  BY <1>1, <1>2 DEF Freed, NoObject
<1> HIDE DEF tt, d, n
<1>7. \A x \in 1..n : x = n \/ (x \in 1..(n - 1) /\ tt[x] = stack[x])
  BY <1>3
<1>8. \A x \in 1..(n - 1) : x \in 1..n
  BY <1>3
<1>9. Handles(held', stack') \subseteq Reached
  <2>1. Handles(held, tt) \subseteq Handles(held, stack)
    BY <1>3, <1>8 DEF Handles
  <2> QED
    BY <1>1, <2>1, ReachedCounted
<1>10. \A c \in Obj : Kids(heap', stack', c) \subseteq Kids(heap, stack, c)
  <2>1. TAKE c \in Obj
  <2>2. CASE c = d
    <3>1. DOMAIN heap'[c].els = {}
      BY <1>6, <2>2
    <3> QED
      BY <3>1 DEF Kids
  <2>3. CASE c # d
    <3>1. \A i : GivenBack(stack, c, i) => GivenBack(tt, c, i)
      <4>1. stack[n].obj # c
        BY <2>3 DEF d, n
      <4>2. \A i : ~GaveBack(stack[n], c, i)
        BY <4>1 DEF GaveBack
      <4> QED
        BY <1>3, <1>7, <4>2 DEF GivenBack
    <3>2. heap'[c].els = heap[c].els
      BY <1>6, <2>3
    <3> QED
      BY <1>1, <3>1, <3>2 DEF Kids
  <2> QED
    BY <2>2, <2>3
<1>11. Reached' \subseteq Reached
  <2>1. Reached' \subseteq Reached \cup {}
    BY <1>9, <1>10, ReachedStays
  <2> QED
    BY <2>1
<1> QED
  BY <1>2, <1>4, <1>5, <1>6, <1>11, Frees

\* The last call is the only one, and what it owns can be reached.
LEMMA LoneReached ==
  ASSUME Inv, Calling, Top.op # "free"
  PROVE  /\ Top \in FrameType /\ stack = <<Top>> /\ Below = <<>> /\ stack[1] = Top /\ stack # <<>>
         /\ heap \in [Obj -> Object] /\ held \in [Obj -> Nat]
         /\ CallOK(heap, held, stack)
         /\ \A c, x : GivenBack(stack, c, x) <=> GaveBack(Top, c, x)
         /\ Top.op # "store" => Quiet(stack)
         /\ OwnedBy(Top) \subseteq Reached
         /\ \A o \in Obj : held[o] > 0 => o \in Reached
<1>1. /\ Top \in FrameType /\ stack = <<Top>> /\ Below = <<>> /\ stack[1] = Top /\ stack # <<>>
      /\ heap \in [Obj -> Object] /\ held \in [Obj -> Nat]
      /\ Len(stack) = 1
  BY LoneCall DEF Inv
<1>2. CallOK(heap, held, stack)
  BY DEF Inv, IInv
<1>3. DOMAIN stack = {1}
  <2>1. stack \in Seq(FrameType)
    BY InvState
  <2> QED
    BY <1>1, <2>1, LenProperties
<1> DEFINE f == Top
<1>4. f = stack[1] /\ f.op # "free"
  BY <1>1
<1> HIDE DEF f
<1>5. \A c, x : GivenBack(stack, c, x) <=> GaveBack(f, c, x)
  BY <1>3, <1>4 DEF GivenBack
<1>6. f.op # "store" => \A c, x : ~GaveBack(f, c, x)
  BY <1>4 DEF GaveBack
<1>7. f.op # "store" => Quiet(stack)
  BY <1>5, <1>6 DEF Quiet
<1>8. OwnedBy(f) \subseteq Handles(held, stack)
  BY <1>3, <1>4 DEF Handles
<1>9. OwnedBy(f) \subseteq Reached
  BY <1>8, ReachedCounted
<1>10. \A o \in Obj : held[o] > 0 => o \in Reached
  BY ReachedCounted DEF Handles
<1> QED
  BY <1>1, <1>2, <1>5, <1>7, <1>9, <1>10 DEF f

\* A value a call owns.
LEMMA FirstValue ==
  ASSUME NEW f \in FrameType, f.vals # <<>>
  PROVE  /\ Head(f.vals) \in Obj /\ Head(f.vals) \in ValuesOf(f.vals)
         /\ 1 \in DOMAIN f.vals /\ Head(f.vals) = f.vals[1]
         /\ f.owned => Head(f.vals) \in OwnedBy(f)
         /\ NextValue(f) \in FrameType /\ OwnedBy(NextValue(f)) \subseteq OwnedBy(f)
<1> DEFINE t == Tail(f.vals)
           v == Head(f.vals)
           g == NextValue(f)
<1>1. f.vals \in Seq(Obj)
  BY DEF FrameType
<1>2. /\ v \in Obj /\ 1 \in DOMAIN f.vals /\ v = f.vals[1]
      /\ \A x \in DOMAIN t : x + 1 \in DOMAIN f.vals /\ t[x] = f.vals[x + 1]
  BY <1>1, CountTail
<1>3. g \in FrameType /\ g.obj = f.obj /\ g.vals = t /\ g.owned = f.owned /\ g.new = f.new
  BY NextValueFrame
<1> HIDE DEF t, v, g
<1>4. v \in ValuesOf(f.vals) /\ ValuesOf(t) \subseteq ValuesOf(f.vals)
  BY <1>2 DEF ValuesOf
<1>5. f.owned \in BOOLEAN
  BY DEF FrameType
<1>6. f.owned => v \in OwnedBy(f)
  BY <1>4, OwnsFields
<1>7. OwnedBy(g) \subseteq OwnedBy(f)
  BY <1>3, <1>4, <1>5, OwnsFields
<1> QED
  BY <1>2, <1>3, <1>4, <1>6, <1>7 DEF v, g

\* The value that replaces another was the call's before it is in its place.
LEMMA DictStoreLives ==
  ASSUME Inv, DictStore
  PROVE  Abs!Next
<1> DEFINE f == Top
           v == f.vals[1]
           g == Stored(heap, f.obj, f.slot, v)
<1>1. /\ Calling /\ f.op = "store" /\ heap' = g /\ stack' = Below /\ held' = held
  BY DEF DictStore, In, Stored
<1>2. /\ f \in FrameType /\ stack[1] = f /\ stack # <<>> /\ Below = <<>>
      /\ heap \in [Obj -> Object] /\ CallOK(heap, held, stack)
      /\ \A c, x : GivenBack(stack, c, x) <=> GaveBack(f, c, x)
      /\ OwnedBy(f) \subseteq Reached
      /\ \A o \in Obj : held[o] > 0 => o \in Reached
  BY <1>1, LoneReached
<1> HIDE DEF f
<1>3. f.slot \in DOMAIN heap[f.obj].els /\ f.owned /\ Len(f.vals) = 1
  BY <1>1, <1>2 DEF CallOK
<1>4. f.obj \in Obj /\ f.vals \in Seq(Obj)
  BY <1>2 DEF FrameType
<1>5. v \in Obj /\ v \in Reached
  <2>1. 1 \in DOMAIN f.vals
    BY <1>3, <1>4, LenProperties
  <2>2. v \in ValuesOf(f.vals)
    BY <2>1 DEF ValuesOf
  <2>3. v \in OwnedBy(f) /\ ValuesOf(f.vals) \subseteq Obj
    BY <1>2, <1>3, <2>2, OwnsFields
  <2> QED
    BY <1>2, <2>2, <2>3
<1> HIDE DEF v
<1>6. /\ \A o \in Obj : g[o].type = heap[o].type
      /\ \A o \in Obj : DOMAIN g[o].els = DOMAIN heap[o].els
      /\ \A o \in Obj : o # f.obj => g[o] = heap[o]
      /\ \A x \in DOMAIN heap[f.obj].els :
           g[f.obj].els[x] = IF x = f.slot THEN v ELSE heap[f.obj].els[x]
  BY <1>2, <1>3, <1>4, <1>5, StoredObject
<1> HIDE DEF g
<1>7. Handles(held', stack') \subseteq Reached
  BY <1>1, <1>2, StackHandles
<1>8. \A c \in Obj : Kids(heap', stack', c) \subseteq Kids(heap, stack, c) \cup Reached
  <2>1. SUFFICES ASSUME NEW c \in Obj, NEW x \in DOMAIN heap[c].els
                 PROVE  g[c].els[x] \in Kids(heap, stack, c) \cup Reached
    BY <1>1, <1>6 DEF Kids
  <2>2. CASE c = f.obj /\ x = f.slot
    BY <1>5, <1>6, <2>2
  <2>3. CASE c # f.obj \/ x # f.slot
    <3>1. ~GivenBack(stack, c, x)
      BY <1>1, <1>2, <2>3 DEF GaveBack
    <3>2. g[c].els[x] = heap[c].els[x]
      BY <1>6, <2>3
    <3> QED
      BY <3>1, <3>2 DEF Kids
  <2> QED
    BY <2>2, <2>3
<1>9. Reached' \subseteq Reached
  <2>1. Reached' \subseteq Reached \cup {}
    BY <1>7, <1>8, ReachedStays
  <2> QED
    BY <2>1
<1> QED
  BY <1>1, <1>6, <1>9, Loses

\* A merge ends, or fails, or gives back what it owns.
LEMMA MergeOverLives ==
  ASSUME Inv, MergeFails \/ MergeEnds
  PROVE  Abs!Next
<1> DEFINE f == Top
           g == [f EXCEPT !.op = "undo"]
<1>1. /\ Calling /\ f.op = "merge" /\ heap' = heap
      /\ \/ stack' = Append(Below, g) /\ held' = held
         \/ stack' = Below /\ held' = IF f.new THEN Take(f.obj) ELSE held
  BY DEF MergeFails, MergeEnds, In
<1>2. /\ f \in FrameType /\ Below = <<>> /\ Quiet(stack) /\ held \in [Obj -> Nat]
      /\ OwnedBy(f) \subseteq Reached /\ \A o \in Obj : held[o] > 0 => o \in Reached
  BY <1>1, LoneReached
<1> HIDE DEF f
<1>3. g.obj = f.obj /\ g.vals = f.vals /\ g.owned = f.owned /\ g.new = f.new
  BY <1>2 DEF FrameType
<1> HIDE DEF g
<1>4. OwnedBy(g) = OwnedBy(f)
  <2>1. Owned(g) = Owned(f)
    BY <1>3 DEF Owned
  <2> QED
    BY <2>1 DEF OwnedBy
<1>5. f.new => f.obj \in OwnedBy(f)
  <2>1. f.owned \in BOOLEAN
    BY <1>2 DEF FrameType
  <2> QED
    BY <1>2, <2>1, OwnsFields
<1>6. \A o \in Obj : held'[o] > 0 => o \in Reached
  <2>1. CASE held' = held
    BY <1>2, <2>1
  <2>2. CASE f.new /\ held' = Take(f.obj)
    BY <1>2, <1>5, <2>2 DEF Take
  <2> QED
    BY <1>1, <2>1, <2>2
<1>7. Handles(held', stack') \subseteq Reached
  <2>1. stack' = <<g>> \/ stack' = <<>>
    BY <1>1, <1>2
  <2> QED
    BY <1>2, <1>4, <1>6, <2>1, StackHandles
<1> QED
  BY <1>1, <1>2, <1>7, QuietLoses

LEMMA UndoLives ==
  ASSUME Inv, UndoValue \/ Undone
  PROVE  Abs!Next
<1> DEFINE f == Top
           g == NextValue(f)
<1>1. /\ Calling /\ f.op = "undo" /\ held' = held
      /\ \/ f.vals # <<>> /\ Decref(heap, Append(Below, g), Head(f.vals))
         \/ Decref(heap, Below, f.obj)
         \/ stack' = Below /\ heap' = heap
  BY DEF UndoValue, Undone, In, NextValue
<1>2. /\ f \in FrameType /\ Below = <<>> /\ Quiet(stack) /\ heap \in [Obj -> Object]
      /\ OwnedBy(f) \subseteq Reached /\ \A o \in Obj : held[o] > 0 => o \in Reached
  BY <1>1, LoneReached
<1> HIDE DEF f
<1>3. Handles(held, <<>>) \subseteq Reached
  BY <1>2, StackHandles
<1>4. f.vals # <<>> => /\ <<g>> \in Seq(FrameType) /\ Head(f.vals) \in Obj
                       /\ Handles(held, <<g>>) \subseteq Reached
  <2>1. SUFFICES ASSUME f.vals # <<>>
                 PROVE  /\ <<g>> \in Seq(FrameType) /\ Head(f.vals) \in Obj
                        /\ Handles(held, <<g>>) \subseteq Reached
    OBVIOUS
  <2>2. g \in FrameType /\ OwnedBy(g) \subseteq OwnedBy(f) /\ Head(f.vals) \in Obj
    BY <1>2, <2>1, FirstValue
  <2> HIDE DEF g
  <2>3. Handles(held, <<g>>) \subseteq Reached
    BY <1>2, <2>2, StackHandles
  <2> QED
    BY <2>2, <2>3
<1> HIDE DEF g
<1>5. f.obj \in Obj
  BY <1>2 DEF FrameType
<1>6. ASSUME NEW st \in Seq(FrameType), NEW o \in Obj, Decref(heap, st, o),
             Handles(held, st) \subseteq Reached
      PROVE  /\ \A c \in Obj : heap'[c].type = heap[c].type /\ heap'[c].els = heap[c].els
             /\ Handles(held', stack') \subseteq Reached
  <2>1. heap' = Dropped(heap, o) /\ stack' = Freeing(heap, st, o)
    BY <1>6, DecrefForm
  <2>2. \A c \in Obj : heap'[c].type = heap[c].type /\ heap'[c].els = heap[c].els
    BY <1>2, <2>1, RecountedFields DEF Dropped
  <2>3. Handles(held, stack') \subseteq Handles(held, st)
    BY <2>1, FreeingHandles
  <2> QED
    BY <1>1, <1>6, <2>2, <2>3
<1>7. /\ \A c \in Obj : heap'[c].type = heap[c].type /\ heap'[c].els = heap[c].els
      /\ Handles(held', stack') \subseteq Reached
  <2>1. CASE f.vals # <<>> /\ Decref(heap, Append(Below, g), Head(f.vals))
    <3>1. Append(Below, g) = <<g>>
      BY <1>2
    <3>2. Decref(heap, <<g>>, Head(f.vals))
      BY <2>1, <3>1
    <3> QED
      BY <1>4, <1>6, <2>1, <3>2
  <2>2. CASE Decref(heap, Below, f.obj)
    <3>1. Below \in Seq(FrameType)
      BY <1>2
    <3> QED
      BY <1>2, <1>3, <1>5, <1>6, <2>2, <3>1
  <2>3. CASE stack' = Below /\ heap' = heap
    BY <1>1, <1>2, <1>3, <2>3
  <2> QED
    BY <1>1, <2>1, <2>2, <2>3
<1> QED
  BY <1>2, <1>7, QuietLoses

\* A merge makes a key.
LEMMA MergeItemLives ==
  ASSUME Inv, MergeItem
  PROVE  Abs!Next
<1> DEFINE f == Top
           v == Head(f.vals)
           g == NextValue(f)
<1>1. /\ Calling /\ f.op = "merge" /\ f.vals # <<>> /\ held' = held
      /\ stack' = Append(Below, g)
  BY DEF MergeItem, In, NextValue
<1>2. /\ f \in FrameType /\ Below = <<>> /\ stack[1] = f /\ stack # <<>>
      /\ Quiet(stack) /\ heap \in [Obj -> Object] /\ CallOK(heap, held, stack)
      /\ OwnedBy(f) \subseteq Reached /\ \A o \in Obj : held[o] > 0 => o \in Reached
  BY <1>1, LoneReached
<1>3. PICK k \in Free :
        LET e == Extended(Made(heap, k, "leaf", 0), f.obj, <<k, v>>)
        IN  /\ f.owned => heap' = [e EXCEPT ![v].refc = @]
            /\ ~f.owned => heap' = Raised(e, v)
  BY ItemForm DEF Inv
<1> DEFINE a == Made(heap, k, "leaf", 0)
           s == <<k, v>>
           e == Extended(a, f.obj, s)
<1>4. /\ f.owned => heap' = [e EXCEPT ![v].refc = @]
      /\ ~f.owned => heap' = Raised(e, v)
      /\ k \in Obj
  BY <1>3 DEF Free
<1>5. a \in [Obj -> Object] /\ a = Created(heap, k, "leaf", <<>>, 0)
  <2>1. New("leaf", <<>>, 0) \in Object
    BY EmptySeq DEF New, Object, Kinds
  <2> QED
    BY <1>2, <1>4, <2>1 DEF Made, Created
<1> HIDE DEF a, e, f
<1>6. /\ g \in FrameType /\ OwnedBy(g) \subseteq OwnedBy(f) /\ v \in Obj
      /\ 1 \in DOMAIN f.vals /\ v = f.vals[1]
      /\ f.owned => v \in OwnedBy(f)
  BY <1>1, <1>2, FirstValue
<1>7. f.obj \in Obj /\ f.owned \in BOOLEAN
  BY <1>2 DEF FrameType
<1>8. s \in Seq(Obj) /\ DOMAIN s = {1, 2} /\ s[1] = k /\ s[2] = v
  BY <1>4, <1>6
<1> HIDE DEF g, v, s
<1>9. v \in Reached
  <2>1. CASE f.owned
    BY <1>2, <1>6, <2>1
  <2>2. CASE ~f.owned
    <3>1. \A x \in DOMAIN f.vals : held[f.vals[x]] > 0
      BY <1>1, <1>2, <2>2 DEF CallOK
    <3> QED
      BY <1>2, <1>6, <3>1
  <2> QED
    BY <2>1, <2>2
<1>10. ValuesOf(s) \subseteq Reached \cup {k}
  BY <1>8, <1>9 DEF ValuesOf
<1>11. Appended(a, e, f.obj, s)
  BY <1>5, <1>7, <1>8, ExtendedAppended DEF e
<1>12. \A c \in Obj : /\ e[c].type = a[c].type
                      /\ ValuesOf(e[c].els) = ValuesOf(a[c].els) \cup (IF c = f.obj THEN ValuesOf(s) ELSE {})
  BY <1>7, <1>8, <1>11, AppendedValues
<1>13. \A c \in Obj : /\ a[c].type = IF c = k THEN "leaf" ELSE heap[c].type
                      /\ a[c].els = IF c = k THEN <<>> ELSE heap[c].els
  BY <1>2, <1>4, <1>5, CreatedValues
<1>14. ValuesOf(<<>>) = {}
  BY DEF ValuesOf
<1>15. \A c \in Obj : heap'[c].type = e[c].type /\ heap'[c].els = e[c].els
  <2>1. e \in [Obj -> Object]
    BY <1>11 DEF Appended
  <2>2. CASE f.owned
    <3>1. heap' = e
      BY <1>4, <1>6, <2>1, <2>2, RefcSame
    <3> QED
      BY <3>1
  <2>3. CASE ~f.owned
    <3>1. heap' = Raised(e, v)
      BY <1>4, <2>3
    <3> QED
      BY <1>6, <2>1, <3>1, RecountedFields DEF Raised
  <2> QED
    BY <1>7, <2>2, <2>3
<1>16. /\ \A c \in Obj : heap'[c].type = IF c = k THEN "leaf" ELSE heap[c].type
       /\ \A c \in Obj : ValuesOf(heap'[c].els) \subseteq ValuesOf(heap[c].els) \cup Reached \cup {k}
  <2>1. ASSUME NEW c \in Obj
        PROVE  ValuesOf(heap'[c].els) \subseteq ValuesOf(heap[c].els) \cup Reached \cup {k}
    <3>1. ValuesOf(heap'[c].els) \subseteq ValuesOf(a[c].els) \cup ValuesOf(s)
      BY <1>12, <1>15
    <3>2. ValuesOf(a[c].els) \subseteq ValuesOf(heap[c].els)
      BY <1>13, <1>14
    <3> QED
      BY <1>10, <3>1, <3>2
  <2> QED
    BY <1>12, <1>13, <1>15, <2>1
<1>17. Handles(held', stack') \subseteq Reached \cup {k}
  <2>1. stack' = <<g>> /\ OwnedBy(g) \subseteq Reached
    BY <1>1, <1>2, <1>6
  <2>2. Handles(held', stack') \subseteq Reached
    BY <1>1, <1>2, <2>1, StackHandles
  <2> QED
    BY <2>2
<1>18. "leaf" \in Kinds \ {"none"}
  BY DEF Kinds
<1> QED
  BY <1>2, <1>3, <1>16, <1>17, <1>18, QuietMakes

LEMMA StepLives ==
  ASSUME Inv, Step
  PROVE  Abs!Next
<1>1. CASE FreeElement \/ FreeMemory
  BY <1>1, FreeElementLives, FreeMemoryLives
<1>2. CASE DictStore \/ MergeItem
  BY <1>2, DictStoreLives, MergeItemLives
<1>3. CASE MergeFails \/ MergeEnds
  BY <1>3, MergeOverLives
<1>4. CASE UndoValue \/ Undone
  BY <1>4, UndoLives
<1> QED
  BY <1>1, <1>2, <1>3, <1>4 DEF Step

LEMMA InitLives ==
  ASSUME Init
  PROVE  Abs!Init
<1>1. /\ heap = [o \in Obj |-> NoObject] /\ held = [o \in Obj |-> 0] /\ stack = <<>>
  BY DEF Init
<1>2. [o \in Obj |-> heap[o].type] = [o \in Obj |-> "none"]
  BY <1>1 DEF NoObject
<1>3. Handles(held, stack) = {}
  <2>1. DOMAIN stack = {}
    BY <1>1
  <2>2. \A o \in Obj : ~(held[o] > 0)
    BY <1>1
  <2> QED
    BY <2>1, <2>2 DEF Handles
<1>4. Held \cup Claimed = {}
  BY <1>3, HandlesHeld
<1>5. Closed({})
  BY DEF Closed
<1>6. Reached = {}
  BY <1>4, <1>5, ReachLeast DEF Reached
<1> QED
  BY <1>2, <1>6 DEF Abs!Init, Reached

LEMMA StutterLives ==
  ASSUME UNCHANGED vars
  PROVE  UNCHANGED Abs!vars
BY DEF vars, Abs!vars, Held, Claimed, ClaimedAt, Reach, Closed, Elements, Kept

\* Reference counting implements the lifetimes it promises.
THEOREM RefinesLifetime == Spec => ImplementsLifetime
<1>1. Init => Abs!Init
  BY InitLives
<1>2. Inv /\ [Next]_vars => [Abs!Next]_(Abs!vars)
  <2>1. CASE Inv /\ Step
    BY <2>1, StepLives
  <2>2. CASE Inv /\ Call
    BY <2>2, CallLives
  <2>3. CASE UNCHANGED vars
    BY <2>3, StutterLives
  <2> QED
    BY <2>1, <2>2, <2>3 DEF Next
<1>3. Spec => []Inv
  BY Invariance
<1> QED
  BY <1>1, <1>2, <1>3, PTL DEF Spec, ImplementsLifetime, Abs!Spec
=============================================================================

------------------------------ MODULE Ownership ------------------------------
(***************************************************************************)
(* Reference-counted objects: kobj_make, kobj_free and the KOBJ_ macros of *)
(* src/api.c and include/kata/api.h, with the containers that hold         *)
(* references: src/types/tuple.c, src/types/list.c and, as the caller of   *)
(* its search, src/types/dict.c.                                           *)
(*                                                                         *)
(* A client calls one operation after the other and follows the            *)
(* documented protocol: it passes only objects it holds a reference to,    *)
(* and one reference per object an absorbing operation takes.  An object   *)
(* whose last reference goes is freed by its deleter, which gives back the *)
(* references of the object, freeing others in turn.  The calls that are   *)
(* active are frames on a stack, and every step is one of the last frame.  *)
(***************************************************************************)
EXTENDS Kmem, Sequences, FiniteSets

CONSTANTS
  Obj,        \* places for objects; bound: as many live at a time
  Types,      \* bound: the types of containers the client makes
  MaxHeld,    \* bound: references the client holds on one object
  MaxElems,   \* bound: elements of all containers together
  MaxArgs     \* bound: objects passed in one call

ASSUME BoundsAssumption == 
  /\ IsFiniteSet(Obj)
  /\ Types \subseteq {"tuple", "list", "dict"}
  /\ {MaxHeld, MaxElems, MaxArgs} \subseteq Nat
  /\ MaxHeld > 0

Pointer == 8   \* sizeof(kobj)

VARIABLES
  heap,       \* the objects: type, reference count, elements, capacity
  held,       \* references the client holds
  stack       \* the active calls that may free objects

vars == <<heap, held, stack>>

\* The elements of a dictionary are its keys and values in turn.
NoObject == [type |-> "none", refc |-> 0, els |-> <<>>, cap |-> 0]
New(type, els, cap) == [type |-> type, refc |-> 1, els |-> els, cap |-> cap]

Live == {o \in Obj : heap[o].type # "none"}
Held == {o \in Obj : held[o] > 0}
Free == Obj \ Live

Count(s, o) == Cardinality({x \in DOMAIN s : s[x] = o})

\* The sequences of objects the client can pass.
Args == UNION {[1..n -> Held] : n \in 0..MaxArgs}
\* Those it can hand over.
Given == {s \in Args : \A o \in Obj : Count(s, o) <= held[o]}

(***************************************************************************)
(* Active calls.  A frame has the object it works on, the next element of  *)
(* a deleter, the slot a replacement writes, the values still to be stored *)
(* or given back, whether the call owns a reference to each of them, and   *)
(* whether it has made the object and owns it.                             *)
(***************************************************************************)
Frame(op, o) ==
  [op |-> op, obj |-> o, next |-> 1, slot |-> 0, vals |-> <<>>,
   owned |-> FALSE, new |-> FALSE]

Calling == stack # <<>>
Places == UNION {{c} \X DOMAIN heap[c].els : c \in Obj}
Bounded(n) == Cardinality(Places) + n <= MaxElems
MayMake(type, n) == type \in Types /\ Bounded(n)
Top == stack[Len(stack)]
Below == SubSeq(stack, 1, Len(stack) - 1)
In(op) == Calling /\ Top.op = op

(***************************************************************************)
(* References.                                                             *)
(***************************************************************************)

\* KOBJ_INCREF of every element.
Increfs(h, s) == [o \in Obj |-> [h[o] EXCEPT !.refc = @ + Count(s, o)]]

\* KOBJ_DECREF: the last reference calls kobj_free.
Decref(h, frames, o) ==
  /\ heap' = [h EXCEPT ![o].refc = @ - 1]
  /\ stack' = IF h[o].refc = 1
              THEN Append(frames, Frame("free", o))
              ELSE frames

Give(o) == [held EXCEPT ![o] = @ - 1]
Take(o) == [held EXCEPT ![o] = @ + 1]
Absorb(s) == [o \in Obj |-> held[o] - Count(s, o)]

(***************************************************************************)
(* The deleters: kobj_free calls the one of the type, a loop over the      *)
(* elements, and the memory goes last.                                     *)
(***************************************************************************)

\* Mutant: the loop does not advance; nothing more happens to an element
\* already freed.
FreeElement_Again ==
  /\ In("free") /\ Top.next <= Len(heap[Top.obj].els)
  /\ heap[heap[Top.obj].els[Top.next]].refc > 0
  /\ Decref(heap, stack, heap[Top.obj].els[Top.next])
  /\ UNCHANGED held

FreeElement ==
  /\ In("free") /\ Top.next <= Len(heap[Top.obj].els)
  /\ Decref(heap, Append(Below, [Top EXCEPT !.next = @ + 1]),
            heap[Top.obj].els[Top.next])
  /\ UNCHANGED held

FreeMemory ==
  /\ In("free") /\ Top.next > Len(heap[Top.obj].els)
  /\ heap' = [heap EXCEPT ![Top.obj] = NoObject]
  /\ stack' = Below
  /\ UNCHANGED held

(***************************************************************************)
(* The client's own references.                                            *)
(***************************************************************************)

\* kobj_make, for a type without elements.
Make(o) ==
  /\ o \in Free
  /\ heap' = [heap EXCEPT ![o] = New("leaf", <<>>, 0)]
  /\ held' = Take(o)
  /\ UNCHANGED stack

\* KOBJ_NEWREF, of an object the client holds or finds in one it holds.
NewRef(o) ==
  /\ held[o] < MaxHeld
  /\ o \in Held \cup UNION {{heap[c].els[x] : x \in DOMAIN heap[c].els} : c \in Held}
  /\ heap' = [heap EXCEPT ![o].refc = @ + 1]
  /\ held' = Take(o)
  /\ UNCHANGED stack

Drop(o) ==
  /\ o \in Held
  /\ held' = Give(o)
  /\ Decref(heap, <<>>, o)

(***************************************************************************)
(* Tuples.                                                                 *)
(***************************************************************************)

\* Mutant: ktuple_new without its loop of increments.
TupleNew_Borrows(o, s) ==
  /\ o \in Free /\ MayMake("tuple", Len(s)) /\ s \in Args
  /\ heap' = [heap EXCEPT ![o] = New("tuple", s, 0)]
  /\ held' = Take(o)
  /\ UNCHANGED stack

TupleNew(o, s) ==
  /\ o \in Free /\ MayMake("tuple", Len(s)) /\ s \in Args
  /\ heap' = [Increfs(heap, s) EXCEPT ![o] = New("tuple", s, 0)]
  /\ held' = Take(o)
  /\ UNCHANGED stack

TupleNewZ(o, s) ==
  /\ o \in Free /\ MayMake("tuple", Len(s)) /\ s \in Given
  /\ heap' = [heap EXCEPT ![o] = New("tuple", s, 0)]
  /\ held' = [Absorb(s) EXCEPT ![o] = 1]
  /\ UNCHANGED stack

(***************************************************************************)
(* Lists.  The capacity is compared with a number of elements, and grown   *)
(* to a number of bytes.  The allocations themselves succeed here.         *)
(***************************************************************************)
Grown(cap, len) == IF cap < len THEN kmem_nextcap(cap, Pointer * len) ELSE cap

\* Elements s fit at the end of list l.
Fits(l, s) ==
  LET len == Len(heap[l].els) + Len(s)
  IN  Pointer * len <= Grown(heap[l].cap, len)

Pushed(h, l, s) ==
  [h EXCEPT ![l].els = @ \o s, ![l].cap = Grown(@, Len(h[l].els) + Len(s))]

\* klist_new pushes its elements in klist_init and once more itself.
ListNew(o, s) ==
  /\ o \in Free /\ MayMake("list", 2 * Len(s)) /\ s \in Args
  /\ heap' = [Increfs(heap, s \o s)
                EXCEPT ![o] = New("list", s \o s, Grown(0, Len(s)))]
  /\ held' = Take(o)
  /\ UNCHANGED stack

ListNewZ(o, s) ==
  /\ o \in Free /\ MayMake("list", Len(s)) /\ s \in Given
  /\ heap' = [heap EXCEPT ![o] = New("list", s, Grown(0, Len(s)))]
  /\ held' = [Absorb(s) EXCEPT ![o] = 1]
  /\ UNCHANGED stack

List(l) == l \in Held /\ heap[l].type = "list"

\* klist_pushx and, with one element, klist_push.
ListPushX(l, s) ==
  /\ List(l) /\ s \in Args /\ Bounded(Len(s)) /\ Fits(l, s)
  /\ heap' = Pushed(Increfs(heap, s), l, s)
  /\ UNCHANGED <<held, stack>>

ListPushZ(l, s) ==
  /\ List(l) /\ s \in Given /\ Bounded(Len(s)) /\ Fits(l, s)
  /\ heap' = Pushed(heap, l, s)
  /\ held' = Absorb(s)
  /\ UNCHANGED stack

\* The elements are written past the end of the array; nothing is said of
\* the program from there on.
ListOverrun(l, s) ==
  /\ List(l) /\ s \in Args /\ Bounded(Len(s)) /\ ~Fits(l, s)
  /\ stack' = <<Frame("overrun", l)>>
  /\ UNCHANGED <<heap, held>>

Shortened(l) == [heap EXCEPT ![l].els = SubSeq(@, 1, Len(@) - 1)]
LastOf(l) == heap[l].els[Len(heap[l].els)]

\* klist_pop hands its reference to the client.
ListPop(l) ==
  /\ List(l) /\ heap[l].els # <<>> /\ held[LastOf(l)] < MaxHeld
  /\ heap' = Shortened(l)
  /\ held' = Take(LastOf(l))
  /\ UNCHANGED stack

\* Mutant: the reference goes, the element stays.
ListPopU_Stays(l) ==
  /\ List(l) /\ heap[l].els # <<>>
  /\ Decref(heap, <<>>, LastOf(l))
  /\ UNCHANGED held

ListPopU(l) ==
  /\ List(l) /\ heap[l].els # <<>>
  /\ Decref(Shortened(l), <<>>, LastOf(l))
  /\ UNCHANGED held

(***************************************************************************)
(* Dictionaries, as far as references go: a search finds the entry of the  *)
(* key object it is given, or none (see Kdict for the rest).  A call that  *)
(* fails in the search or for want of memory changes no reference, and is  *)
(* left out except where a caller undoes what it has done before it.       *)
(***************************************************************************)
Dict(d) == d \in Held /\ heap[d].type = "dict"
KeyAt(d, x) == x % 2 = 1 /\ x \in DOMAIN heap[d].els
Keys(d) == {heap[d].els[x] : x \in {y \in DOMAIN heap[d].els : KeyAt(d, y)}}

DictInsert(d, k, v) ==
  /\ Dict(d) /\ k \in Held \ Keys(d) /\ v \in Held /\ Bounded(2)
  /\ heap' = [Increfs(heap, <<k, v>>) EXCEPT ![d].els = @ \o <<k, v>>]
  /\ UNCHANGED <<held, stack>>

Replacing(d, x, v) ==
  <<[Frame("store", d) EXCEPT !.slot = x + 1, !.vals = <<v>>, !.owned = TRUE]>>

\* Mutant: the new value is stored without a reference.
DictReplace_Borrows(d, x, v) ==
  /\ Dict(d) /\ KeyAt(d, x) /\ heap[d].els[x] \in Held /\ v \in Held
  /\ Decref(heap, Replacing(d, x, v), heap[d].els[x + 1])
  /\ UNCHANGED held

\* The old value goes, with all that only it kept, before the slot has the
\* new one.
DictReplace(d, x, v) ==
  /\ Dict(d) /\ KeyAt(d, x) /\ heap[d].els[x] \in Held /\ v \in Held
  /\ Decref(Increfs(heap, <<v>>), Replacing(d, x, v), heap[d].els[x + 1])
  /\ UNCHANGED held

DictStore ==
  /\ In("store")
  /\ heap' = [heap EXCEPT ![Top.obj].els[Top.slot] = Top.vals[1]]
  /\ stack' = Below
  /\ UNCHANGED held

(***************************************************************************)
(* kdict_merge and kdict_mergez, of an existing dictionary or, from        *)
(* kdict_new and kdict_newz, of one just made.                             *)
(***************************************************************************)
Merging(d, s, owned, new) ==
  <<[Frame("merge", d) EXCEPT !.vals = s, !.owned = owned, !.new = new]>>

DictMerge(d, s) ==
  /\ Dict(d) /\ s \in Args /\ Bounded(2 * Len(s))
  /\ stack' = Merging(d, s, FALSE, FALSE)
  /\ UNCHANGED <<heap, held>>

DictMergeZ(d, s) ==
  /\ Dict(d) /\ s \in Given /\ Bounded(2 * Len(s))
  /\ stack' = Merging(d, s, TRUE, FALSE)
  /\ held' = Absorb(s)
  /\ UNCHANGED heap

DictNew(o, s) ==
  /\ o \in Free /\ MayMake("dict", 2 * Len(s)) /\ s \in Args
  /\ heap' = [heap EXCEPT ![o] = New("dict", <<>>, 0)]
  /\ stack' = Merging(o, s, FALSE, TRUE)
  /\ UNCHANGED held

DictNewZ(o, s) ==
  /\ o \in Free /\ MayMake("dict", 2 * Len(s)) /\ s \in Given
  /\ heap' = [heap EXCEPT ![o] = New("dict", <<>>, 0)]
  /\ stack' = Merging(o, s, TRUE, TRUE)
  /\ held' = Absorb(s)

\* One round: a string is made for the key, kdict_setx inserts it and takes
\* a reference to it and to the value, the string is released, and so is
\* the value if it was handed over.
MergeItem ==
  /\ In("merge") /\ Top.vals # <<>>
  /\ LET v == Head(Top.vals)
     IN  \E k \in Free :
           heap' = [heap EXCEPT
                      ![k] = New("leaf", <<>>, 0),
                      ![Top.obj].els = @ \o <<k, v>>,
                      ![v].refc = IF Top.owned THEN @ ELSE @ + 1]
  /\ stack' = Append(Below, [Top EXCEPT !.vals = Tail(@)])
  /\ UNCHANGED held

\* Mutant: the clean-up starts with the value after the failed one.
MergeFails_SkipsOne ==
  /\ In("merge") /\ Top.vals # <<>>
  /\ stack' = Append(Below, [Top EXCEPT !.op = "undo", !.vals = Tail(@)])
  /\ UNCHANGED <<heap, held>>

\* kstr_new or kdict_setx fails; the key is gone again.
MergeFails ==
  /\ In("merge") /\ Top.vals # <<>>
  /\ stack' = Append(Below, [Top EXCEPT !.op = "undo"])
  /\ UNCHANGED <<heap, held>>

\* Mutant: only the failed value is given back, as if the while were an if.
UndoValue_One ==
  /\ In("undo") /\ Top.owned /\ Top.vals # <<>>
  /\ Decref(heap, Append(Below, [Top EXCEPT !.vals = <<>>]), Head(Top.vals))
  /\ UNCHANGED held

\* kdict_mergez gives back the values it has not stored.
UndoValue ==
  /\ In("undo") /\ Top.owned /\ Top.vals # <<>>
  /\ Decref(heap, Append(Below, [Top EXCEPT !.vals = Tail(@)]), Head(Top.vals))
  /\ UNCHANGED held

\* The constructors drop the dictionary.
Undone ==
  /\ In("undo") /\ (Top.owned => Top.vals = <<>>)
  /\ IF Top.new THEN Decref(heap, Below, Top.obj)
                 ELSE stack' = Below /\ UNCHANGED heap
  /\ UNCHANGED held

MergeEnds ==
  /\ In("merge") /\ Top.vals = <<>>
  /\ stack' = Below
  /\ held' = IF Top.new THEN Take(Top.obj) ELSE held
  /\ UNCHANGED heap

(***************************************************************************)
(* The specification.                                                      *)
(***************************************************************************)
Init ==
  /\ heap = [o \in Obj |-> NoObject]
  /\ held = [o \in Obj |-> 0]
  /\ stack = <<>>

\* The steps of a call that is active.
Step ==
  \/ FreeElement \/ FreeMemory
  \/ DictStore
  \/ MergeItem \/ MergeFails \/ UndoValue \/ Undone \/ MergeEnds

\* A call of the client, when none is active.
Call == ~Calling /\
    \/ \E o \in Obj :
         \/ Make(o)
         \/ NewRef(o) \/ Drop(o)
         \/ ListPop(o) \/ ListPopU(o)
         \/ \E s \in Args :
              \/ TupleNew(o, s) \/ TupleNewZ(o, s)
              \/ ListNew(o, s) \/ ListNewZ(o, s)
              \/ ListPushX(o, s) \/ ListPushZ(o, s) \/ ListOverrun(o, s)
              \/ DictNew(o, s) \/ DictNewZ(o, s)
              \/ DictMerge(o, s) \/ DictMergeZ(o, s)
    \/ \E d, v \in Held :
         \/ \E k \in Held : DictInsert(d, k, v)
         \/ \E x \in 1..MaxElems : DictReplace(d, x, v)

Next == Step \/ Call

\* A thread that is in a call goes on with it.
Spec == Init /\ [][Next]_vars /\ WF_vars(Step)

(***************************************************************************)
(* Properties.                                                             *)
(***************************************************************************)

\* Frame f has given back the reference element x of c was: a deleter those
\* it has passed, a replacement the one in its slot.
GaveBack(f, c, x) ==
  /\ f.obj = c
  /\ \/ f.op = "free" /\ x < f.next
     \/ f.op = "store" /\ x = f.slot

Kept(c) ==
  {x \in DOMAIN heap[c].els : \A y \in DOMAIN stack : ~GaveBack(stack[y], c, x)}
Elements(c) == {heap[c].els[x] : x \in Kept(c)}

\* What can be reached from a set of objects: the least set that has them
\* and, with each object, its elements.
Closed(S) == \A c \in S : Elements(c) \subseteq S
Reach(roots) ==
  {o \in Obj : \A S \in SUBSET Obj : roots \subseteq S /\ Closed(S) => o \in S}

\* The references a call owns.
Owned(f) ==
  (IF f.owned THEN f.vals ELSE <<>>) \o (IF f.new THEN <<f.obj>> ELSE <<>>)

\* The objects whose deleter is running.
Dying == {stack[x].obj : x \in {y \in DOMAIN stack : stack[y].op = "free"}}

Ops == {"free", "overrun", "store", "merge", "undo"}

Kinds == {"none", "leaf", "tuple", "list", "dict"}
Object == [type : Kinds, refc : Nat, els : Seq(Obj), cap : Nat]
FrameType ==
  [op : Ops, obj : Obj, next : Nat, slot : Nat, vals : Seq(Obj),
   owned : BOOLEAN, new : BOOLEAN]

\* Types, and the bounds of the model.
TypeOK ==
  /\ heap \in [Obj -> Object] /\ Bounded(0)
  /\ held \in [Obj -> 0..MaxHeld]
  /\ stack \in Seq(FrameType)

\* The places in containers that hold a reference to o, and those among the
\* references of the active calls.
KeptAt(o) == {p \in Places : p[2] \in Kept(p[1]) /\ heap[p[1]].els[p[2]] = o}
ClaimedAt(o) ==
  UNION {{x} \X {y \in DOMAIN Owned(stack[x]) : Owned(stack[x])[y] = o} :
         x \in DOMAIN stack}

\* A reference count is the number of references there are: the client's,
\* one for each place in a container that has not released it, and those of
\* active calls.  This holds within calls too, in the middle of a cascade of
\* deletions.  (KOBJ_INCREF and KOBJ_DECREF in all of the containers.)
RefsExact ==
  \A o \in Obj :
    heap[o].refc = held[o] + Cardinality(KeptAt(o)) + Cardinality(ClaimedAt(o))

\* What the client can reach is neither freed nor about to be: kobj_free
\* never runs for an object somebody can still get at, however long the
\* cascade of deletions that leads to it.
ReachableLives == Reach(Held) \subseteq Live \ Dying

\* Between calls only cycles leak: an object that is left is reachable for
\* the client, or from a container that contains itself.  Calls that failed
\* half-way included.
OnlyCyclesLeak ==
  ~Calling =>
    LET cycles == {c \in Live : c \in Reach(Elements(c))}
    IN  Live = Reach(Held) \cup Reach(cycles)

\* Ownership implements Lifetime.  An object lives, as what it was made, for
\* as long as somebody can get at it, directly or through containers: the
\* client, or a call that owns a reference to what the client has handed
\* over.  Nothing out of reach comes back: no call, and no later step of a
\* call, brings an object to light that had been given up.  (The reference
\* every storing operation takes, and kobj_free at the last one that goes.)
Claimed == {o \in Obj : ClaimedAt(o) # {}}
Abs == INSTANCE Lifetime WITH
  Type <- Kinds \ {"none"}, None <- "none",
  type <- [o \in Obj |-> heap[o].type], reached <- Reach(Held \cup Claimed)
ImplementsLifetime == Abs!Spec

\* Every cascade of deletions comes to its end, also through cycles, and so
\* does every merge.
CascadeEnds == Calling ~> (~Calling \/ In("overrun"))
=============================================================================

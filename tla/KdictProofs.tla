----------------------------- MODULE KdictProofs -----------------------------
(***************************************************************************)
(* Type correctness of kdict, and the safety of its memory: for every set  *)
(* of keys and values, every hash function and every number of entries, no *)
(* array is written past its end unless an allocation fails.  Then that    *)
(* its references balance: whatever fails, it holds one for each place in  *)
(* its entries an object is stored in.  Then, of tables whose bucket array *)
(* keeps elements of one byte and whose keys have different hashes, that   *)
(* every entry stays reachable and that they are maps.                     *)
(***************************************************************************)
EXTENDS Kdict, Counting

Searching == pc \in {"probe", "found", "failed"}

\* Inside kdict_setx, with the new entry not yet added.
BeforeInsert ==
  \/ pc \in {"resize", "rehash"} /\ caller = "first"
  \/ Searching /\ find.user = "rehash" /\ caller = "first"
  \/ Searching /\ find.user = "set"

(***************************************************************************)
(* The inductive invariant.                                                *)
(***************************************************************************)

\* Who calls what, and with which arguments.
ControlOK ==
  /\ pc \in {"idle", "dead"} => caller = "none"
  /\ pc \in {"resize", "rehash"} =>
       caller # "none" /\ call.key \in Key /\ call.val \in Val
  /\ Searching => find.user # "none"
  /\ Searching /\ find.user # "get" => call.key \in Key /\ call.val \in Val
  /\ Searching /\ find.user = "get" => caller = "none"
  /\ Searching /\ find.user = "set" => caller # "grow"
  /\ Searching /\ find.user = "rehash" => caller # "none"
  /\ Searching /\ find.user = "again" => caller = "grow"
  /\ caller = "grow" => AtLimit(Len(ents))

\* Where a search stands.
SearchOK ==
  /\ pc = "probe" => find.bi < buks_len
  /\ pc = "found" => res.ei \in -1..(Len(ents) - 1)
  /\ pc = "found" /\ buks_len # 0 => res.bi \in Nat

\* There are more buckets than entries, by two before an insertion.
RoomOK ==
  /\ ents_real = Len(ents) /\ Len(ents) <= MaxEnts
  /\ BeforeInsert => Len(ents) < MaxEnts
  /\ Len(ents) < buks_len \/ (buks_len = 0 /\ Len(ents) = 0)
  /\ Searching /\ find.user = "set" => Len(ents) + 2 <= buks_len
  /\ pc = "rehash" \/ (Searching /\ find.user = "rehash") =>
       Target(Len(ents)) < buks_len
  /\ pc = "resize" /\ caller = "first" => NeedsResize

\* The arrays are as large as recorded, and the buckets' one neither too
\* small for its length nor more than about twice as large as it needs.
MemoryOK ==
  /\ NoOverrun
  /\ ~OOM => ents_blk = ents_cap /\ buks_blk = buks_cap
  /\ Width(buks_len) * buks_len <= buks_cap
  /\ buks_cap <= 2 * (Width(buks_len) * buks_len) + 4

IInv == TypeOK /\ ControlOK /\ SearchOK /\ RoomOK /\ MemoryOK

(***************************************************************************)
(* The operators.                                                          *)
(***************************************************************************)

\* A width is 1, 2 or 4 bytes, and never shrinks as the length grows.
LEMMA WidthType ==
  ASSUME NEW m \in Nat, NEW n \in Nat, m <= n
  PROVE  Width(m) \in {1, 2, 4} /\ Width(m) <= Width(n)
BY DEF Width

\* Clearing gives an array of the bytes that len buckets take.
LEMMA ClearedType ==
  ASSUME NEW len \in Nat
  PROVE  Cleared(len) \in [0..(Width(len) * len - 1) -> 0..255]
BY DEF Cleared

\* A byte is a byte.
LEMMA ByteType ==
  ASSUME NEW n \in Int, NEW d \in 0..3
  PROVE  Byte(n, d) \in 0..255
<1>1. CASE d = 0
  BY <1>1 DEF Byte
<1>2. CASE d = 1
  BY <1>2 DEF Byte
<1>3. CASE d = 2
  BY <1>3 DEF Byte
<1>4. CASE d = 3
  BY <1>4 DEF Byte
<1> QED
  BY <1>1, <1>2, <1>3, <1>4

\* Writing a bucket keeps the bytes of the array bytes.
LEMMA PutType ==
  ASSUME NEW n \in Int, buks \in [0..n -> 0..255],
         NEW w \in {1, 2, 4}, NEW b \in Int, NEW x \in Int
  PROVE  Put(w, b, x) \in [0..n -> 0..255]
<1>1. \A o \in 0..n : o % w \in 0..3
  OBVIOUS
<1>2. \A o \in 0..n : Byte(x, o % w) \in 0..255
  BY <1>1, ByteType
<1> QED
  BY <1>2, ZenonT(30) DEF Put

\* Bytes are natural numbers.
LEMMA BytesAreNat ==
  ASSUME NEW S, NEW f \in [S -> 0..255]
  PROVE  \A o \in S : f[o] \in Nat
OBVIOUS

\* A bucket inside the array reads as a natural number.
LEMMA BucketType ==
  ASSUME TypeOK, NEW b \in Nat, b < buks_len
  PROVE  Bucket(b) \in Nat
<1> DEFINE w == Width(buks_len)
<1>1. buks_len \in Nat /\ w \in {1, 2, 4}
  BY WidthType DEF TypeOK, BuksType
<1>2. \A o \in 0..(w * buks_len - 1) : buks[o] \in Nat
  <2>1. buks \in [0..(w * buks_len - 1) -> 0..255]
    BY DEF TypeOK, BuksType
  <2> QED
    BY <2>1, BytesAreNat
<1>3. CASE w = 1
  <2>1. b \in 0..(1 * buks_len - 1)
    BY <1>1
  <2> QED
    BY <1>2, <1>3, <2>1 DEF Bucket
<1>4. CASE w = 2
  <2>1. 2 * b \in 0..(2 * buks_len - 1) /\ 2 * b + 1 \in 0..(2 * buks_len - 1)
    BY <1>1
  <2>2. buks[2 * b] \in Nat /\ buks[2 * b + 1] \in Nat
    BY <1>2, <1>4, <2>1
  <2> QED
    BY <1>4, <2>2 DEF Bucket
<1>5. CASE w = 4
  <2>1. \A d \in 0..3 : 4 * b + d \in 0..(4 * buks_len - 1)
    BY <1>1
  <2>2. /\ buks[4 * b] \in Nat /\ buks[4 * b + 1] \in Nat
        /\ buks[4 * b + 2] \in Nat /\ buks[4 * b + 3] \in Nat
    <3>1. 4 * b \in 0..(4 * buks_len - 1)
      BY <1>1
    <3> QED
      BY <1>2, <1>5, <2>1, <3>1
  <2> QED
    BY <1>5, <2>2 DEF Bucket
<1> QED
  BY <1>1, <1>3, <1>4, <1>5

\* The length of a resized array: a bit more than ten thirds of the entries.
LEMMA NewLength ==
  ASSUME NEW n \in Nat, n <= MaxEnts
  PROVE  /\ NextPrime(Target(n)) \in Nat
         /\ Target(n) \in Nat /\ n + 1 <= Target(n)
         /\ 3 * Target(n) <= 10 * n + 3 /\ 10 * n < 3 * Target(n)
         /\ Target(n) < NextPrime(Target(n))
         /\ NextPrime(Target(n)) <= 2 * Target(n) + 1
<1>1. Target(n) \in 1..Target(MaxEnts)
  BY BoundAssumption DEF Target
<1>2. /\ Target(n) \in Nat /\ n + 1 <= Target(n)
      /\ 3 * Target(n) <= 10 * n + 3 /\ 10 * n < 3 * Target(n)
  BY DEF Target
<1> QED
  BY <1>1, <1>2, NextPrimeAssumption

(***************************************************************************)
(* The size of the bucket array.                                           *)
(***************************************************************************)

\* The array of N buckets that replaces one of L fits the new capacity,
\* though that was computed at the width of L.  When the capacity grows it
\* doubles the bytes asked for, and the width at most doubles; when it does
\* not, the old capacity was at most twice what L needed, too little for a
\* N of another width.
LEMMA CapacityFits ==
  ASSUME NEW E \in Nat, NEW L \in Nat, NEW N \in Nat, NEW T \in Nat,
         NEW cap \in Nat,
         3 * T <= 10 * E + 3, 10 * E < 3 * T, L <= T, T < N, N <= 2 * T + 1,
         E < L \/ (L = 0 /\ E = 0),
         10 * E > 7 * L \/ L < E + 3 \/ AtLimit(E),
         Width(L) * L <= cap, cap <= 2 * (Width(L) * L) + 4
  PROVE  /\ Width(N) * N <= kmem_nextcap(cap, Width(L) * N)
         /\ kmem_nextcap(cap, Width(L) * N) <= 2 * (Width(N) * N) + 4
<1>1. CASE L <= 253
  <2>1. Width(L) = 1 /\ L <= cap /\ cap <= 2 * L + 4
    BY <1>1 DEF Width
  <2>2. N <= 65533
    BY <1>1
  <2>3. CASE N <= 253
    BY <2>1, <2>3 DEF Width, kmem_nextcap
  <2>4. CASE N > 253
    <3>1. Width(N) = 2
      BY <2>2, <2>4 DEF Width
    <3>2. cap < N
      BY <1>1, <2>1, <2>4 DEF AtLimit
    <3> QED
      BY <2>1, <3>1, <3>2 DEF kmem_nextcap
  <2> QED
    BY <2>3, <2>4
<1>2. CASE 253 < L /\ L <= 65533
  <2>1. Width(L) = 2 /\ 2 * L <= cap /\ cap <= 4 * L + 4
    BY <1>2 DEF Width
  <2>2. CASE N <= 65533
    <3>1. Width(N) = 2
      BY <1>2, <2>2 DEF Width
    <3> QED
      BY <1>2, <2>1, <3>1 DEF kmem_nextcap
  <2>3. CASE N > 65533
    <3>1. Width(N) = 4
      BY <2>3 DEF Width
    <3>2. cap < 2 * N
      BY <1>2, <2>1, <2>3 DEF AtLimit
    <3> QED
      BY <2>1, <3>1, <3>2 DEF kmem_nextcap
  <2> QED
    BY <2>2, <2>3
<1>3. CASE 65533 < L
  <2>1. Width(L) = 4 /\ Width(N) = 4 /\ 4 * L <= cap /\ cap <= 8 * L + 4
    BY <1>3 DEF Width
  <2> QED
    BY <1>3, <2>1 DEF kmem_nextcap
<1> QED
  BY <1>1, <1>2, <1>3

(***************************************************************************)
(* Types of what the steps are made of.                                    *)
(***************************************************************************)

\* The hashes calls pass are natural numbers.
LEMMA HashType ==
  ASSUME NEW k \in Key
  PROVE  HashVal \subseteq Nat /\ {Hash[k]} \cup Garbage \subseteq HashVal
BY HashAssumption DEF HashVal

\* The types of the parts of an entry.
LEMMA EntryType ==
  ASSUME TypeOK, NEW e \in DOMAIN ents
  PROVE  ents[e].key \in Key /\ ents[e].hash \in Nat /\ ents[e].val \in Val
<1>1. ents \in Seq([key : Key, hash : Nat, val : Val])
  BY DEF TypeOK, EntsType
<1>2. ents[e] \in [key : Key, hash : Nat, val : Val]
  BY <1>1, ElementOfSeq, LenProperties
<1> QED
  BY <1>2

\* The number of entries is a natural number, and so is one less of some.
LEMMA LenType ==
  ASSUME TypeOK
  PROVE  Len(ents) \in Nat /\ DOMAIN ents = 1..Len(ents)
BY LenProperties DEF TypeOK, EntsType

\* The limits of the widths.
LEMMA LimitType ==
  ASSUME NEW n, AtLimit(n)
  PROVE  n \in Nat /\ n > 0
BY DEF AtLimit

\* Without its last element a sequence is one of the same elements.
LEMMA FrontType ==
  ASSUME NEW S, NEW s \in Seq(S), Len(s) > 0
  PROVE  /\ SubSeq(s, 1, Len(s) - 1) \in Seq(S)
         /\ Len(SubSeq(s, 1, Len(s) - 1)) = Len(s) - 1
<1>1. Len(s) \in Nat /\ \A e \in 1..(Len(s) - 1) : s[e] \in S
  BY ElementOfSeq, LenProperties
<1> DEFINE m == Len(s) - 1
<1>2. m \in Int /\ \A e \in 1..m : s[e] \in S
  BY <1>1
<1>3. /\ SubSeq(s, 1, m) \in Seq(S)
      /\ Len(SubSeq(s, 1, m)) = IF 1 <= m THEN m - 1 + 1 ELSE 0
  <2> HIDE DEF m
  <2> QED
    BY <1>2, SubSeqProperties
<1>4. \A n \in Nat : n > 0 => (IF 1 <= n - 1 THEN n - 1 - 1 + 1 ELSE 0) = n - 1
  OBVIOUS
<1> QED
  BY <1>1, <1>3, <1>4, Zenon

\* Taking back the element appended last gives the sequence from before.
LEMMA AppendFront ==
  ASSUME NEW S, NEW s \in Seq(S), NEW x \in S
  PROVE  SubSeq(Append(s, x), 1, Len(Append(s, x)) - 1) = s
OBVIOUS

\* A write to a bucket keeps the type of the array.
LEMMA PutKeepsType ==
  ASSUME TypeOK, NEW w \in {1, 2, 4}, NEW b \in Int, NEW x \in Int
  PROVE  Put(w, b, x) \in [0..(Width(buks_len) * buks_len - 1) -> 0..255]
<1>1. Width(buks_len) * buks_len - 1 \in Int
  BY WidthType DEF TypeOK, BuksType
<1> QED
  BY <1>1, PutType, ZenonT(30) DEF TypeOK, BuksType

\* An insertion adds one entry, and taking it back removes one.
LEMMA AddedLen ==
  ASSUME IInv, Inserting, EntryAdded
  PROVE  Len(ents') = Len(ents) + 1
<1>1. [key |-> call.key, hash |-> call.hash, val |-> call.val] \in
        [key : Key, hash : Nat, val : Val]
  BY DEF Inserting, Searching, IInv, TypeOK, CallType, ControlOK
<1>2. ents \in Seq([key : Key, hash : Nat, val : Val])
  BY DEF IInv, TypeOK, EntsType
<1> QED
  BY <1>1, <1>2, AppendProperties DEF EntryAdded

\* Taking an entry back removes one, and keeps the others well formed.
LEMMA RemovedLen ==
  ASSUME IInv, EntryRemoved, AtLimit(Len(ents))
  PROVE  Len(ents') = Len(ents) - 1 /\ Len(ents) > 0
<1>1. Len(ents) > 0
  BY LimitType
<1>2. ents \in Seq([key : Key, hash : Nat, val : Val])
  BY DEF IInv, TypeOK, EntsType
<1> QED
  BY <1>1, <1>2, FrontType DEF EntryRemoved

\* A call returns with a result of the right type.
LEMMA ReturnType ==
  ASSUME TypeOK, NEW ret \in {0, -1, -20}, NEW out \in Val \cup {None},
         Return(ret, out)
  PROVE  CallType'
<1>1. call' \in [fn : {"new", "get", "set", "del"}, key : Key \cup {None},
               hash : Nat, val : Val \cup {None}, ret : {Running, 0, -1, -20},
               out : Val \cup {None}]
  BY DEF Return, Returned, TypeOK, CallType
<1> QED
  BY <1>1 DEF Return, CallType

\* A search starts at a bucket of the array.
LEMMA SearchStarts ==
  ASSUME TypeOK, NEW user \in {"get", "set", "rehash", "again"},
         NEW k \in Key \cup {None}, NEW h \in Nat, Search(user, k, h)
  PROVE  /\ SearchType'
         /\ \/ pc' = "probe" /\ find'.bi < buks_len
            \/ pc' = "found" /\ buks_len = 0 /\ res' = NoRes
<1>1. buks_len # 0 => h % buks_len \in 0..(buks_len - 1)
  BY DEF TypeOK, BuksType
<1> QED
  BY <1>1 DEF TypeOK, BuksType, SearchType, Search, NoRes

\* Replacing an element leaves a sequence of the same set and length.
LEMMA ReplaceType ==
  ASSUME NEW S, NEW s \in Seq(S), NEW e \in 1..Len(s), NEW r \in S
  PROVE  [s EXCEPT ![e] = r] \in Seq(S)
OBVIOUS

\* A step keeps the bucket array an array of bytes of the recorded length.
LEMMA BuksStep ==
  ASSUME IInv, [Next]_vars
  PROVE  BuksType'
<1>1. ASSUME NEW k \in Key, NEW h \in HashVal, Get(k, h)
     PROVE  BuksType'
  BY <1>1 DEF Get, Search, IInv, TypeOK, BuksType, mem
<1>2. ASSUME NEW k \in Key, NEW h \in HashVal, NEW x \in Val, Set(k, h, x)
     PROVE  BuksType'
  BY <1>2 DEF Set, Search, IInv, TypeOK, BuksType, mem
<1>3. ASSUME NEW k \in Key, NEW fn \in {"get", "set"}, HashFails(fn, k)
     PROVE  BuksType'
  BY <1>3 DEF HashFails, IInv, TypeOK, BuksType, mem
<1>4. CASE Del
  <2>1. Cleared(0) \in [0..(Width(0) * 0 - 1) -> 0..255]
    BY ClearedType
  <2> QED
    BY <1>4, <2>1 DEF Del, BuksType
<1>5. CASE ResizeEnough
  BY <1>5 DEF ResizeEnough, Resized, Search, IInv, TypeOK, BuksType, mem
<1>6. CASE Resize
  <2> DEFINE len == NextPrime(Target(Len(ents)))
             cap == kmem_nextcap(buks_cap, Width(buks_len) * len)
  <2>1. len \in Nat
    BY NewLength DEF IInv, TypeOK, EntsType, RoomOK
  <2>2. Cleared(len) \in [0..(Width(len) * len - 1) -> 0..255]
    BY <2>1, ClearedType
  <2>3. cap \in Nat
    BY <2>1, WidthType DEF IInv, TypeOK, BuksType, kmem_nextcap
  <2>4. buks_blk' \in Nat
    BY <1>6, <2>3 DEF Resize, Allocated, IInv, TypeOK, BuksType
  <2> QED
    BY <1>6, <2>1, <2>2, <2>3, <2>4 DEF Resize, BuksType
<1>7. CASE RehashNext
  BY <1>7 DEF RehashNext, Search, IInv, TypeOK, BuksType, mem
<1>8. CASE RehashPlace
  <2>1. Width(buks_len) \in {1, 2, 4} /\ res.bi \in Int /\ i \in Int
    BY LenType, WidthType DEF IInv, TypeOK, BuksType, CallType, SearchType
  <2>2. Put(Width(buks_len), res.bi, i) \in
          [0..(Width(buks_len) * buks_len - 1) -> 0..255]
    BY <2>1, PutKeepsType DEF IInv
  <2> QED
    BY <1>8, <2>2 DEF RehashPlace, IInv, TypeOK, BuksType
<1>9. CASE RehashTwice
  BY <1>9 DEF RehashTwice, Stop, IInv, TypeOK, BuksType, mem
<1>10. CASE RehashEnd
  BY <1>10 DEF RehashEnd, Resized, Search, IInv, TypeOK, BuksType, mem
<1>11. CASE ProbeEmpty
  BY <1>11 DEF ProbeEmpty, Found, IInv, TypeOK, BuksType, mem
<1>12. CASE ProbeMatch
  BY <1>12 DEF ProbeMatch, Found, IInv, TypeOK, BuksType, mem
<1>13. CASE ProbeEqFails
  BY <1>13 DEF ProbeEqFails, NotFound, IInv, TypeOK, BuksType, mem
<1>14. CASE ProbeNext
  BY <1>14 DEF ProbeNext, IInv, TypeOK, BuksType, mem
<1>15. CASE ProbeExhausted
  BY <1>15 DEF ProbeExhausted, NotFound, IInv, TypeOK, BuksType, mem
<1>16. CASE ProbeWild
  BY <1>16 DEF ProbeWild, Stop, IInv, TypeOK, BuksType, mem
<1>17. CASE GetReturns
  BY <1>17 DEF GetReturns, Return, IInv, TypeOK, BuksType, mem
<1>18. CASE Replace
  BY <1>18 DEF Replace, Return, IInv, TypeOK, BuksType, mem
<1>19. CASE SetFindFails
  BY <1>19 DEF SetFindFails, Return, IInv, TypeOK, BuksType, mem
<1>20. CASE InsertNoMemory
  BY <1>20 DEF InsertNoMemory, Return, IInv, TypeOK, BuksType, mem
<1>21. CASE InsertOverrun
  BY <1>21 DEF InsertOverrun, Stop, IInv, TypeOK, BuksType, mem
<1>22. CASE Insert
  <2>1. Width(NewLen) \in {1, 2, 4} /\ res.bi \in Int /\ NewLen - 1 \in Int
    BY LenType, WidthType DEF IInv, TypeOK, BuksType, CallType, SearchType,
       NewLen
  <2>2. Put(Width(NewLen), res.bi, NewLen - 1) \in
          [0..(Width(buks_len) * buks_len - 1) -> 0..255]
    BY <2>1, PutKeepsType DEF IInv
  <2> QED
    BY <1>22, <2>2 DEF Insert, IInv, TypeOK, BuksType
<1>23. CASE InsertGrows
  BY <1>23 DEF InsertGrows, IInv, TypeOK, BuksType, mem
<1>24. CASE AgainPlace
  <2>1. Width(Len(ents)) \in {1, 2, 4} /\ res.bi \in Int /\ res.ei \in Int
    BY LenType, WidthType DEF IInv, TypeOK, BuksType, CallType, SearchType
  <2>2. Put(Width(Len(ents)), res.bi, res.ei) \in
          [0..(Width(buks_len) * buks_len - 1) -> 0..255]
    BY <2>1, PutKeepsType DEF IInv
  <2> QED
    BY <1>24, <2>2 DEF AgainPlace, IInv, TypeOK, BuksType
<1>25. CASE AgainElsewhere
  BY <1>25 DEF AgainElsewhere, Stop, IInv, TypeOK, BuksType, mem
<1>26. CASE AgainFails
  BY <1>26 DEF AgainFails, Return, IInv, TypeOK, BuksType, mem
<1>27. CASE FirstResizeFails
  BY <1>27 DEF FirstResizeFails, Return, IInv, TypeOK, BuksType, mem
<1>28. CASE GrowResizeFails
  BY <1>28 DEF GrowResizeFails, Return, IInv, TypeOK, BuksType, mem
<1>29. CASE UNCHANGED vars
  BY <1>29 DEF vars, IInv, TypeOK, BuksType, mem
<1> QED
  BY <1>1, <1>2, <1>3, <1>4, <1>5, <1>6, <1>7, <1>8, <1>9, <1>10, <1>11, <1>12,
     <1>13, <1>14, <1>15, <1>16, <1>17, <1>18, <1>19, <1>20, <1>21, <1>22,
     <1>23, <1>24, <1>25, <1>26, <1>27, <1>28, <1>29, HashType DEF Next, Call,
     Step

\* A step keeps the entries well formed and their counts natural numbers.
LEMMA EntsStep ==
  ASSUME IInv, [Next]_vars
  PROVE  EntsType'
<1>1. ASSUME NEW k \in Key, NEW h \in HashVal, Get(k, h)
     PROVE  EntsType'
  BY <1>1 DEF Get, Search, IInv, TypeOK, EntsType, mem, data
<1>2. ASSUME NEW k \in Key, NEW h \in HashVal, NEW x \in Val, Set(k, h, x)
     PROVE  EntsType'
  BY <1>2 DEF Set, Search, IInv, TypeOK, EntsType, mem, data
<1>3. ASSUME NEW k \in Key, NEW fn \in {"get", "set"}, HashFails(fn, k)
     PROVE  EntsType'
  BY <1>3 DEF HashFails, IInv, TypeOK, EntsType, mem, data
<1>4. CASE Del
  <2> DEFINE card(o) ==
               Cardinality({e \in DOMAIN ents : o \in {ents[e].key, ents[e].val}})
  <2>1. \A o \in Key \cup Val : card(o) \in Nat
    <3>2. IsFiniteSet(DOMAIN ents)
      BY LenType, FS_Interval DEF IInv
    <3> QED
      BY <3>2, FS_Subset, FS_CardinalityType
  <2>2. \A o \in Key \cup Val : refs[o] - card(o) \in Int
    <3>1. \A o \in Key \cup Val : refs[o] \in Int
      BY DEF IInv, TypeOK, EntsType
    <3> HIDE DEF card
    <3> QED
      BY <2>1, <3>1
  <2>3. refs' = [o \in Key \cup Val |-> refs[o] - card(o)]
    BY <1>4 DEF Del
  <2>4. refs' \in [Key \cup Val -> Int]
    <3> HIDE DEF card
    <3> QED
      BY <2>2, <2>3
  <2> QED
    BY <1>4, <2>4 DEF Del, EntsType
<1>5. CASE ResizeEnough
  BY <1>5 DEF ResizeEnough, Resized, Search, IInv, TypeOK, EntsType, mem, data
<1>6. CASE Resize
  BY <1>6 DEF Resize, IInv, TypeOK, EntsType, mem, data
<1>7. CASE RehashNext
  BY <1>7 DEF RehashNext, Search, IInv, TypeOK, EntsType, mem, data
<1>8. CASE RehashPlace
  BY <1>8 DEF RehashPlace, IInv, TypeOK, EntsType, mem, data
<1>9. CASE RehashTwice
  BY <1>9 DEF RehashTwice, Stop, IInv, TypeOK, EntsType, mem, data
<1>10. CASE RehashEnd
  BY <1>10 DEF RehashEnd, Resized, Search, IInv, TypeOK, EntsType, mem, data
<1>11. CASE ProbeEmpty
  BY <1>11 DEF ProbeEmpty, Found, IInv, TypeOK, EntsType, mem, data
<1>12. CASE ProbeMatch
  BY <1>12 DEF ProbeMatch, Found, IInv, TypeOK, EntsType, mem, data
<1>13. CASE ProbeEqFails
  BY <1>13 DEF ProbeEqFails, NotFound, IInv, TypeOK, EntsType, mem, data
<1>14. CASE ProbeNext
  BY <1>14 DEF ProbeNext, IInv, TypeOK, EntsType, mem, data
<1>15. CASE ProbeExhausted
  BY <1>15 DEF ProbeExhausted, NotFound, IInv, TypeOK, EntsType, mem, data
<1>16. CASE ProbeWild
  BY <1>16 DEF ProbeWild, Stop, IInv, TypeOK, EntsType, mem, data
<1>17. CASE GetReturns
  BY <1>17 DEF GetReturns, Return, IInv, TypeOK, EntsType, mem, data
<1>18. CASE Replace
  <2>1. res.ei + 1 \in 1..Len(ents)
    BY <1>18, LenType DEF IInv, TypeOK, SearchType, SearchOK, Replace
  <2>2. call.val \in Val
    BY <1>18 DEF IInv, ControlOK, Searching, Replace
  <2> DEFINE r == [ents[res.ei + 1] EXCEPT !.val = call.val]
  <2>3. r \in [key : Key, hash : Nat, val : Val]
    <3>1. ents[res.ei + 1] \in [key : Key, hash : Nat, val : Val]
      BY <2>1, ElementOfSeq DEF IInv, TypeOK, EntsType
    <3> QED
      BY <2>2, <3>1
  <2>4. [ents EXCEPT ![res.ei + 1] = r] \in
          Seq([key : Key, hash : Nat, val : Val])
    BY <2>1, <2>3, ReplaceType DEF IInv, TypeOK, EntsType
  <2>5. ents' = [ents EXCEPT ![res.ei + 1] = r]
    BY <1>18 DEF Replace
  <2> DEFINE R == [refs EXCEPT ![call.val] = @ + 1]
  <2>6. R \in [Key \cup Val -> Int]
    BY <2>2 DEF IInv, TypeOK, EntsType
  <2>7. refs' = [R EXCEPT ![ents[res.ei + 1].val] = @ - 1]
    BY <1>18 DEF Replace
  <2>8. ents[res.ei + 1].val \in Val
    BY <2>1, LenType, EntryType DEF IInv
  <2>9. refs' \in [Key \cup Val -> Int]
    <3> HIDE DEF R
    <3> QED
      BY <2>6, <2>7, <2>8
  <2> QED
    BY <1>18, <2>4, <2>5, <2>9 DEF Replace, IInv, TypeOK, EntsType, mem
<1>19. CASE SetFindFails
  BY <1>19 DEF SetFindFails, Return, IInv, TypeOK, EntsType, mem, data
<1>20. CASE InsertNoMemory
  BY <1>20, LenType DEF InsertNoMemory, NewLen, kmem_nextcap, Return, data,
     IInv, TypeOK, EntsType
<1>21. CASE InsertOverrun
  BY <1>21 DEF InsertOverrun, Stop, IInv, TypeOK, EntsType, mem, data
<1>22. CASE Insert
  <2>1. [key |-> call.key, hash |-> call.hash, val |-> call.val] \in
          [key : Key, hash : Nat, val : Val]
    BY <1>22 DEF Insert, Inserting, Searching, IInv, TypeOK, CallType,
       ControlOK
  <2>2. ents' \in Seq([key : Key, hash : Nat, val : Val])
    BY <1>22, <2>1 DEF Insert, EntryAdded, IInv, TypeOK, EntsType
  <2>3. refs' \in [Key \cup Val -> Int]
    BY <1>22, <2>1 DEF Insert, EntryAdded, IInv, TypeOK, EntsType
  <2>4. ents_real' \in Nat /\ ents_cap' \in Nat /\ ents_blk' \in Nat
    BY <1>22 DEF Insert, EntryAdded, EntsGrown, NewLen, kmem_nextcap, IInv,
       TypeOK, EntsType
  <2> QED
    BY <2>2, <2>3, <2>4 DEF EntsType
<1>23. CASE InsertGrows
  <2>1. [key |-> call.key, hash |-> call.hash, val |-> call.val] \in
          [key : Key, hash : Nat, val : Val]
    BY <1>23 DEF InsertGrows, Inserting, Searching, IInv, TypeOK, CallType,
       ControlOK
  <2>2. ents' \in Seq([key : Key, hash : Nat, val : Val])
    BY <1>23, <2>1 DEF InsertGrows, EntryAdded, IInv, TypeOK, EntsType
  <2>3. refs' \in [Key \cup Val -> Int]
    BY <1>23, <2>1 DEF InsertGrows, EntryAdded, IInv, TypeOK, EntsType
  <2>4. ents_real' \in Nat /\ ents_cap' \in Nat /\ ents_blk' \in Nat
    BY <1>23 DEF InsertGrows, EntryAdded, EntsGrown, NewLen, kmem_nextcap,
       IInv, TypeOK, EntsType
  <2> QED
    BY <2>2, <2>3, <2>4 DEF EntsType
<1>24. CASE AgainPlace
  BY <1>24 DEF AgainPlace, Return, IInv, TypeOK, EntsType, mem, data
<1>25. CASE AgainElsewhere
  BY <1>25 DEF AgainElsewhere, Stop, IInv, TypeOK, EntsType, mem, data
<1>26. CASE AgainFails
  <2>1. call.key \in Key /\ call.val \in Val
    BY <1>26 DEF AgainFails, Searching, IInv, ControlOK
  <2>2. AtLimit(Len(ents))
    BY <1>26 DEF AgainFails, Searching, IInv, ControlOK
  <2>3. Len(ents) \in Nat /\ Len(ents) > 0
    BY <2>2, LimitType
  <2>4. ents' \in Seq([key : Key, hash : Nat, val : Val])
    BY <1>26, <2>3, FrontType DEF AgainFails, EntryRemoved, IInv, TypeOK,
       EntsType
  <2>5. refs' \in [Key \cup Val -> Int]
    BY <1>26, <2>1 DEF AgainFails, EntryRemoved, IInv, TypeOK, EntsType
  <2>6. ents_real' \in Nat
    BY <1>26, <2>3 DEF AgainFails, EntryRemoved, IInv, TypeOK, EntsType, RoomOK
  <2> QED
    BY <1>26, <2>4, <2>5, <2>6 DEF AgainFails, mem, IInv, TypeOK, EntsType
<1>27. CASE FirstResizeFails
  BY <1>27 DEF FirstResizeFails, Return, IInv, TypeOK, EntsType, mem, data
<1>28. CASE GrowResizeFails
  <2>1. call.key \in Key /\ call.val \in Val
    BY <1>28 DEF GrowResizeFails, Searching, IInv, ControlOK
  <2>2. AtLimit(Len(ents))
    BY <1>28 DEF GrowResizeFails, Searching, IInv, ControlOK
  <2>3. Len(ents) \in Nat /\ Len(ents) > 0
    BY <2>2, LimitType
  <2>4. ents' \in Seq([key : Key, hash : Nat, val : Val])
    BY <1>28, <2>3, FrontType DEF GrowResizeFails, EntryRemoved, IInv, TypeOK,
       EntsType
  <2>5. refs' \in [Key \cup Val -> Int]
    BY <1>28, <2>1 DEF GrowResizeFails, EntryRemoved, IInv, TypeOK, EntsType
  <2>6. ents_real' \in Nat
    BY <1>28, <2>3 DEF GrowResizeFails, EntryRemoved, IInv, TypeOK, EntsType,
       RoomOK
  <2> QED
    BY <1>28, <2>4, <2>5, <2>6 DEF GrowResizeFails, mem, IInv, TypeOK, EntsType
<1>29. CASE UNCHANGED vars
  BY <1>29 DEF vars, IInv, TypeOK, EntsType, mem, data
<1> QED
  BY <1>1, <1>2, <1>3, <1>4, <1>5, <1>6, <1>7, <1>8, <1>9, <1>10, <1>11, <1>12,
     <1>13, <1>14, <1>15, <1>16, <1>17, <1>18, <1>19, <1>20, <1>21, <1>22,
     <1>23, <1>24, <1>25, <1>26, <1>27, <1>28, <1>29, HashType DEF Next, Call,
     Step

\* A step keeps the running call, and with it the program counter, typed.
LEMMA CallStep ==
  ASSUME IInv, [Next]_vars
  PROVE  CallType'
<1>1. ASSUME NEW k \in Key, NEW h \in HashVal, Get(k, h)
     PROVE  CallType'
  BY <1>1, HashType DEF Get, Search, New, IInv, TypeOK, CallType, local
<1>2. ASSUME NEW k \in Key, NEW h \in HashVal, NEW x \in Val, Set(k, h, x)
     PROVE  CallType'
  BY <1>2, HashType DEF Set, Search, New, IInv, TypeOK, CallType, local
<1>3. ASSUME NEW k \in Key, NEW fn \in {"get", "set"}, HashFails(fn, k)
     PROVE  CallType'
  BY <1>3 DEF HashFails, Returned, New, IInv, TypeOK, CallType, local
<1>4. CASE Del
  BY <1>4 DEF Del, Returned, New, IInv, TypeOK, CallType, local
<1>5. CASE ResizeEnough
  BY <1>5 DEF ResizeEnough, Resized, Search, IInv, TypeOK, CallType, local
<1>6. CASE Resize
  BY <1>6 DEF Resize, IInv, TypeOK, CallType, local
<1>7. CASE RehashNext
  BY <1>7 DEF RehashNext, Search, IInv, TypeOK, CallType, local
<1>8. CASE RehashPlace
  BY <1>8 DEF RehashPlace, IInv, TypeOK, CallType, local
<1>9. CASE RehashTwice
  BY <1>9 DEF RehashTwice, Stop, IInv, TypeOK, CallType, local
<1>10. CASE RehashEnd
  BY <1>10 DEF RehashEnd, Resized, Search, IInv, TypeOK, CallType, local
<1>11. CASE ProbeEmpty
  BY <1>11 DEF ProbeEmpty, Found, IInv, TypeOK, CallType, local
<1>12. CASE ProbeMatch
  BY <1>12 DEF ProbeMatch, Found, IInv, TypeOK, CallType, local
<1>13. CASE ProbeEqFails
  BY <1>13 DEF ProbeEqFails, NotFound, IInv, TypeOK, CallType, local
<1>14. CASE ProbeNext
  BY <1>14 DEF ProbeNext, IInv, TypeOK, CallType, local
<1>15. CASE ProbeExhausted
  BY <1>15 DEF ProbeExhausted, NotFound, IInv, TypeOK, CallType, local
<1>16. CASE ProbeWild
  BY <1>16 DEF ProbeWild, Stop, IInv, TypeOK, CallType, local
<1>17. CASE GetReturns
  <2>1. CASE pc = "found" /\ res.ei >= 0
    <3>1. res.ei + 1 \in DOMAIN ents
      BY <2>1, LenType DEF IInv, TypeOK, SearchType, SearchOK
    <3> QED
      BY <1>17, <2>1, <3>1, EntryType, ReturnType DEF GetReturns, IInv
  <2>2. CASE ~(pc = "found" /\ res.ei >= 0)
    BY <1>17, <2>2, ReturnType DEF GetReturns, IInv
  <2> QED
    BY <2>1, <2>2
<1>18. CASE Replace
  BY <1>18, ReturnType DEF IInv, Replace
<1>19. CASE SetFindFails
  BY <1>19, ReturnType DEF IInv, SetFindFails
<1>20. CASE InsertNoMemory
  BY <1>20, ReturnType DEF IInv, InsertNoMemory
<1>21. CASE InsertOverrun
  BY <1>21 DEF InsertOverrun, Stop, IInv, TypeOK, CallType, local
<1>22. CASE Insert
  BY <1>22, ReturnType DEF IInv, Insert
<1>23. CASE InsertGrows
  BY <1>23 DEF InsertGrows, IInv, TypeOK, CallType, local
<1>24. CASE AgainPlace
  BY <1>24, ReturnType DEF IInv, AgainPlace
<1>25. CASE AgainElsewhere
  BY <1>25 DEF AgainElsewhere, Stop, IInv, TypeOK, CallType, local
<1>26. CASE AgainFails
  BY <1>26, ReturnType DEF IInv, AgainFails
<1>27. CASE FirstResizeFails
  BY <1>27, ReturnType DEF IInv, FirstResizeFails
<1>28. CASE GrowResizeFails
  BY <1>28, ReturnType DEF IInv, GrowResizeFails
<1>29. CASE UNCHANGED vars
  BY <1>29 DEF vars, IInv, TypeOK, CallType, local
<1> QED
  BY <1>1, <1>2, <1>3, <1>4, <1>5, <1>6, <1>7, <1>8, <1>9, <1>10, <1>11, <1>12,
     <1>13, <1>14, <1>15, <1>16, <1>17, <1>18, <1>19, <1>20, <1>21, <1>22,
     <1>23, <1>24, <1>25, <1>26, <1>27, <1>28, <1>29, HashType DEF Next, Call,
     Step

\* A step keeps the locals of my_search typed.
LEMMA SearchTypeStep ==
  ASSUME IInv, [Next]_vars
  PROVE  SearchType'
<1>1. ASSUME NEW k \in Key, NEW h \in HashVal, Get(k, h)
     PROVE  SearchType'
  BY <1>1, HashType, SearchStarts DEF IInv, Get
<1>2. ASSUME NEW k \in Key, NEW h \in HashVal, NEW x \in Val, Set(k, h, x)
     PROVE  SearchType'
  BY <1>2, HashType, SearchStarts DEF IInv, TypeOK, SearchType, Set, search
<1>3. ASSUME NEW k \in Key, NEW fn \in {"get", "set"}, HashFails(fn, k)
     PROVE  SearchType'
  BY <1>3 DEF HashFails, IInv, TypeOK, SearchType, search
<1>4. CASE Del
  BY <1>4 DEF Del, IInv, TypeOK, SearchType, search
<1>5. CASE ResizeEnough
  BY <1>5, SearchStarts DEF IInv, TypeOK, CallType, ResizeEnough, Resized
<1>6. CASE Resize
  BY <1>6 DEF Resize, IInv, TypeOK, SearchType, search
<1>7. CASE RehashNext
  <2>1. i + 1 \in DOMAIN ents
    BY <1>7 DEF RehashNext, IInv, TypeOK, CallType, EntsType
  <2> QED
    BY <1>7, <2>1, EntryType, SearchStarts DEF IInv, RehashNext
<1>8. CASE RehashPlace
  BY <1>8 DEF RehashPlace, IInv, TypeOK, SearchType, search, NoFind, NoRes
<1>9. CASE RehashTwice
  BY <1>9 DEF RehashTwice, Stop, IInv, TypeOK, SearchType, search
<1>10. CASE RehashEnd
  BY <1>10, SearchStarts DEF IInv, TypeOK, CallType, RehashEnd, Resized
<1>11. CASE ProbeEmpty
  BY <1>11 DEF ProbeEmpty, Found, IInv, TypeOK, SearchType, search
<1>12. CASE ProbeMatch
  <2>1. Cell \in Nat
    BY <1>12, BucketType DEF ProbeMatch, Cell, IInv, TypeOK, SearchType,
       SearchOK
  <2> QED
    BY <1>12, <2>1 DEF ProbeMatch, Found, IInv, TypeOK, SearchType
<1>13. CASE ProbeEqFails
  BY <1>13 DEF ProbeEqFails, NotFound, IInv, TypeOK, SearchType, search
<1>14. CASE ProbeNext
  <2>1. buks_len \in Nat \ {0} /\ find.bi + find.tries + 1 \in Nat
    BY <1>14 DEF ProbeNext, IInv, TypeOK, BuksType, SearchType, SearchOK
  <2>2. NextBi \in Nat
    BY <2>1 DEF NextBi
  <2>3. [find EXCEPT !.tries = @ + 1, !.bi = NextBi] \in
          [user : {"none", "get", "set", "rehash", "again"},
           key : Key \cup {None}, hash : Nat, bi : Nat, tries : Nat]
    <3>1. find.tries + 1 \in Nat
      BY DEF IInv, TypeOK, SearchType
    <3> QED
      BY <2>2, <3>1 DEF IInv, TypeOK, SearchType
  <2> QED
    BY <1>14, <2>3 DEF ProbeNext, IInv, TypeOK, SearchType
<1>15. CASE ProbeExhausted
  BY <1>15 DEF ProbeExhausted, NotFound, IInv, TypeOK, SearchType, search
<1>16. CASE ProbeWild
  BY <1>16 DEF ProbeWild, Stop, IInv, TypeOK, SearchType, search
<1>17. CASE GetReturns
  BY <1>17 DEF GetReturns, Return, IInv, TypeOK, SearchType, search, NoFind,
     NoRes
<1>18. CASE Replace
  BY <1>18 DEF Replace, Return, IInv, TypeOK, SearchType, search, NoFind, NoRes
<1>19. CASE SetFindFails
  BY <1>19 DEF SetFindFails, Return, IInv, TypeOK, SearchType, search, NoFind,
     NoRes
<1>20. CASE InsertNoMemory
  BY <1>20 DEF InsertNoMemory, Return, IInv, TypeOK, SearchType, search,
     NoFind, NoRes
<1>21. CASE InsertOverrun
  BY <1>21 DEF InsertOverrun, Stop, IInv, TypeOK, SearchType, search
<1>22. CASE Insert
  BY <1>22 DEF Insert, Return, IInv, TypeOK, SearchType, search, NoFind, NoRes
<1>23. CASE InsertGrows
  BY <1>23 DEF InsertGrows, IInv, TypeOK, SearchType, search, NoFind, NoRes
<1>24. CASE AgainPlace
  BY <1>24 DEF AgainPlace, Return, IInv, TypeOK, SearchType, search, NoFind,
     NoRes
<1>25. CASE AgainElsewhere
  BY <1>25 DEF AgainElsewhere, Stop, IInv, TypeOK, SearchType, search
<1>26. CASE AgainFails
  BY <1>26 DEF AgainFails, Return, IInv, TypeOK, SearchType, search, NoFind,
     NoRes
<1>27. CASE FirstResizeFails
  BY <1>27 DEF FirstResizeFails, Return, IInv, TypeOK, SearchType, search,
     NoFind, NoRes
<1>28. CASE GrowResizeFails
  BY <1>28 DEF GrowResizeFails, Return, IInv, TypeOK, SearchType, search,
     NoFind, NoRes
<1>29. CASE UNCHANGED vars
  BY <1>29 DEF vars, IInv, TypeOK, SearchType, search
<1> QED
  BY <1>1, <1>2, <1>3, <1>4, <1>5, <1>6, <1>7, <1>8, <1>9, <1>10, <1>11, <1>12,
     <1>13, <1>14, <1>15, <1>16, <1>17, <1>18, <1>19, <1>20, <1>21, <1>22,
     <1>23, <1>24, <1>25, <1>26, <1>27, <1>28, <1>29, HashType DEF Next, Call,
     Step

\* A step keeps the callers of my_search and my_resize as they are expected.
LEMMA ControlStep ==
  ASSUME IInv, [Next]_vars
  PROVE  ControlOK'
<1>1. ASSUME NEW k \in Key, NEW h \in HashVal, Get(k, h)
     PROVE  ControlOK'
  BY <1>1 DEF Get, Search, New, IInv, ControlOK, Searching, data, local, search
<1>2. ASSUME NEW k \in Key, NEW h \in HashVal, NEW x \in Val, Set(k, h, x)
     PROVE  ControlOK'
  BY <1>2 DEF Set, Search, New, IInv, ControlOK, Searching, data, local, search
<1>3. ASSUME NEW k \in Key, NEW fn \in {"get", "set"}, HashFails(fn, k)
     PROVE  ControlOK'
  BY <1>3 DEF HashFails, New, IInv, ControlOK, Searching, data, local, search
<1>4. CASE Del
  BY <1>4 DEF Del, New, IInv, ControlOK, Searching, data, local, search
<1>5. CASE ResizeEnough
  BY <1>5 DEF IInv, TypeOK, CallType, ControlOK, Searching, data, local,
     ResizeEnough, Resized, Search
<1>6. CASE Resize
  BY <1>6 DEF Resize, IInv, ControlOK, Searching, data, local, search
<1>7. CASE RehashNext
  BY <1>7 DEF RehashNext, Search, IInv, ControlOK, Searching, data, local,
     search
<1>8. CASE RehashPlace
  BY <1>8 DEF RehashPlace, IInv, ControlOK, Searching, data, local, search
<1>9. CASE RehashTwice
  BY <1>9 DEF RehashTwice, Stop, IInv, ControlOK, Searching, data, local,
     search
<1>10. CASE RehashEnd
  BY <1>10 DEF IInv, TypeOK, CallType, ControlOK, Searching, data, local,
     RehashEnd, Resized, Search
<1>11. CASE ProbeEmpty
  BY <1>11 DEF ProbeEmpty, Found, IInv, ControlOK, Searching, data, local,
     search
<1>12. CASE ProbeMatch
  BY <1>12 DEF ProbeMatch, Found, IInv, ControlOK, Searching, data, local,
     search
<1>13. CASE ProbeEqFails
  BY <1>13 DEF ProbeEqFails, NotFound, IInv, ControlOK, Searching, data, local,
     search
<1>14. CASE ProbeNext
  BY <1>14 DEF ProbeNext, IInv, ControlOK, Searching, data, local, search
<1>15. CASE ProbeExhausted
  BY <1>15 DEF ProbeExhausted, NotFound, IInv, ControlOK, Searching, data,
     local, search
<1>16. CASE ProbeWild
  BY <1>16 DEF ProbeWild, Stop, IInv, ControlOK, Searching, data, local, search
<1>17. CASE GetReturns
  BY <1>17 DEF GetReturns, Return, IInv, ControlOK, Searching, data, local,
     search
<1>18. CASE Replace
  BY <1>18 DEF Replace, Return, IInv, ControlOK, Searching, data, local, search
<1>19. CASE SetFindFails
  BY <1>19 DEF SetFindFails, Return, IInv, ControlOK, Searching, data, local,
     search
<1>20. CASE InsertNoMemory
  BY <1>20 DEF InsertNoMemory, Return, IInv, ControlOK, Searching, data, local,
     search
<1>21. CASE InsertOverrun
  BY <1>21 DEF InsertOverrun, Stop, IInv, ControlOK, Searching, data, local,
     search
<1>22. CASE Insert
  BY <1>22 DEF Insert, Return, IInv, ControlOK, Searching, data, local, search
<1>23. CASE InsertGrows
  <2>1. res.bi >= 0
    BY <1>23, LenType DEF InsertGrows, Inserting, IInv, TypeOK, BuksType,
       SearchOK, RoomOK, Searching
  <2>2. AtLimit(NewLen)
    BY <1>23, <2>1 DEF InsertGrows, IInv, TypeOK, SearchType
  <2>3. AtLimit(Len(ents'))
    BY <1>23, <2>2, AddedLen DEF InsertGrows, NewLen
  <2> QED
    BY <1>23, <2>3 DEF InsertGrows, Inserting, IInv, ControlOK, Searching
<1>24. CASE AgainPlace
  BY <1>24 DEF AgainPlace, Return, IInv, ControlOK, Searching, data, local,
     search
<1>25. CASE AgainElsewhere
  BY <1>25 DEF AgainElsewhere, Stop, IInv, ControlOK, Searching, data, local,
     search
<1>26. CASE AgainFails
  BY <1>26 DEF AgainFails, Return, IInv, ControlOK, Searching, data, local,
     search
<1>27. CASE FirstResizeFails
  BY <1>27 DEF FirstResizeFails, Return, IInv, ControlOK, Searching, data,
     local, search
<1>28. CASE GrowResizeFails
  BY <1>28 DEF GrowResizeFails, Return, IInv, ControlOK, Searching, data,
     local, search
<1>29. CASE UNCHANGED vars
  BY <1>29 DEF vars, IInv, ControlOK, Searching, data, local, search
<1> QED
  BY <1>1, <1>2, <1>3, <1>4, <1>5, <1>6, <1>7, <1>8, <1>9, <1>10, <1>11, <1>12,
     <1>13, <1>14, <1>15, <1>16, <1>17, <1>18, <1>19, <1>20, <1>21, <1>22,
     <1>23, <1>24, <1>25, <1>26, <1>27, <1>28, <1>29, HashType DEF Next, Call,
     Step

\* A search stays inside the bucket array and finds entries that exist.
LEMMA SearchStep ==
  ASSUME IInv, [Next]_vars
  PROVE  SearchOK'
<1>1. ASSUME NEW k \in Key, NEW h \in HashVal, Get(k, h)
     PROVE  SearchOK'
  <2>1. Search("get", k, h)
    BY <1>1 DEF Get
  <2>2. buks_len' = buks_len /\ ents' = ents /\ Len(ents) \in Nat
    BY <1>1, LenType DEF Get, IInv, mem, data
  <2>3. k \in Key \cup {None} /\ h \in Nat
    BY HashType
  <2> QED
    BY <2>1, <2>2, <2>3, SearchStarts DEF IInv, SearchOK, NoRes
<1>2. ASSUME NEW k \in Key, NEW h \in HashVal, NEW x \in Val, Set(k, h, x)
     PROVE  SearchOK'
  <2>1. CASE NeedsResize
    BY <1>2, <2>1 DEF Set, SearchOK
  <2>2. CASE ~NeedsResize
    <3>1. Search("set", k, h)
      BY <1>2, <2>2 DEF Set
    <3>2. buks_len' = buks_len /\ ents' = ents /\ Len(ents) \in Nat
      BY <1>2, LenType DEF Set, IInv, mem, data
    <3>3. k \in Key \cup {None} /\ h \in Nat
      BY HashType
    <3> QED
      BY <3>1, <3>2, <3>3, SearchStarts DEF IInv, SearchOK, NoRes
  <2> QED
    BY <2>1, <2>2
<1>3. ASSUME NEW k \in Key, NEW fn \in {"get", "set"}, HashFails(fn, k)
     PROVE  SearchOK'
  BY <1>3 DEF HashFails, IInv, SearchOK, mem, data, search
<1>4. CASE Del
  BY <1>4 DEF Del, IInv, SearchOK, mem, data, search
<1>5. CASE ResizeEnough
  <2> DEFINE st == IF caller = "first" THEN "set" ELSE "again"
  <2>1. Search(st, call.key, call.hash)
    BY <1>5 DEF ResizeEnough, Resized
  <2>2. buks_len' = buks_len /\ ents' = ents /\ Len(ents) \in Nat
    BY <1>5, LenType DEF ResizeEnough, IInv, mem, data
  <2>3. call.key \in Key \cup {None} /\ call.hash \in Nat
    BY DEF IInv, TypeOK, CallType
  <2>4. st \in {"get", "set", "rehash", "again"}
    OBVIOUS
  <2> HIDE DEF st
  <2> QED
    BY <2>1, <2>2, <2>3, <2>4, SearchStarts DEF IInv, SearchOK, NoRes
<1>6. CASE Resize
  BY <1>6 DEF Resize, IInv, SearchOK, mem, data, search
<1>7. CASE RehashNext
  <2> DEFINE k == ents[i + 1].key
             h == ents[i + 1].hash
  <2>1. Search("rehash", k, h)
    BY <1>7 DEF RehashNext
  <2>2. buks_len' = buks_len /\ ents' = ents /\ Len(ents) \in Nat
    BY <1>7, LenType DEF RehashNext, IInv, mem, data
  <2>3. k \in Key \cup {None} /\ h \in Nat
    <3>1. i + 1 \in DOMAIN ents
      BY <1>7, LenType DEF RehashNext, IInv, TypeOK, CallType
    <3> QED
      BY <3>1, EntryType DEF IInv
  <2> HIDE DEF k, h
  <2> QED
    BY <2>1, <2>2, <2>3, SearchStarts DEF IInv, SearchOK, NoRes
<1>8. CASE RehashPlace
  BY <1>8 DEF RehashPlace, IInv, SearchOK, mem, data, search
<1>9. CASE RehashTwice
  BY <1>9 DEF RehashTwice, Stop, IInv, SearchOK, mem, data, search
<1>10. CASE RehashEnd
  <2> DEFINE st == IF caller = "first" THEN "set" ELSE "again"
  <2>1. Search(st, call.key, call.hash)
    BY <1>10 DEF RehashEnd, Resized
  <2>2. buks_len' = buks_len /\ ents' = ents /\ Len(ents) \in Nat
    BY <1>10, LenType DEF RehashEnd, IInv, mem, data
  <2>3. call.key \in Key \cup {None} /\ call.hash \in Nat
    BY DEF IInv, TypeOK, CallType
  <2>4. st \in {"get", "set", "rehash", "again"}
    OBVIOUS
  <2> HIDE DEF st
  <2> QED
    BY <2>1, <2>2, <2>3, <2>4, SearchStarts DEF IInv, SearchOK, NoRes
<1>11. CASE ProbeEmpty
  BY <1>11, LenType DEF ProbeEmpty, Found, IInv, TypeOK, SearchType, SearchOK,
     data
<1>12. CASE ProbeMatch
  <2>1. Cell \in Nat /\ Cell < Len(ents) /\ Len(ents) \in Nat
    BY <1>12, BucketType, LenType DEF ProbeMatch, SameHash, InEntries, Cell,
       IInv, TypeOK, SearchType, SearchOK
  <2>2. Cell \in -1..(Len(ents) - 1)
    BY <2>1
  <2> QED
    BY <1>12, <2>2 DEF ProbeMatch, Found, IInv, TypeOK, SearchType, SearchOK,
       data
<1>13. CASE ProbeEqFails
  BY <1>13 DEF ProbeEqFails, NotFound, IInv, SearchOK, mem, data, search
<1>14. CASE ProbeNext
  <2>1. buks_len \in Nat \ {0} /\ find.bi + find.tries + 1 \in Nat
    BY <1>14 DEF ProbeNext, IInv, TypeOK, BuksType, SearchType, SearchOK
  <2>2. NextBi < buks_len
    BY <2>1 DEF NextBi
  <2>3. find'.bi = NextBi
    BY <1>14 DEF ProbeNext, IInv, TypeOK, SearchType
  <2> QED
    BY <1>14, <2>2, <2>3 DEF ProbeNext, SearchOK, mem
<1>15. CASE ProbeExhausted
  BY <1>15 DEF ProbeExhausted, NotFound, IInv, SearchOK, mem, data, search
<1>16. CASE ProbeWild
  BY <1>16 DEF ProbeWild, Stop, IInv, SearchOK, mem, data, search
<1>17. CASE GetReturns
  BY <1>17 DEF GetReturns, Return, IInv, SearchOK, mem, data, search
<1>18. CASE Replace
  BY <1>18 DEF Replace, Return, IInv, SearchOK, mem, data, search
<1>19. CASE SetFindFails
  BY <1>19 DEF SetFindFails, Return, IInv, SearchOK, mem, data, search
<1>20. CASE InsertNoMemory
  BY <1>20 DEF InsertNoMemory, Return, IInv, SearchOK, mem, data, search
<1>21. CASE InsertOverrun
  BY <1>21 DEF InsertOverrun, Stop, IInv, SearchOK, mem, data, search
<1>22. CASE Insert
  BY <1>22 DEF Insert, Return, IInv, SearchOK, mem, data, search
<1>23. CASE InsertGrows
  BY <1>23 DEF InsertGrows, IInv, SearchOK, mem, data, search
<1>24. CASE AgainPlace
  BY <1>24 DEF AgainPlace, Return, IInv, SearchOK, mem, data, search
<1>25. CASE AgainElsewhere
  BY <1>25 DEF AgainElsewhere, Stop, IInv, SearchOK, mem, data, search
<1>26. CASE AgainFails
  BY <1>26 DEF AgainFails, Return, IInv, SearchOK, mem, data, search
<1>27. CASE FirstResizeFails
  BY <1>27 DEF FirstResizeFails, Return, IInv, SearchOK, mem, data, search
<1>28. CASE GrowResizeFails
  BY <1>28 DEF GrowResizeFails, Return, IInv, SearchOK, mem, data, search
<1>29. CASE UNCHANGED vars
  BY <1>29 DEF vars, IInv, SearchOK, mem, data, search
<1> QED
  BY <1>1, <1>2, <1>3, <1>4, <1>5, <1>6, <1>7, <1>8, <1>9, <1>10, <1>11, <1>12,
     <1>13, <1>14, <1>15, <1>16, <1>17, <1>18, <1>19, <1>20, <1>21, <1>22,
     <1>23, <1>24, <1>25, <1>26, <1>27, <1>28, <1>29, HashType DEF Next, Call,
     Step

\* A step keeps more buckets than entries.
LEMMA RoomStep ==
  ASSUME IInv, [Next]_vars
  PROVE  RoomOK'
<1>1. ASSUME NEW k \in Key, NEW h \in HashVal, Get(k, h)
     PROVE  RoomOK'
  BY <1>1 DEF Get, Search, IInv, RoomOK, ControlOK, Searching, BeforeInsert,
     NeedsResize, mem, data, local, search
<1>2. ASSUME NEW k \in Key, NEW h \in HashVal, NEW x \in Val, Set(k, h, x)
     PROVE  RoomOK'
  BY <1>2, LenType DEF Set, Search, NeedsResize, IInv, TypeOK, BuksType,
     ControlOK, RoomOK,
     BeforeInsert, Searching, mem, data, search
<1>3. ASSUME NEW k \in Key, NEW fn \in {"get", "set"}, HashFails(fn, k)
     PROVE  RoomOK'
  BY <1>3 DEF HashFails, IInv, RoomOK, ControlOK, Searching, BeforeInsert,
     NeedsResize, mem, data, local, search
<1>4. CASE Del
  BY <1>4, BoundAssumption DEF Del, RoomOK, BeforeInsert, Searching, search,
     IInv, ControlOK
<1>5. CASE ResizeEnough
  BY <1>5, NewLength, LenType, SMTT(40) DEF ResizeEnough, Resized, Search, IInv,
     TypeOK, BuksType, ControlOK, RoomOK,
     BeforeInsert, Searching, mem, data, local
<1>6. CASE Resize
  BY <1>6, NewLength, LenType DEF Resize, IInv, RoomOK, ControlOK, Searching,
     BeforeInsert, NeedsResize, mem, data, local, search
<1>7. CASE RehashNext
  BY <1>7, NewLength, LenType DEF RehashNext, Search, IInv, RoomOK, ControlOK,
     Searching, BeforeInsert, NeedsResize, mem, data, local, search
<1>8. CASE RehashPlace
  BY <1>8 DEF RehashPlace, IInv, RoomOK, ControlOK, Searching, BeforeInsert,
     NeedsResize, mem, data, local, search
<1>9. CASE RehashTwice
  BY <1>9 DEF RehashTwice, Stop, IInv, RoomOK, ControlOK, Searching,
     BeforeInsert, NeedsResize, mem, data, local, search
<1>10. CASE RehashEnd
  BY <1>10, NewLength, LenType DEF RehashEnd, Resized, Search, IInv, TypeOK,
     BuksType, ControlOK, RoomOK,
     BeforeInsert, Searching, mem, data, local
<1>11. CASE ProbeEmpty
  BY <1>11 DEF ProbeEmpty, Found, IInv, RoomOK, ControlOK, Searching,
     BeforeInsert, NeedsResize, mem, data, local, search
<1>12. CASE ProbeMatch
  BY <1>12 DEF ProbeMatch, Found, IInv, RoomOK, ControlOK, Searching,
     BeforeInsert, NeedsResize, mem, data, local, search
<1>13. CASE ProbeEqFails
  BY <1>13 DEF ProbeEqFails, NotFound, IInv, RoomOK, ControlOK, Searching,
     BeforeInsert, NeedsResize, mem, data, local, search
<1>14. CASE ProbeNext
  BY <1>14 DEF ProbeNext, IInv, RoomOK, ControlOK, Searching, BeforeInsert,
     NeedsResize, mem, data, local, search
<1>15. CASE ProbeExhausted
  BY <1>15 DEF ProbeExhausted, NotFound, IInv, RoomOK, ControlOK, Searching,
     BeforeInsert, NeedsResize, mem, data, local, search
<1>16. CASE ProbeWild
  BY <1>16 DEF ProbeWild, Stop, IInv, RoomOK, ControlOK, Searching,
     BeforeInsert, NeedsResize, mem, data, local, search
<1>17. CASE GetReturns
  BY <1>17 DEF GetReturns, Return, IInv, RoomOK, ControlOK, Searching,
     BeforeInsert, NeedsResize, mem, data, local, search
<1>18. CASE Replace
  BY <1>18 DEF Replace, Return, IInv, RoomOK, ControlOK, Searching,
     BeforeInsert, NeedsResize, mem, data, local, search
<1>19. CASE SetFindFails
  BY <1>19 DEF SetFindFails, Return, IInv, RoomOK, ControlOK, Searching,
     BeforeInsert, NeedsResize, mem, data, local, search
<1>20. CASE InsertNoMemory
  BY <1>20 DEF InsertNoMemory, Return, IInv, RoomOK, ControlOK, Searching,
     BeforeInsert, NeedsResize, mem, data, local, search
<1>21. CASE InsertOverrun
  BY <1>21 DEF InsertOverrun, Stop, IInv, RoomOK, ControlOK, Searching,
     BeforeInsert, NeedsResize, mem, data, local, search
<1>22. CASE Insert
  <2>1. Len(ents') = Len(ents) + 1 /\ Len(ents) \in Nat
    BY <1>22, AddedLen, LenType DEF Insert, IInv
  <2>2. ents_real' = Len(ents')
    BY <1>22, <2>1 DEF Insert, EntryAdded, IInv, RoomOK
  <2>3. Len(ents) < MaxEnts /\ Len(ents) + 2 <= buks_len
    BY <1>22 DEF Insert, Inserting, IInv, RoomOK, BeforeInsert, Searching
  <2>4. Len(ents') <= MaxEnts /\ Len(ents') < buks_len
    BY <2>1, <2>3, BoundAssumption DEF IInv, TypeOK, BuksType
  <2> QED
    BY <1>22, <2>2, <2>4 DEF Insert, Return, NoFind, RoomOK, BeforeInsert,
       Searching
<1>23. CASE InsertGrows
  <2>1. Len(ents') = Len(ents) + 1 /\ Len(ents) \in Nat
    BY <1>23, AddedLen, LenType DEF InsertGrows, IInv
  <2>2. ents_real' = Len(ents')
    BY <1>23, <2>1 DEF InsertGrows, EntryAdded, IInv, RoomOK
  <2>3. Len(ents) < MaxEnts /\ Len(ents) + 2 <= buks_len
    BY <1>23 DEF InsertGrows, Inserting, IInv, RoomOK, BeforeInsert, Searching
  <2>4. Len(ents') <= MaxEnts /\ Len(ents') < buks_len
    BY <2>1, <2>3, BoundAssumption DEF IInv, TypeOK, BuksType
  <2> QED
    BY <1>23, <2>2, <2>4 DEF InsertGrows, RoomOK, BeforeInsert, Searching
<1>24. CASE AgainPlace
  BY <1>24 DEF AgainPlace, Return, IInv, RoomOK, ControlOK, Searching,
     BeforeInsert, NeedsResize, mem, data, local, search
<1>25. CASE AgainElsewhere
  BY <1>25 DEF AgainElsewhere, Stop, IInv, RoomOK, ControlOK, Searching,
     BeforeInsert, NeedsResize, mem, data, local, search
<1>26. CASE AgainFails
  <2>1. AtLimit(Len(ents))
    BY <1>26 DEF AgainFails, Searching, IInv, ControlOK
  <2>2. Len(ents') = Len(ents) - 1 /\ Len(ents) \in Nat /\ Len(ents) > 0
    BY <1>26, <2>1, RemovedLen, LenType DEF AgainFails, IInv
  <2>3. ents_real' = Len(ents')
    BY <1>26, <2>2 DEF AgainFails, EntryRemoved, IInv, RoomOK
  <2>4. Len(ents') <= MaxEnts /\ Len(ents') < buks_len
    BY <2>2, BoundAssumption DEF IInv, RoomOK, TypeOK, BuksType
  <2> QED
    BY <1>26, <2>3, <2>4 DEF AgainFails, Return, mem, RoomOK, BeforeInsert,
       Searching
<1>27. CASE FirstResizeFails
  BY <1>27 DEF FirstResizeFails, Return, IInv, RoomOK, ControlOK, Searching,
     BeforeInsert, NeedsResize, mem, data, local, search
<1>28. CASE GrowResizeFails
  <2>1. AtLimit(Len(ents))
    BY <1>28 DEF GrowResizeFails, Searching, IInv, ControlOK
  <2>2. Len(ents') = Len(ents) - 1 /\ Len(ents) \in Nat /\ Len(ents) > 0
    BY <1>28, <2>1, RemovedLen, LenType DEF GrowResizeFails, IInv
  <2>3. ents_real' = Len(ents')
    BY <1>28, <2>2 DEF GrowResizeFails, EntryRemoved, IInv, RoomOK
  <2>4. Len(ents') <= MaxEnts /\ Len(ents') < buks_len
    BY <2>2, BoundAssumption DEF IInv, RoomOK, TypeOK, BuksType
  <2> QED
    BY <1>28, <2>3, <2>4 DEF GrowResizeFails, Return, mem, RoomOK,
       BeforeInsert, Searching
<1>29. CASE UNCHANGED vars
  BY <1>29 DEF vars, IInv, RoomOK, ControlOK, Searching, BeforeInsert,
     NeedsResize, mem, data, local, search
<1> QED
  BY <1>1, <1>2, <1>3, <1>4, <1>5, <1>6, <1>7, <1>8, <1>9, <1>10, <1>11, <1>12,
     <1>13, <1>14, <1>15, <1>16, <1>17, <1>18, <1>19, <1>20, <1>21, <1>22,
     <1>23, <1>24, <1>25, <1>26, <1>27, <1>28, <1>29, HashType DEF Next, Call,
     Step

\* A step keeps the arrays as large as recorded, and large enough.
LEMMA MemoryStep ==
  ASSUME IInv, [Next]_vars
  PROVE  MemoryOK'
<1>1. ASSUME NEW k \in Key, NEW h \in HashVal, Get(k, h)
     PROVE  MemoryOK'
  BY <1>1 DEF Get, Search, IInv, MemoryOK, NoOverrun, mem
<1>2. ASSUME NEW k \in Key, NEW h \in HashVal, NEW x \in Val, Set(k, h, x)
     PROVE  MemoryOK'
  BY <1>2 DEF Set, Search, IInv, MemoryOK, NoOverrun, mem
<1>3. ASSUME NEW k \in Key, NEW fn \in {"get", "set"}, HashFails(fn, k)
     PROVE  MemoryOK'
  BY <1>3 DEF HashFails, IInv, MemoryOK, NoOverrun, mem
<1>4. CASE Del
  BY <1>4 DEF Del, MemoryOK, NoOverrun, Width
<1>5. CASE ResizeEnough
  BY <1>5 DEF ResizeEnough, Resized, Search, IInv, MemoryOK, NoOverrun, mem
<1>6. CASE Resize
  <2> DEFINE E == Len(ents)
             T == Target(E)
             N == NextPrime(T)
             cap == kmem_nextcap(buks_cap, Width(buks_len) * N)
  <2>1. E \in Nat /\ E <= MaxEnts /\ buks_len \in Nat /\ buks_cap \in Nat
    BY LenType DEF IInv, TypeOK, BuksType, RoomOK
  <2>2. /\ N \in Nat /\ T \in Nat /\ 3 * T <= 10 * E + 3 /\ 10 * E < 3 * T
        /\ T < N /\ N <= 2 * T + 1
    BY <2>1, NewLength
  <2>3. buks_len <= T
    BY <1>6 DEF Resize
  <2>4. E < buks_len \/ (buks_len = 0 /\ E = 0)
    BY DEF IInv, RoomOK
  <2>5. 10 * E > 7 * buks_len \/ buks_len < E + 3 \/ AtLimit(E)
    BY <1>6 DEF Resize, IInv, TypeOK, CallType, ControlOK, RoomOK, NeedsResize
  <2>6. /\ ~OOM => ents_blk = ents_cap /\ buks_blk = buks_cap
        /\ Width(buks_len) * buks_len <= buks_cap
        /\ buks_cap <= 2 * (Width(buks_len) * buks_len) + 4
    BY DEF IInv, MemoryOK
  <2>7. Width(N) * N <= cap /\ cap <= 2 * (Width(N) * N) + 4
    <3> HIDE DEF E, T, N
    <3> QED
      BY <2>1, <2>2, <2>3, <2>4, <2>5, <2>6, CapacityFits
  <2>8. /\ buks_len' = N /\ buks_cap' = cap
        /\ ~OOM => buks_blk' = cap
        /\ ents_cap' = ents_cap /\ ents_blk' = ents_blk
        /\ pc' = IF Width(N) * N > buks_blk' THEN "overrun" ELSE "rehash"
    BY <1>6, <2>6 DEF Resize, Allocated
  <2>9. Width(N) * N \in Nat /\ cap \in Nat
    <3>1. Width(N) \in {1, 2, 4} /\ Width(buks_len) \in {1, 2, 4}
      BY <2>1, <2>2, WidthType
    <3>2. \A w \in {1, 2, 4}, n \in Nat : w * n \in Nat
      OBVIOUS
    <3>3. Width(N) * N \in Nat /\ Width(buks_len) * N \in Nat
      BY <2>2, <3>1, <3>2
    <3> QED
      BY <2>1, <3>3 DEF kmem_nextcap
  <2>10. buks_blk' = buks_cap' => pc' # "overrun"
    <3> HIDE DEF N, cap
    <3> QED
      BY <2>7, <2>8, <2>9
  <2> HIDE DEF N, cap
  <2> QED
    BY <2>6, <2>7, <2>8, <2>10 DEF MemoryOK, NoOverrun
<1>7. CASE RehashNext
  BY <1>7 DEF RehashNext, Search, IInv, MemoryOK, NoOverrun, mem
<1>8. CASE RehashPlace
  BY <1>8 DEF RehashPlace, IInv, MemoryOK, NoOverrun, mem
<1>9. CASE RehashTwice
  BY <1>9 DEF RehashTwice, Stop, IInv, MemoryOK, NoOverrun, mem
<1>10. CASE RehashEnd
  BY <1>10 DEF RehashEnd, Resized, Search, IInv, MemoryOK, NoOverrun, mem
<1>11. CASE ProbeEmpty
  BY <1>11 DEF ProbeEmpty, Found, IInv, MemoryOK, NoOverrun, mem
<1>12. CASE ProbeMatch
  BY <1>12 DEF ProbeMatch, Found, IInv, MemoryOK, NoOverrun, mem
<1>13. CASE ProbeEqFails
  BY <1>13 DEF ProbeEqFails, NotFound, IInv, MemoryOK, NoOverrun, mem
<1>14. CASE ProbeNext
  BY <1>14 DEF ProbeNext, IInv, MemoryOK, NoOverrun, mem
<1>15. CASE ProbeExhausted
  BY <1>15 DEF ProbeExhausted, NotFound, IInv, MemoryOK, NoOverrun, mem
<1>16. CASE ProbeWild
  BY <1>16 DEF ProbeWild, Stop, IInv, MemoryOK, NoOverrun, mem
<1>17. CASE GetReturns
  BY <1>17 DEF GetReturns, Return, IInv, MemoryOK, NoOverrun, mem
<1>18. CASE Replace
  BY <1>18 DEF Replace, Return, IInv, MemoryOK, NoOverrun, mem
<1>19. CASE SetFindFails
  BY <1>19 DEF SetFindFails, Return, IInv, MemoryOK, NoOverrun, mem
<1>20. CASE InsertNoMemory
  BY <1>20 DEF InsertNoMemory, Return, IInv, MemoryOK, NoOverrun, mem
<1>21. CASE InsertOverrun
  BY <1>21, LenType DEF InsertOverrun, Stop, NewLen, IInv, TypeOK, EntsType,
     MemoryOK, NoOverrun, mem
<1>22. CASE Insert
  BY <1>22, LenType DEF Insert, Return, EntsGrown, NewLen, kmem_nextcap, IInv,
     TypeOK, EntsType, MemoryOK, NoOverrun
<1>23. CASE InsertGrows
  BY <1>23, LenType DEF InsertGrows, EntsGrown, NewLen, kmem_nextcap, IInv,
     TypeOK, EntsType, MemoryOK, NoOverrun
<1>24. CASE AgainPlace
  BY <1>24 DEF AgainPlace, Return, IInv, MemoryOK, NoOverrun, mem
<1>25. CASE AgainElsewhere
  BY <1>25 DEF AgainElsewhere, Stop, IInv, MemoryOK, NoOverrun, mem
<1>26. CASE AgainFails
  BY <1>26 DEF AgainFails, Return, IInv, MemoryOK, NoOverrun, mem
<1>27. CASE FirstResizeFails
  BY <1>27 DEF FirstResizeFails, Return, IInv, MemoryOK, NoOverrun, mem
<1>28. CASE GrowResizeFails
  BY <1>28 DEF GrowResizeFails, Return, IInv, MemoryOK, NoOverrun, mem
<1>29. CASE UNCHANGED vars
  BY <1>29 DEF vars, IInv, MemoryOK, NoOverrun, mem
<1> QED
  BY <1>1, <1>2, <1>3, <1>4, <1>5, <1>6, <1>7, <1>8, <1>9, <1>10, <1>11, <1>12,
     <1>13, <1>14, <1>15, <1>16, <1>17, <1>18, <1>19, <1>20, <1>21, <1>22,
     <1>23, <1>24, <1>25, <1>26, <1>27, <1>28, <1>29, HashType DEF Next, Call,
     Step

\* The initial states satisfy the invariant.
LEMMA InitIInv ==
  ASSUME Init
  PROVE  IInv
<1>1. BuksType
  BY ClearedType DEF Init, BuksType
<1>2. EntsType
  BY EmptySeq DEF Init, EntsType
<1>3. CallType
  BY DEF Init, CallType, New, Returned, Running
<1>4. SearchType
  BY DEF Init, SearchType, NoFind, NoRes
<1>5. ControlOK /\ SearchOK
  BY DEF Init, ControlOK, SearchOK, Searching
<1>6. RoomOK
  BY BoundAssumption DEF Init, RoomOK, BeforeInsert, Searching
<1>7. MemoryOK
  BY DEF Init, MemoryOK, NoOverrun, Width
<1> QED
  BY <1>1, <1>2, <1>3, <1>4, <1>5, <1>6, <1>7 DEF IInv, TypeOK

\* The invariant holds throughout every behaviour.
THEOREM Invariance == Spec => []IInv
<1>1. Init => IInv
  BY InitIInv
<1>2. IInv /\ [Next]_vars => IInv'
  BY BuksStep, EntsStep, CallStep, SearchTypeStep, ControlStep, SearchStep,
     RoomStep, MemoryStep DEF IInv, TypeOK
<1> QED
  BY <1>1, <1>2, PTL DEF Spec

(***************************************************************************)
(* What it gives.                                                          *)
(***************************************************************************)

\* Every variable keeps its type: no byte of the bucket array leaves 0..255,
\* no count of the code becomes negative (TypeOK, for any keys and hashes).
THEOREM TypeCorrect == Spec => []TypeOK
<1>1. IInv => TypeOK
  BY DEF IInv
<1> QED
  BY <1>1, Invariance, PTL

\* Unless a failed allocation left a block smaller than recorded, no array is
\* written past its end (NoOverrun), whatever the number of entries and the
\* width of the buckets.
THEOREM MemorySafe == Spec => []NoOverrun
<1>1. IInv => NoOverrun
  BY DEF IInv, MemoryOK
<1> QED
  BY <1>1, Invariance, PTL

\* A failed call leaves the stored entries as they were: a step that changes
\* them is the last one of a call that returns 0, or the deletion.
Kept == Stored' = Stored \/ (pc' \in {"idle", "dead"} /\ call'.ret = 0)

\* Every step is one that OnlySuccessChanges allows.
LEMMA KeptStep ==
  ASSUME IInv, [Next]_vars
  PROVE  Kept
<1>1. ASSUME NEW k \in Key, NEW h \in HashVal, Get(k, h)
     PROVE  Kept
  BY <1>1 DEF Get, Search, Kept, Stored, data, local
<1>2. ASSUME NEW k \in Key, NEW h \in HashVal, NEW x \in Val, Set(k, h, x)
     PROVE  Kept
  BY <1>2 DEF Set, Search, Kept, Stored, data, local, IInv, ControlOK
<1>3. ASSUME NEW k \in Key, NEW fn \in {"get", "set"}, HashFails(fn, k)
     PROVE  Kept
  BY <1>3 DEF HashFails, Kept, Stored, data, local
<1>4. CASE Del
  BY <1>4 DEF Del, Returned, New, Kept
<1>5. CASE ResizeEnough
  BY <1>5 DEF ResizeEnough, Resized, Search, Kept, Stored, data, local
<1>6. CASE Resize
  BY <1>6 DEF Resize, Kept, Stored, data, local
<1>7. CASE RehashNext
  BY <1>7 DEF RehashNext, Search, Kept, Stored, data, local
<1>8. CASE RehashPlace
  BY <1>8 DEF RehashPlace, Kept, Stored, data, local
<1>9. CASE RehashTwice
  BY <1>9 DEF RehashTwice, Stop, Kept, Stored, data, local
<1>10. CASE RehashEnd
  BY <1>10 DEF RehashEnd, Resized, Search, Kept, Stored, data, local
<1>11. CASE ProbeEmpty
  BY <1>11 DEF ProbeEmpty, Found, Kept, Stored, data, local
<1>12. CASE ProbeMatch
  BY <1>12 DEF ProbeMatch, Found, Kept, Stored, data, local
<1>13. CASE ProbeEqFails
  BY <1>13 DEF ProbeEqFails, NotFound, Kept, Stored, data, local
<1>14. CASE ProbeNext
  BY <1>14 DEF ProbeNext, Kept, Stored, data, local
<1>15. CASE ProbeExhausted
  BY <1>15 DEF ProbeExhausted, NotFound, Kept, Stored, data, local
<1>16. CASE ProbeWild
  BY <1>16 DEF ProbeWild, Stop, Kept, Stored, data, local
<1>17. CASE GetReturns
  BY <1>17 DEF GetReturns, Return, Kept, Stored, data, local, IInv, ControlOK,
     Searching
<1>18. CASE Replace
  BY <1>18 DEF Replace, Return, Returned, Kept, IInv, TypeOK, CallType
<1>19. CASE SetFindFails
  BY <1>19 DEF SetFindFails, Return, Kept, Stored, data, local, IInv,
     ControlOK, Searching
<1>20. CASE InsertNoMemory
  BY <1>20 DEF InsertNoMemory, Inserting, Return, Kept, Stored, data, local,
     IInv, ControlOK, Searching
<1>21. CASE InsertOverrun
  BY <1>21 DEF InsertOverrun, Inserting, Stop, Kept, Stored, data, local
<1>22. CASE Insert
  BY <1>22 DEF Insert, Return, Returned, Kept, IInv, TypeOK, CallType
<1>23. CASE InsertGrows
  <2>1. Stored = ents
    BY <1>23 DEF InsertGrows, Inserting, Searching, IInv, ControlOK, Stored
  <2>2. Stored' = SubSeq(ents', 1, Len(ents') - 1)
    BY <1>23 DEF InsertGrows, Stored
  <2> DEFINE x == [key |-> call.key, hash |-> call.hash, val |-> call.val]
             S == [key : Key, hash : Nat, val : Val]
  <2>3. x \in S
    BY <1>23 DEF InsertGrows, Inserting, Searching, IInv, TypeOK, CallType,
       ControlOK
  <2>4. ents \in Seq(S) /\ ents' = Append(ents, x)
    BY <1>23 DEF InsertGrows, EntryAdded, IInv, TypeOK, EntsType
  <2>5. SubSeq(Append(ents, x), 1, Len(Append(ents, x)) - 1) = ents
    <3> HIDE DEF x, S
    <3> QED
      BY <2>3, <2>4, AppendFront
  <2> QED
    BY <2>1, <2>2, <2>4, <2>5 DEF Kept
<1>24. CASE AgainPlace
  BY <1>24 DEF AgainPlace, Return, Returned, Kept, IInv, TypeOK, CallType
<1>25. CASE AgainElsewhere
  BY <1>25 DEF AgainElsewhere, Stop, Kept, Stored, data, local
<1>26. CASE AgainFails
  <2>1. Stored = SubSeq(ents, 1, Len(ents) - 1)
    BY <1>26 DEF AgainFails, Searching, IInv, ControlOK, Stored
  <2>2. Stored' = SubSeq(ents, 1, Len(ents) - 1)
    BY <1>26 DEF AgainFails, EntryRemoved, Return, Stored
  <2> QED
    BY <2>1, <2>2 DEF Kept
<1>27. CASE FirstResizeFails
  BY <1>27 DEF FirstResizeFails, Return, Kept, Stored, data, local
<1>28. CASE GrowResizeFails
  <2>1. Stored = SubSeq(ents, 1, Len(ents) - 1)
    BY <1>28 DEF GrowResizeFails, Searching, IInv, ControlOK, Stored
  <2>2. Stored' = SubSeq(ents, 1, Len(ents) - 1)
    BY <1>28 DEF GrowResizeFails, EntryRemoved, Return, Stored
  <2> QED
    BY <2>1, <2>2 DEF Kept
<1>29. CASE UNCHANGED vars
  BY <1>29 DEF vars, Kept, Stored, data, local
<1> QED
  BY <1>1, <1>2, <1>3, <1>4, <1>5, <1>6, <1>7, <1>8, <1>9, <1>10, <1>11, <1>12,
     <1>13, <1>14, <1>15, <1>16, <1>17, <1>18, <1>19, <1>20, <1>21, <1>22,
     <1>23, <1>24, <1>25, <1>26, <1>27, <1>28, <1>29, HashType DEF Next, Call,
     Step

\* Only a call that succeeds changes what is stored (OnlySuccessChanges): an
\* insertion that is taken back in its middle leaves no trace.
THEOREM FailureLeavesNoTrace == Spec => OnlySuccessChanges
<1>1. IInv /\ [Next]_vars =>
        [Stored' # Stored => pc' \in {"idle", "dead"} /\ call'.ret = 0]_vars
  BY KeptStep DEF Kept
<1> QED
  BY <1>1, Invariance, PTL DEF Spec, OnlySuccessChanges

(***************************************************************************)
(* References.                                                             *)
(***************************************************************************)

Entry == [key : Key, hash : Nat, val : Val]

\* The entries an object is stored in.
StoredAt(o) == {e \in DOMAIN ents : o \in {ents[e].key, ents[e].val}}

\* What an insert may take back is what its call has put there.
LastIsCalls ==
  caller = "grow" =>
    ents[Len(ents)].key = call.key /\ ents[Len(ents)].val = call.val

\* The inductive invariant, on top of IInv.
RefInv == RefBalance /\ LastIsCalls

\* The entries that hold an object are finitely many.
LEMMA StoredFinite ==
  ASSUME TypeOK, NEW o
  PROVE  IsFiniteSet(StoredAt(o)) /\ Cardinality(StoredAt(o)) \in Nat
<1>1. DOMAIN ents = 1..Len(ents) /\ Len(ents) \in Nat
  BY LenType
<1>2. IsFiniteSet(1..Len(ents))
  BY <1>1, FS_Interval
<1>3. StoredAt(o) \in SUBSET (1..Len(ents))
  BY <1>1 DEF StoredAt
<1>4. IsFiniteSet(StoredAt(o))
  BY <1>2, <1>3, FS_Subset
<1> QED
  BY <1>4, CardType

\* The counts are those of the entries when neither changes.
LEMMA SameRefs ==
  ASSUME RefInv, UNCHANGED <<ents, refs>>,
         caller' = "grow" => UNCHANGED <<caller, call>>
  PROVE  RefInv'
<1>1. RefBalance'
  BY DEF RefInv, RefBalance
<1>2. LastIsCalls'
  BY DEF RefInv, LastIsCalls
<1> QED
  BY <1>1, <1>2 DEF RefInv

\* A new entry takes a reference to its key and one to its value.
LEMMA AddedRefs ==
  ASSUME IInv, RefBalance, Inserting, EntryAdded
  PROVE  /\ RefBalance'
         /\ ents'[Len(ents')].key = call.key /\ ents'[Len(ents')].val = call.val
<1> DEFINE x == [key |-> call.key, hash |-> call.hash, val |-> call.val]
           n == Len(ents) + 1
<1>1. call.key \in Key /\ call.val \in Val /\ x \in Entry
  BY DEF Inserting, Searching, IInv, TypeOK, CallType, ControlOK, Entry
<1>2. call.key # call.val
  BY <1>1, ObjectAssumption
<1>3. ents \in Seq(Entry) /\ refs \in [Key \cup Val -> Int] /\ TypeOK
  BY DEF IInv, TypeOK, EntsType, Entry
<1>4. Len(ents) \in Nat /\ DOMAIN ents = 1..Len(ents)
  BY <1>3, LenType
<1>5. /\ ents' \in Seq(Entry) /\ Len(ents') = n /\ ents'[n] = x
      /\ \A e \in 1..Len(ents) : ents'[e] = ents[e]
  <2>1. ents' = Append(ents, x)
    BY DEF EntryAdded
  <2> HIDE DEF x
  <2> QED
    BY <1>1, <1>3, <2>1, AppendProperties
<1>6. DOMAIN ents' = 1..n
  BY <1>5, LenProperties
<1>7. ASSUME NEW o \in Key \cup Val
      PROVE  refs'[o] = Cardinality(StoredAt(o)')
  <2>1. IsFiniteSet(StoredAt(o)) /\ n \notin StoredAt(o)
    <3>1. n \notin DOMAIN ents
      BY <1>4
    <3> QED
      BY <1>3, <3>1, StoredFinite DEF StoredAt
  <2>2. refs[o] = Cardinality(StoredAt(o))
    BY <1>7 DEF RefBalance, StoredAt
  <2>3. CASE o \in {call.key, call.val}
    <3>1. StoredAt(o)' = StoredAt(o) \cup {n}
      BY <1>4, <1>5, <1>6, <2>3 DEF StoredAt
    <3>2. refs'[o] = refs[o] + 1
      BY <1>1, <1>2, <1>3, <2>3 DEF EntryAdded
    <3> QED
      BY <2>1, <2>2, <3>1, <3>2, CardAdd
  <2>4. CASE o \notin {call.key, call.val}
    <3>1. StoredAt(o)' = StoredAt(o)
      BY <1>4, <1>5, <1>6, <2>4 DEF StoredAt
    <3>2. refs'[o] = refs[o]
      BY <1>1, <1>3, <1>7, <2>4 DEF EntryAdded
    <3> QED
      BY <2>2, <3>1, <3>2
  <2> QED
    BY <2>3, <2>4
<1>8. RefBalance'
  BY <1>7 DEF RefBalance, StoredAt
<1> QED
  BY <1>5, <1>8

\* Taking the entry back gives back the same references.
LEMMA RemovedRefs ==
  ASSUME IInv, RefInv, EntryRemoved, caller = "grow"
  PROVE  RefBalance'
<1> DEFINE n == Len(ents)
<1>1. AtLimit(n)
  BY DEF IInv, ControlOK
<1>2. n \in Nat /\ n > 0
  BY <1>1, LimitType
<1>3. ents \in Seq(Entry) /\ refs \in [Key \cup Val -> Int] /\ TypeOK
  BY DEF IInv, TypeOK, EntsType, Entry
<1>4. DOMAIN ents = 1..n
  BY <1>3, LenType
<1>5. ents[n].key = call.key /\ ents[n].val = call.val
  BY DEF RefInv, LastIsCalls
<1>6. call.key \in Key /\ call.val \in Val /\ call.key # call.val
  <2>1. ents[n].key \in Key /\ ents[n].val \in Val
    BY <1>2, <1>3, <1>4, EntryType
  <2> QED
    BY <1>5, <2>1, ObjectAssumption
<1>7. /\ DOMAIN ents' = 1..(n - 1)
      /\ \A e \in 1..(n - 1) : ents'[e] = ents[e]
  <2>1. \A e \in 1..(n - 1) : ents[e] \in Entry
    BY <1>2, <1>3, ElementOfSeq
  <2>2. ents' = SubSeq(ents, 1, n - 1)
    BY DEF EntryRemoved
  <2>3. ents' \in Seq(Entry) /\ Len(ents') = n - 1
    BY <1>2, <1>3, <2>2, FrontType
  <2>4. \A e \in 1..(n - 1) : ents'[e] = ents[e]
    <3>1. \A e \in 1..(n - 1 - 1 + 1) : SubSeq(ents, 1, n - 1)[e] = ents[1 + e - 1]
      BY <1>2, <2>1, SubSeqProperties
    <3> HIDE DEF n
    <3> QED
      BY <1>2, <2>2, <3>1
  <2> QED
    BY <2>3, <2>4, LenProperties
<1>8. ASSUME NEW o \in Key \cup Val
      PROVE  refs'[o] = Cardinality(StoredAt(o)')
  <2>1. IsFiniteSet(StoredAt(o))
    BY <1>3, StoredFinite
  <2>2. refs[o] = Cardinality(StoredAt(o))
    BY <1>8 DEF RefInv, RefBalance, StoredAt
  <2>3. StoredAt(o)' = StoredAt(o) \ {n}
    BY <1>2, <1>4, <1>7 DEF StoredAt
  <2>4. CASE o \in {call.key, call.val}
    <3>1. n \in StoredAt(o)
      BY <1>2, <1>4, <1>5, <2>4 DEF StoredAt
    <3>2. refs'[o] = refs[o] - 1
      BY <1>3, <1>6, <2>4 DEF EntryRemoved
    <3> QED
      BY <2>1, <2>2, <2>3, <3>1, <3>2, CardRemove
  <2>5. CASE o \notin {call.key, call.val}
    <3>1. n \notin StoredAt(o)
      BY <1>5, <2>5 DEF StoredAt
    <3>2. refs'[o] = refs[o]
      BY <1>3, <1>6, <1>8, <2>5 DEF EntryRemoved
    <3>3. StoredAt(o)' = StoredAt(o)
      BY <2>3, <3>1
    <3> QED
      BY <2>2, <3>2, <3>3
  <2> QED
    BY <2>4, <2>5
<1> QED
  BY <1>8 DEF RefBalance, StoredAt

\* A replacement moves a reference from the old value to the new one, which
\* may be the same.
LEMMA ReplacedRefs ==
  ASSUME IInv, RefBalance, Replace
  PROVE  RefBalance'
<1> DEFINE e == res.ei + 1
           v == call.val
           w == ents[e].val
<1>1. ents \in Seq(Entry) /\ refs \in [Key \cup Val -> Int] /\ TypeOK
  BY DEF IInv, TypeOK, EntsType, Entry
<1>2. Len(ents) \in Nat /\ DOMAIN ents = 1..Len(ents)
  BY <1>1, LenType
<1>3. e \in DOMAIN ents
  BY <1>2 DEF Replace, IInv, SearchOK
<1>4. v \in Val
  BY DEF Replace, Searching, IInv, ControlOK
<1>5. w \in Val /\ ents[e].key \in Key /\ ents[e] \in Entry
  BY <1>1, <1>2, <1>3, EntryType, ElementOfSeq
<1>6. \A k \in Key : k # v /\ k # w
  BY <1>4, <1>5, ObjectAssumption
<1>7. /\ refs' = [[refs EXCEPT ![v] = @ + 1] EXCEPT ![w] = @ - 1]
      /\ ents' = [ents EXCEPT ![e].val = v]
  BY DEF Replace
<1>8. /\ DOMAIN ents' = DOMAIN ents
      /\ ents'[e].key = ents[e].key /\ ents'[e].val = v
      /\ \A d \in DOMAIN ents : d # e => ents'[d] = ents[d]
  BY <1>3, <1>5, <1>7 DEF Entry
<1> HIDE DEF e, v, w
<1>9. ASSUME NEW o \in Key \cup Val
      PROVE  refs'[o] = Cardinality(StoredAt(o)')
  <2>1. IsFiniteSet(StoredAt(o)) /\ Cardinality(StoredAt(o)) \in Nat
    BY <1>1, StoredFinite
  <2>2. refs[o] = Cardinality(StoredAt(o))
    BY <1>9 DEF RefBalance, StoredAt
  <2>3. CASE v = w \/ o \notin {v, w}
    <3>1. StoredAt(o)' = StoredAt(o)
      BY <1>3, <1>8, <2>3 DEF StoredAt, w
    <3>2. refs'[o] = refs[o]
      BY <1>1, <1>4, <1>5, <1>7, <1>9, <2>3
    <3> QED
      BY <2>2, <3>1, <3>2
  <2>4. CASE v # w /\ o = v
    <3>1. StoredAt(o)' = StoredAt(o) \cup {e} /\ e \notin StoredAt(o)
      BY <1>3, <1>5, <1>6, <1>8, <2>4 DEF StoredAt, w
    <3>2. refs'[o] = refs[o] + 1
      BY <1>1, <1>4, <1>5, <1>7, <2>4
    <3> QED
      BY <2>1, <2>2, <3>1, <3>2, CardAdd
  <2>5. CASE v # w /\ o = w
    <3>1. StoredAt(o)' = StoredAt(o) \ {e} /\ e \in StoredAt(o)
      BY <1>3, <1>5, <1>6, <1>8, <2>5 DEF StoredAt, w
    <3>2. refs'[o] = refs[o] - 1
      BY <1>1, <1>4, <1>5, <1>7, <2>5
    <3> QED
      BY <2>1, <2>2, <3>1, <3>2, CardRemove
  <2> QED
    BY <2>3, <2>4, <2>5
<1> QED
  BY <1>9 DEF RefBalance, StoredAt

\* The deletion gives back all references.
LEMMA DeletedRefs ==
  ASSUME IInv, RefBalance, Del
  PROVE  RefBalance'
<1>1. \A o \in Key \cup Val : refs[o] = Cardinality(StoredAt(o))
  BY DEF RefBalance, StoredAt
<1>2. \A o \in Key \cup Val : refs'[o] = refs[o] - Cardinality(StoredAt(o))
  BY DEF Del, StoredAt
<1>3. \A o \in Key \cup Val : Cardinality(StoredAt(o)) \in Nat
  BY StoredFinite DEF IInv
<1>4. \A o : StoredAt(o)' = {}
  BY EmptySeq DEF Del, StoredAt
<1>5. \A o \in Key \cup Val : refs'[o] = Cardinality(StoredAt(o)')
  BY <1>1, <1>2, <1>3, <1>4, FS_EmptySet
<1> QED
  BY <1>5 DEF RefBalance, StoredAt
\* Every step keeps the counts exact.
LEMMA RefStep ==
  ASSUME IInv, IInv', RefInv, [Next]_vars
  PROVE  RefInv'
<1>1. ASSUME NEW k \in Key, NEW h \in HashVal, Get(k, h)
     PROVE  RefInv'
  BY <1>1, SameRefs DEF Get, data, IInv, ControlOK
<1>2. ASSUME NEW k \in Key, NEW h \in HashVal, NEW x \in Val, Set(k, h, x)
     PROVE  RefInv'
  BY <1>2, SameRefs DEF Set, data, IInv, ControlOK
<1>3. ASSUME NEW k \in Key, NEW fn \in {"get", "set"}, HashFails(fn, k)
     PROVE  RefInv'
  BY <1>3, SameRefs DEF HashFails, data, IInv, ControlOK
<1>4. CASE Del
  BY <1>4, DeletedRefs DEF Del, RefInv, LastIsCalls, IInv, ControlOK
<1>5. CASE ResizeEnough
  BY <1>5, SameRefs DEF ResizeEnough, data, local
<1>6. CASE Resize
  BY <1>6, SameRefs DEF Resize, data
<1>7. CASE RehashNext
  BY <1>7, SameRefs DEF RehashNext, data, local
<1>8. CASE RehashPlace
  BY <1>8, SameRefs DEF RehashPlace, data
<1>9. CASE RehashTwice
  BY <1>9, SameRefs DEF RehashTwice, Stop, data, local
<1>10. CASE RehashEnd
  BY <1>10, SameRefs DEF RehashEnd, data, local
<1>11. CASE ProbeEmpty
  BY <1>11, SameRefs DEF ProbeEmpty, Found, data, local
<1>12. CASE ProbeMatch
  BY <1>12, SameRefs DEF ProbeMatch, Found, data, local
<1>13. CASE ProbeEqFails
  BY <1>13, SameRefs DEF ProbeEqFails, NotFound, data, local
<1>14. CASE ProbeNext
  BY <1>14, SameRefs DEF ProbeNext, data, local
<1>15. CASE ProbeExhausted
  BY <1>15, SameRefs DEF ProbeExhausted, NotFound, data, local
<1>16. CASE ProbeWild
  BY <1>16, SameRefs DEF ProbeWild, Stop, data, local
<1>17. CASE GetReturns
  BY <1>17, SameRefs DEF GetReturns, Return, data
<1>18. CASE Replace
  BY <1>18, ReplacedRefs DEF Replace, Return, RefInv, LastIsCalls
<1>19. CASE SetFindFails
  BY <1>19, SameRefs DEF SetFindFails, Return, data
<1>20. CASE InsertNoMemory
  BY <1>20, SameRefs DEF InsertNoMemory, Return, data
<1>21. CASE InsertOverrun
  BY <1>21, SameRefs DEF InsertOverrun, Stop, data, local
<1>22. CASE Insert
  BY <1>22, AddedRefs DEF Insert, Return, RefInv, LastIsCalls
<1>23. CASE InsertGrows
  BY <1>23, AddedRefs DEF InsertGrows, RefInv, LastIsCalls
<1>24. CASE AgainPlace
  BY <1>24, SameRefs DEF AgainPlace, Return, data
<1>25. CASE AgainElsewhere
  BY <1>25, SameRefs DEF AgainElsewhere, Stop, data, local
<1>26. CASE AgainFails
  BY <1>26, RemovedRefs DEF AgainFails, Searching, IInv, ControlOK, Return,
     RefInv, LastIsCalls
<1>27. CASE FirstResizeFails
  BY <1>27, SameRefs DEF FirstResizeFails, Return, data
<1>28. CASE GrowResizeFails
  BY <1>28, RemovedRefs DEF GrowResizeFails, Return, RefInv, LastIsCalls
<1>29. CASE UNCHANGED vars
  BY <1>29, SameRefs DEF vars, data, local
<1> QED
  BY <1>1, <1>2, <1>3, <1>4, <1>5, <1>6, <1>7, <1>8, <1>9, <1>10, <1>11, <1>12,
     <1>13, <1>14, <1>15, <1>16, <1>17, <1>18, <1>19, <1>20, <1>21, <1>22,
     <1>23, <1>24, <1>25, <1>26, <1>27, <1>28, <1>29, HashType DEF Next, Call,
     Step

\* The dictionary holds exactly one reference for each place it stores an
\* object in (RefBalance), at every step of every call: inserts taken back
\* for want of memory or after a failed search, replacements by the same
\* value, and the deletion.
THEOREM RefsBalance == Spec => []RefBalance
<1>1. Init => RefInv
  <2>1. Init => \A o \in Key \cup Val : refs[o] = 0 /\ StoredAt(o) = {}
    BY EmptySeq DEF Init, StoredAt
  <2>2. Init => RefBalance
    BY <2>1, FS_EmptySet DEF RefBalance, StoredAt
  <2> QED
    BY <2>2 DEF Init, RefInv, LastIsCalls
<1>2. IInv /\ IInv' /\ RefInv /\ [Next]_vars => RefInv'
  BY RefStep
<1>3. RefInv => RefBalance
  BY DEF RefInv
<1> QED
  BY <1>1, <1>2, <1>3, Invariance, PTL DEF Spec

(***************************************************************************)
(* Probes by triangular numbers, in an array of an odd prime length p: the *)
(* first (p + 1) / 2 of them meet different buckets, and number p - 1 is   *)
(* the first to be back at the first bucket.                               *)
(***************************************************************************)

\* Quotient and remainder.
LEMMA Division ==
  ASSUME NEW x \in Nat, NEW p \in Nat \ {0}
  PROVE  /\ x \div p \in Nat /\ x % p \in 0..(p - 1)
         /\ x = p * (x \div p) + (x % p)
OBVIOUS

\* What is less than the divisor is the remainder.
LEMMA RemainderIs ==
  ASSUME NEW p \in Nat \ {0}, NEW q \in Nat, NEW r \in 0..(p - 1)
  PROVE  (p * q + r) % p = r
OBVIOUS

\* The only multiple of p between -p and p.
LEMMA Multiples ==
  ASSUME NEW p \in Nat \ {0}, NEW k \in Int, p * k > -p, p * k < p
  PROVE  k = 0
OBVIOUS

\* A remainder may be taken before an addition.
LEMMA RemainderAdds ==
  ASSUME NEW x \in Nat, NEW y \in Nat, NEW p \in Nat \ {0}
  PROVE  ((x % p) + y) % p = (x + y) % p
<1> DEFINE q == x \div p
           r == x % p
           d == (r + y) \div p
           e == (r + y) % p
<1>1. q \in Nat /\ r \in 0..(p - 1) /\ x = p * q + r
  BY Division
<1> HIDE DEF q, r
<1>2. d \in Nat /\ e \in 0..(p - 1) /\ r + y = p * d + e
  <2>1. r + y \in Nat
    BY <1>1
  <2> QED
    BY <2>1, Division
<1> HIDE DEF d, e
<1>3. x + y = p * (q + d) + e
  BY <1>1, <1>2
<1>4. q + d \in Nat
  BY <1>1, <1>2
<1> DEFINE c == q + d
<1> HIDE DEF c
<1>5. (p * c + e) % p = e
  BY <1>2, <1>4, RemainderIs DEF c
<1> QED
  BY <1>3, <1>5 DEF c, e, r

\* Numbers of one remainder are a multiple apart.
LEMMA SameRemainder ==
  ASSUME NEW x \in Nat, NEW y \in Nat, NEW p \in Nat \ {0}, x <= y, x % p = y % p
  PROVE  \E k \in Nat : y - x = p * k
<1>1. /\ x \div p \in Nat /\ x % p \in 0..(p - 1) /\ x = p * (x \div p) + (x % p)
      /\ y \div p \in Nat /\ y % p \in 0..(p - 1) /\ y = p * (y \div p) + (y % p)
  BY Division
<1> DEFINE a == x \div p
           b == y \div p
           r == x % p
<1>2. a \in Nat /\ b \in Nat /\ r \in 0..(p - 1) /\ x = p * a + r /\ y = p * b + r
  BY <1>1
<1> HIDE DEF a, b, r
<1>3. y - x = p * (b - a)
  BY <1>2
<1>4. b - a >= 0
  BY <1>2, <1>3
<1> QED
  BY <1>2, <1>3, <1>4

\* Laws of products.
LEMMA Products ==
  ASSUME NEW a \in Int, NEW b \in Int, NEW c \in Int, NEW d \in Int
  PROVE  (a * b) * c = b * (a * c) /\ (a * b + d) * c = (a * b) * c + d * c /\ a * (b - c) = a * b - a * c
         /\ a * b = b * a
OBVIOUS

\* Euclid: a prime divides no product of smaller numbers.
LEMMA Euclid ==
  ASSUME NEW p, OddPrime(p), NEW a \in 1..(p - 1), NEW b \in 1..(p - 1), NEW k \in Nat
  PROVE  a * b # p * k
<1> DEFINE S == {x \in 1..(p - 1) : \E j \in Nat : x * b = p * j}
<1>1. p \in Nat /\ p > 2 /\ \A d \in 2..(p - 1) : p % d # 0
  BY DEF OddPrime
<1>2. SUFFICES ASSUME a * b = p * k PROVE FALSE
  OBVIOUS
<1>3. S \in SUBSET Nat /\ a \in S
  BY <1>1, <1>2
<1>4. PICK x \in S : \A y \in S : x <= y
  BY <1>3, LeastNat
<1>5. PICK j \in Nat : x * b = p * j
  BY <1>4
<1>6. x \in 1..(p - 1)
  BY <1>4
<1>7. x # 1
  <2>1. SUFFICES ASSUME b = p * j PROVE FALSE
    BY <1>1, <1>5
  <2>2. j = 0
    BY <1>1, <2>1, Multiples
  <2> QED
    BY <2>1, <2>2, <1>1
<1> DEFINE q == p \div x
           r == p % x
<1>8. q \in Nat /\ r \in 0..(x - 1) /\ p = x * q + r
  <2>1. p \in Nat /\ x \in Nat \ {0}
    BY <1>1, <1>6
  <2> QED
    BY <2>1, Division
<1>9. r # 0
  BY <1>1, <1>6, <1>7
<1> HIDE DEF q, r
<1>10. r * b = p * (b - q * j)
  <2>1. p * b = (x * q) * b + r * b
    BY <1>1, <1>6, <1>8, Products
  <2>2. (x * q) * b = q * (x * b)
    BY <1>6, <1>8, Products
  <2>3. q * (p * j) = p * (q * j)
    BY <1>1, <1>5, <1>8
  <2>4. p * (b - q * j) = p * b - p * (q * j)
    BY <1>1, <1>5, <1>8
  <2> QED
    BY <1>1, <1>5, <1>6, <1>8, <2>1, <2>2, <2>3, <2>4
<1>11. b - q * j \in Nat
  <2> DEFINE m == b - q * j
  <2>1. m \in Int
    BY <1>5, <1>8
  <2>2. r * b > 0
    BY <1>8, <1>9
  <2>3. p * m > 0
    BY <1>10, <2>2
  <2> HIDE DEF m
  <2>4. m > 0
    BY <1>1, <2>1, <2>3
  <2> QED
    BY <2>1, <2>4 DEF m
<1>12. r \in S
  BY <1>6, <1>8, <1>9, <1>10, <1>11
<1> QED
  BY <1>4, <1>6, <1>8, <1>12

\* Probed, for an array of p buckets.
At(p, h, t) == (h + (t * (t + 1)) \div 2) % p

\* t (t + 1) is even.
LEMMA Halves ==
  ASSUME NEW t \in Nat
  PROVE  /\ (t * (t + 1)) \div 2 \in Nat /\ 2 * ((t * (t + 1)) \div 2) = t * (t + 1)
         /\ ((t + 1) * (t + 2)) \div 2 = (t * (t + 1)) \div 2 + t + 1
<1>1. PICK m \in Nat : t = 2 * m \/ t = 2 * m + 1
  <2>1. t \div 2 \in Nat /\ (t = 2 * (t \div 2) \/ t = 2 * (t \div 2) + 1)
    OBVIOUS
  <2> QED
    BY <2>1
<1> DEFINE e == t * (t + 1)
<1>2. \E d \in Nat : e = 2 * d
  <2>1. CASE t = 2 * m
    <3>1. e = 2 * (m * (t + 1)) /\ m * (t + 1) \in Nat
      BY <2>1
    <3> QED
      BY <3>1
  <2>2. CASE t = 2 * m + 1
    <3>1. e = 2 * (t * (m + 1)) /\ t * (m + 1) \in Nat
      BY <2>2
    <3> QED
      BY <3>1
  <2> QED
    BY <1>1, <2>1, <2>2
<1>3. (t + 1) * (t + 2) = e + 2 * (t + 1)
  OBVIOUS
<1> HIDE DEF e
<1>4. e \div 2 \in Nat /\ 2 * (e \div 2) = e /\ (e + 2 * (t + 1)) \div 2 = e \div 2 + t + 1
  BY <1>2
<1> QED
  BY <1>3, <1>4 DEF e

\* The first probe, and the next.
LEMMA AtStep ==
  ASSUME NEW p \in Nat \ {0}, NEW h \in Nat, NEW t \in Nat
  PROVE  /\ At(p, h, t) \in 0..(p - 1) /\ At(p, h, 0) = h % p
         /\ (At(p, h, t) + t + 1) % p = At(p, h, t + 1)
<1> DEFINE u == (t * (t + 1)) \div 2
           v == ((t + 1) * (t + 2)) \div 2
<1>1. u \in Nat /\ v = u + t + 1
  BY Halves
<1>2. At(p, h, t) = (h + u) % p /\ At(p, h, t + 1) = (h + v) % p
  BY DEF At
<1>3. At(p, h, 0) = h % p
  BY DEF At
<1> HIDE DEF u, v
<1>4. (h + u) % p \in 0..(p - 1)
  BY <1>1
<1>5. (((h + u) % p) + (t + 1)) % p = ((h + u) + (t + 1)) % p
  <2> DEFINE x == h + u
             y == t + 1
  <2>1. x \in Nat /\ y \in Nat
    BY <1>1
  <2> HIDE DEF x, y
  <2>2. ((x % p) + y) % p = (x + y) % p
    BY <2>1, RemainderAdds
  <2> QED
    BY <2>2 DEF x, y
<1>6. (h + u) + (t + 1) = h + v /\ ((h + u) % p) + (t + 1) = ((h + u) % p) + t + 1
  BY <1>1, <1>4
<1> QED
  BY <1>2, <1>3, <1>4, <1>5, <1>6

\* Two probes meet where the product of their distance and their sum is a multiple of p.
LEMMA Meet ==
  ASSUME NEW p \in Nat \ {0}, NEW h \in Nat, NEW s \in Nat, NEW t \in Nat, s <= t,
         At(p, h, s) = At(p, h, t)
  PROVE  \E k \in Nat : (t - s) * (t + s + 1) = p * k
<1> DEFINE u == (s * (s + 1)) \div 2
           v == (t * (t + 1)) \div 2
<1>1. u \in Nat /\ v \in Nat /\ 2 * u = s * (s + 1) /\ 2 * v = t * (t + 1)
  BY Halves
<1>2. At(p, h, s) = (h + u) % p /\ At(p, h, t) = (h + v) % p
  BY DEF At
<1> HIDE DEF u, v
<1>3. (t - s) * (t + s + 1) = 2 * v - 2 * u /\ (t - s) * (t + s + 1) >= 0
  BY <1>1
<1>4. h + u \in Nat /\ h + v \in Nat /\ h + u <= h + v
  BY <1>1, <1>3
<1>5. PICK k \in Nat : (h + v) - (h + u) = p * k
  <2> DEFINE x == h + u
             y == h + v
  <2>1. x \in Nat /\ y \in Nat /\ x <= y /\ x % p = y % p
    BY <1>2, <1>4
  <2> HIDE DEF x, y
  <2>2. \E k \in Nat : y - x = p * k
    BY <2>1, SameRemainder
  <2> QED
    BY <2>2 DEF x, y
<1>6. 2 * v - 2 * u = p * (2 * k)
  BY <1>1, <1>5
<1>7. 2 * k \in Nat /\ (t - s) * (t + s + 1) = p * (2 * k)
  BY <1>3, <1>6
<1> HIDE DEF At
<1> QED
  BY <1>7, Zenon

\* The first half of the probes meets no bucket twice.
LEMMA AtDistinct ==
  ASSUME NEW p, OddPrime(p), NEW h \in Nat, NEW s \in Nat, NEW t \in Nat, s < t, 2 * t < p
  PROVE  At(p, h, s) # At(p, h, t)
<1>1. p \in Nat \ {0} /\ p > 2
  BY DEF OddPrime
<1>2. SUFFICES ASSUME At(p, h, s) = At(p, h, t) PROVE FALSE
  OBVIOUS
<1>3. PICK k \in Nat : (t - s) * (t + s + 1) = p * k
  BY <1>1, <1>2, Meet
<1>4. t - s \in 1..(p - 1) /\ t + s + 1 \in 1..(p - 1)
  BY <1>1
<1> QED
  BY <1>3, <1>4, Euclid

\* The probes are back at the first one after p - 1 of them, and not before.
LEMMA AtReturns ==
  ASSUME NEW p, OddPrime(p), NEW h \in Nat, NEW t \in 1..(p - 1)
  PROVE  At(p, h, t) = h % p <=> t = p - 1
<1>1. p \in Nat \ {0} /\ p > 2 /\ p % 2 # 0
  BY DEF OddPrime
<1>2. ASSUME At(p, h, t) = h % p, t # p - 1 PROVE FALSE
  <2>1. At(p, h, 0) = At(p, h, t)
    BY <1>1, <1>2, AtStep
  <2> DEFINE o == 0
  <2>2. o \in Nat /\ o <= t /\ t \in Nat /\ At(p, h, o) = At(p, h, t)
    BY <2>1
  <2>3. PICK k \in Nat : (t - o) * (t + o + 1) = p * k
    <3> HIDE DEF o
    <3> QED
      BY <1>1, <2>2, Meet, Zenon
  <2>4. t - o = t /\ t + o + 1 = t + 1 /\ t + 1 \in 1..(p - 1)
    BY <1>1, <1>2
  <2>5. t * (t + 1) = p * k
    BY <2>3, <2>4
  <2> QED
    BY <2>4, <2>5, Euclid
<1>3. ASSUME t = p - 1 PROVE At(p, h, t) = h % p
  <2>1. PICK m \in Nat : p = 2 * m + 1
    <3>1. p \div 2 \in Nat /\ p = 2 * (p \div 2) + 1
      BY <1>1
    <3> QED
      BY <3>1
  <2>2. t * (t + 1) = 2 * (p * m)
    BY <1>1, <1>3, <2>1
  <2>3. p * m \in Nat
    BY <1>1, <2>1
  <2> DEFINE c == p * m
  <2>4. (t * (t + 1)) \div 2 = c
    <3> HIDE DEF c
    <3>1. \A x : x = 2 * c => x \div 2 = c
      BY <2>3 DEF c
    <3> QED
      BY <2>2, <3>1 DEF c
  <2>5. At(p, h, t) = (h + p * m) % p
    BY <2>4 DEF At
  <2>6. ((h % p) + p * m) % p = (h + p * m) % p
    BY <1>1, <2>3, RemainderAdds
  <2>7. h % p \in 0..(p - 1) /\ (h % p) + p * m = p * m + (h % p)
    BY <1>1, <2>3
  <2>8. (p * m + (h % p)) % p = h % p
    BY <1>1, <2>1, <2>7, RemainderIs
  <2> QED
    BY <2>5, <2>6, <2>7, <2>8
<1> QED
  BY <1>2, <1>3

(***************************************************************************)
(* The buckets of a table whose elements are one byte.                     *)
(***************************************************************************)

\* A search for hash h in the p buckets B gets to entry e.
OnWay(B, p, h, e) ==
  \E t \in 0..(p - 2) : B[At(p, h, t)] = e - 1 /\ \A s \in 0..(t - 1) : B[At(p, h, s)] # 254

\* The buckets B hold each of the first m entries of es once, where a search
\* for its hash gets to it, and nothing else.
Filled(B, p, es, m) ==
  /\ \A b \in 0..(p - 1) : B[b] \in 0..(m - 1) \/ B[b] = 254
  /\ \A b, c \in 0..(p - 1) : B[b] = B[c] => B[b] = 254 \/ b = c
  /\ \A e \in 1..m : OnWay(B, p, es[e].hash, e)

\* t probes for key k have met entries of other keys.
Walked(B, p, es, k, h, t) ==
  \A s \in 0..(t - 1) : B[At(p, h, s)] # 254 /\ es[B[At(p, h, s)] + 1].key # k

\* Probe t is the first of hash h to meet an empty bucket.
Open(B, p, h, t) == B[At(p, h, t)] = 254 /\ \A s \in 0..(t - 1) : B[At(p, h, s)] # 254

\* After t probes a search is over: at an empty bucket, or back at its first.
Ended(B, p, h, t) == t = p - 1 \/ B[At(p, h, t)] = 254

\* None of the first m entries has key k, and hash h.
Absent(es, m, h, k) == \A e \in 1..m : es[e].hash = h => es[e].key # k

\* A search that ends without meeting the key has missed no entry of it.
LEMMA NotThere ==
  ASSUME NEW B, NEW p \in Nat, NEW es, NEW m \in 0..254, Filled(B, p, es, m),
         NEW k, NEW h, NEW t \in 0..(p - 1), Walked(B, p, es, k, h, t), Ended(B, p, h, t)
  PROVE  Absent(es, m, h, k)
<1> SUFFICES ASSUME NEW e \in 1..m, es[e].hash = h
             PROVE  es[e].key # k
  BY DEF Absent
<1>1. OnWay(B, p, h, e)
  BY DEF Filled
<1>2. PICK u \in 0..(p - 2) : B[At(p, h, u)] = e - 1 /\ \A s \in 0..(u - 1) : B[At(p, h, s)] # 254
  BY <1>1 DEF OnWay
<1>3. CASE u < t
  <2>1. u \in 0..(t - 1) /\ e - 1 + 1 = e
    BY <1>3
  <2>2. es[B[At(p, h, u)] + 1].key # k
    BY <2>1 DEF Walked
  <2> QED
    BY <1>2, <2>1, <2>2
<1>4. CASE u >= t
  <2>1. t # p - 1 /\ B[At(p, h, t)] = 254
    BY <1>4 DEF Ended
  <2>2. u = t
    <3>1. CASE u > t
      <4>1. t \in 0..(u - 1)
        BY <3>1
      <4> QED
        BY <1>2, <2>1, <4>1
    <3> QED
      BY <1>4, <3>1
  <2>3. e - 1 # 254
    OBVIOUS
  <2> QED
    BY <1>2, <2>1, <2>2, <2>3
<1> QED
  BY <1>3, <1>4

\* A probe looks at a bucket of the array.
LEMMA AtType ==
  ASSUME NEW p \in Nat \ {0}
  PROVE  \A h \in Nat : \A t \in Nat : At(p, h, t) \in 0..(p - 1)
<1>1. ASSUME NEW h \in Nat, NEW t \in Nat
      PROVE  At(p, h, t) \in 0..(p - 1)
  BY AtStep
<1> QED
  BY <1>1, Zenon

\* The buckets C are B with v written to bucket x.
Written(B, C, p, x, v) == C[x] = v /\ \A b \in 0..(p - 1) : b # x => C[b] = B[b]

\* fs goes on after the first m entries of es with one of hash h.
MoreEntries(es, fs, m, h) ==
  fs[m + 1].hash = h /\ \A e \in 1..m : fs[e].hash = es[e].hash /\ es[e].hash \in Nat

\* An index written to the bucket where the search for its entry ended is
\* found there, and hides no other entry: chains only grow.
LEMMA Placing ==
  ASSUME NEW B, NEW p \in Nat \ {0}, NEW es, NEW m \in 0..253, Filled(B, p, es, m),
         NEW h \in Nat, NEW t \in 0..(p - 2), Open(B, p, h, t),
         NEW C, Written(B, C, p, At(p, h, t), m), NEW fs, MoreEntries(es, fs, m, h)
  PROVE  Filled(C, p, fs, m + 1)
<1>13. fs[m + 1].hash = h /\ \A e \in 1..m : fs[e].hash = es[e].hash /\ es[e].hash \in Nat
  BY DEF MoreEntries
<1> DEFINE x == At(p, h, t)
<1>1. \A g \in Nat : \A s \in Nat : At(p, g, s) \in 0..(p - 1)
  BY AtType
<1>2. x \in 0..(p - 1)
  <2>1. t \in Nat /\ h \in Nat
    OBVIOUS
  <2>2. At(p, h, t) \in 0..(p - 1)
    BY <1>1, <2>1
  <2> QED
    BY <2>2
<1>3. /\ \A b \in 0..(p - 1) : B[b] \in 0..(m - 1) \/ B[b] = 254
      /\ \A b, c \in 0..(p - 1) : B[b] = B[c] => B[b] = 254 \/ b = c
      /\ \A e \in 1..m : OnWay(B, p, es[e].hash, e)
  BY DEF Filled
<1>4. B[x] = 254 /\ C[x] = m /\ \A b \in 0..(p - 1) : b # x => C[b] = B[b]
  BY DEF Open, Written
<1>5. \A s \in 0..(t - 1) : B[At(p, h, s)] # 254
  BY DEF Open
<1> HIDE DEF x
<1>6. \A b \in 0..(p - 1) : C[b] \in 0..(m + 1 - 1) \/ C[b] = 254
  BY <1>3, <1>4
<1>7. ASSUME NEW b \in 0..(p - 1), NEW c \in 0..(p - 1), C[b] = C[c]
      PROVE  C[b] = 254 \/ b = c
  BY <1>3, <1>4, <1>7
<1>8. \A b \in 0..(p - 1) : B[b] # 254 => C[b] # 254
  BY <1>3, <1>4
<1>9. ASSUME NEW e \in 1..m
      PROVE  OnWay(C, p, fs[e].hash, e)
  <2> DEFINE g == es[e].hash
  <2>1. g \in Nat /\ fs[e].hash = g
    BY <1>13
  <2>2. OnWay(B, p, g, e)
    BY <1>3
  <2> HIDE DEF g
  <2>3. PICK u \in 0..(p - 2) : B[At(p, g, u)] = e - 1 /\ \A s \in 0..(u - 1) : B[At(p, g, s)] # 254
    BY <2>2 DEF OnWay
  <2>4. At(p, g, u) \in 0..(p - 1) /\ \A s \in 0..(u - 1) : At(p, g, s) \in 0..(p - 1)
    <3>1. u \in Nat /\ g \in Nat
      BY <2>1
    <3>2. At(p, g, u) \in 0..(p - 1)
      BY <1>1, <3>1
    <3>3. ASSUME NEW s \in 0..(u - 1)
          PROVE  At(p, g, s) \in 0..(p - 1)
      <4>1. s \in Nat
        OBVIOUS
      <4> QED
        BY <1>1, <3>1, <4>1
    <3> QED
      BY <3>2, <3>3
  <2>5. C[At(p, g, u)] = e - 1
    BY <1>4, <2>3, <2>4
  <2>6. \A s \in 0..(u - 1) : C[At(p, g, s)] # 254
    BY <1>8, <2>3, <2>4
  <2> QED
    BY <2>1, <2>5, <2>6 DEF OnWay
<1>10. OnWay(C, p, h, m + 1)
  <2>1. \A s \in 0..(t - 1) : At(p, h, s) \in 0..(p - 1)
    <3>1. \A s \in 0..(t - 1) : s \in Nat
      OBVIOUS
    <3> QED
      BY <1>1, <3>1
  <2>2. \A s \in 0..(t - 1) : C[At(p, h, s)] # 254
    BY <1>5, <1>8, <2>1
  <2>3. C[At(p, h, t)] = m + 1 - 1
    BY <1>4 DEF x
  <2> QED
    BY <2>2, <2>3 DEF OnWay
<1>11. ASSUME NEW e \in 1..(m + 1)
       PROVE  OnWay(C, p, fs[e].hash, e)
  <2>1. e \in 1..m \/ e = m + 1
    OBVIOUS
  <2> QED
    BY <1>9, <1>10, <1>13, <2>1
<1> QED
  BY <1>6, <1>7, <1>11 DEF Filled

\* A search that meets no empty bucket has met (p + 1) / 2 different entries.
LEMMA Pigeons ==
  ASSUME NEW B, NEW p, OddPrime(p), NEW es, NEW m \in Nat, Filled(B, p, es, m), NEW h \in Nat,
         \A s \in 0..(p - 2) : B[At(p, h, s)] # 254
  PROVE  p + 1 <= 2 * m
<1> DEFINE q == (p - 1) \div 2
           S == 0..q
           T == 0..(m - 1)
           f == [s \in S |-> B[At(p, h, s)]]
<1>1. p \in Nat \ {0} /\ p > 2 /\ p % 2 # 0
  BY DEF OddPrime
<1>2. q \in Nat /\ 2 * q + 1 = p /\ q <= p - 2
  BY <1>1
<1> HIDE DEF q
<1>3. ASSUME NEW s \in S
      PROVE  f[s] = B[At(p, h, s)] /\ f[s] \in T /\ At(p, h, s) \in 0..(p - 1) /\ f[s] # 254
  <2>1. s \in 0..(p - 2) /\ s \in Nat
    BY <1>2
  <2>2. At(p, h, s) \in 0..(p - 1)
    BY <1>1, <2>1, AtStep
  <2>3. B[At(p, h, s)] # 254
    BY <2>1
  <2>4. B[At(p, h, s)] \in T
    BY <2>2, <2>3 DEF Filled
  <2> QED
    BY <2>2, <2>3, <2>4
<1>4. f \in [S -> T]
  BY <1>3
<1>5. IsFiniteSet(S) /\ Cardinality(S) = q + 1 /\ IsFiniteSet(T) /\ Cardinality(T) = m
  <2>1. IsFiniteSet(S) /\ Cardinality(S) = q + 1
    <3>1. 0 \in Int /\ q \in Int /\ 0 <= q /\ q - 0 + 1 = q + 1
      BY <1>2
    <3> QED
      BY <3>1, FS_Interval
  <2>2. IsFiniteSet(T) /\ Cardinality(T) = m
    <3> DEFINE n == m - 1
    <3>1. 0 \in Int /\ n \in Int /\ (IF 0 > n THEN 0 ELSE n - 0 + 1) = m
      OBVIOUS
    <3> HIDE DEF n
    <3>2. IsFiniteSet(0..n) /\ Cardinality(0..n) = IF 0 > n THEN 0 ELSE n - 0 + 1
      BY <3>1, FS_Interval
    <3> QED
      BY <3>1, <3>2 DEF n
  <2> QED
    BY <2>1, <2>2
<1>6. ASSUME NEW x \in S, NEW y \in S, x # y
      PROVE  f[x] # f[y]
  <2> SUFFICES ASSUME f[x] = f[y] PROVE FALSE
    OBVIOUS
  <2>1. At(p, h, x) = At(p, h, y)
    <3> HIDE DEF S, f, T
    <3>1. /\ f[x] = B[At(p, h, x)] /\ At(p, h, x) \in 0..(p - 1) /\ f[x] # 254
          /\ f[y] = B[At(p, h, y)] /\ At(p, h, y) \in 0..(p - 1)
      BY <1>3
    <3>2. \A b, c \in 0..(p - 1) : B[b] = B[c] => B[b] = 254 \/ b = c
      BY DEF Filled
    <3> DEFINE a == At(p, h, x)
               b == At(p, h, y)
    <3>3. B[a] = B[b] /\ B[a] # 254 /\ a \in 0..(p - 1) /\ b \in 0..(p - 1)
      BY <3>1, Zenon
    <3> HIDE DEF a, b
    <3>4. a = b
      BY <3>2, <3>3, Zenon
    <3> QED
      BY <3>4 DEF a, b
  <2>2. x \in Nat /\ y \in Nat /\ 2 * x < p /\ 2 * y < p /\ (x < y \/ y < x)
    BY <1>2, <1>6
  <2> QED
    BY <2>1, <2>2, AtDistinct
<1> HIDE DEF S, T, f
<1>7. ~(Cardinality(T) < Cardinality(S))
  BY <1>4, <1>5, <1>6, FS_PigeonHole
<1> QED
  BY <1>2, <1>5, <1>7

\* Clearing leaves an array without entries.
LEMMA FilledEmpty ==
  ASSUME NEW len \in 0..253, NEW es
  PROVE  Filled(Cleared(len), len, es, 0)
<1>1. Width(len) = 1
  BY DEF Width
<1>2. Cleared(len) = [o \in 0..(len - 1) |-> 254]
  BY <1>1 DEF Cleared
<1> QED
  BY <1>2 DEF Filled

(***************************************************************************)
(* The inductive invariant of small tables.                                *)
(***************************************************************************)

\* my_resize is putting entries back.
Rehashing == pc = "rehash" \/ (Searching /\ find.user = "rehash")
\* The entries that have their bucket.
Placed == IF Rehashing THEN i ELSE Len(ents)

\* The length is one of L, and was long enough before the last insertion.
LengthOK(L) ==
  /\ buks_len \in L /\ caller # "grow"
  /\ Len(ents) = 0 \/ ~TooFull(buks_len, Len(ents) - 1)
  /\ Searching /\ find.user = "set" => ~TooFull(buks_len, Len(ents))

\* An entry has the hash of its key, and no other entry has this key.
KeysOK ==
  /\ \A e \in DOMAIN ents : ents[e].hash = Hash[ents[e].key]
  /\ \A e, f \in DOMAIN ents : ents[e].key = ents[f].key => e = f

\* What the running search looks for.
CallOK ==
  /\ pc \in {"resize", "rehash"} \/ Searching => call.key \in Key /\ call.hash = Hash[call.key]
  /\ Searching => find.key \in Key /\ find.hash = Hash[find.key]
  /\ Searching /\ find.user \in {"get", "set"} => find.key = call.key
  /\ Rehashing => i <= Len(ents)
  /\ Searching /\ find.user = "rehash" => i < Len(ents) /\ find.key = ents[i + 1].key

\* The buckets are those of the entries placed so far.
TableOK == pc # "overrun" => Filled(buks, buks_len, ents, Placed)

\* Where the search stands, and what its results say.
PathOK ==
  /\ pc \in {"probe", "failed"} => buks_len # 0
  /\ Searching /\ buks_len # 0 =>
       /\ find.tries \in 0..(buks_len - 2)
       /\ find.bi = At(buks_len, find.hash, find.tries)
       /\ Walked(buks, buks_len, ents, find.key, find.hash, find.tries)
  /\ pc = "found" /\ res.ei >= 0 => res.ei < Placed /\ ents[res.ei + 1].key = find.key
  /\ pc = "found" /\ res.ei < 0 /\ buks_len # 0 => res.bi = find.bi /\ buks[find.bi] = 254
  /\ pc = "failed" =>
       /\ find.tries = buks_len - 2 /\ find.user # "rehash"
       /\ Walked(buks, buks_len, ents, find.key, find.hash, buks_len - 1)

\* The inductive invariant of small tables.
TInv(L) == NoStray /\ LengthOK(L) /\ KeysOK /\ CallOK /\ TableOK /\ PathOK

\* What the width of one byte means in a table in order.
LEMMA TableFacts ==
  ASSUME NEW L, Narrow(L, MaxEnts), IInv, TInv(L)
  PROVE  /\ buks_len \in 0..253 /\ (buks_len # 0 => OddPrime(buks_len) /\ buks_len > 2)
         /\ Width(buks_len) = 1 /\ Empty = 254
         /\ buks \in [0..(buks_len - 1) -> 0..255]
         /\ \A b : Bucket(b) = buks[b]
         /\ Len(ents) \in Nat /\ DOMAIN ents = 1..Len(ents) /\ Len(ents) <= MaxEnts
         /\ Len(ents) < buks_len \/ (buks_len = 0 /\ Len(ents) = 0)
         /\ \A e \in 1..Len(ents) : ents[e].key \in Key /\ ents[e].hash \in Nat /\ ents[e].val \in Val
<1>1. buks_len \in 0..253 /\ (buks_len # 0 => OddPrime(buks_len))
  BY DEF TInv, LengthOK, Narrow
<1>2. Width(buks_len) = 1 /\ Empty = 254
  BY <1>1 DEF Width, Empty
<1>3. buks \in [0..(1 * buks_len - 1) -> 0..255] /\ 1 * buks_len = buks_len
  BY <1>1, <1>2 DEF IInv, TypeOK, BuksType
<1>4. \A b : Bucket(b) = buks[b]
  BY <1>2 DEF Bucket
<1>5. Len(ents) \in Nat /\ DOMAIN ents = 1..Len(ents)
  BY LenType DEF IInv
<1>6. \A e \in 1..Len(ents) : ents[e].key \in Key /\ ents[e].hash \in Nat /\ ents[e].val \in Val
  BY <1>5, EntryType DEF IInv
<1>7. buks_len # 0 => buks_len > 2
  BY <1>1 DEF OddPrime
<1> QED
  BY <1>1, <1>2, <1>3, <1>4, <1>5, <1>6, <1>7 DEF IInv, RoomOK

(***************************************************************************)
(* The steps of a small table.                                             *)
(***************************************************************************)

\* A search begins and the table stays.
LEMMA SearchBegins ==
  ASSUME NEW L, Narrow(L, MaxEnts), IInv, TInv(L),
         NEW user \in {"get", "set", "rehash"}, NEW k \in Key, Search(user, k, Hash[k]),
         buks' = buks, buks_len' = buks_len, ents' = ents, i' = i, caller' = caller \/ caller' = "none",
         call'.key \in Key, call'.hash = Hash[call'.key],
         user # "rehash" => k = call'.key /\ Placed = Len(ents),
         user = "rehash" => i < Len(ents) /\ k = ents[i + 1].key /\ Rehashing,
         user = "set" => ~TooFull(buks_len, Len(ents)),
         pc # "overrun"
  PROVE  TInv(L)'
<1> DEFINE h == Hash[k]
<1>1. h \in Nat
  BY HashAssumption
<1>2. /\ find' = [user |-> user, key |-> k, hash |-> h, tries |-> 0, bi |-> IF buks_len = 0 THEN 0 ELSE h % buks_len]
      /\ res' = [bi |-> -1, ei |-> -1] /\ pc' = IF buks_len = 0 THEN "found" ELSE "probe"
  BY DEF Search, NoRes
<1> HIDE DEF h
<1>3. buks_len # 0 => buks_len \in Nat \ {0} /\ buks_len > 2
  <2>1. buks_len \in 0..253 /\ (buks_len # 0 => OddPrime(buks_len) /\ buks_len > 2)
    BY TableFacts
  <2> QED
    BY <2>1
<1>4. Searching' /\ find'.user = user /\ pc' \in {"found", "probe"}
  BY <1>2 DEF Searching
<1>5. NoStray'
  BY <1>4 DEF NoStray
<1>6. LengthOK(L)'
  BY <1>4 DEF TInv, LengthOK
<1>7. KeysOK'
  BY DEF TInv, KeysOK
<1>8. CallOK'
  <2>1. call'.key \in Key /\ call'.hash = Hash[call'.key]
    OBVIOUS
  <2>2. find'.key \in Key /\ find'.hash = Hash[find'.key]
    BY <1>2 DEF h
  <2>3. find'.user \in {"get", "set"} => find'.key = call'.key
    BY <1>2
  <2>4. find'.user = "rehash" => i' < Len(ents') /\ find'.key = ents'[i' + 1].key
    BY <1>2
  <2>5. Rehashing' => i' < Len(ents')
    BY <1>4, <2>4 DEF Rehashing
  <2>6. i' \in Nat /\ Len(ents') \in Nat
    BY LenType DEF IInv, TypeOK, CallType
  <2> QED
    BY <1>4, <2>1, <2>2, <2>3, <2>4, <2>5, <2>6 DEF CallOK
<1>9. TableOK'
  <2>1. Filled(buks, buks_len, ents, Placed)
    BY DEF TInv, TableOK
  <2>2. Placed' = Placed
    BY <1>4 DEF Placed, Rehashing
  <2> QED
    BY <2>1, <2>2 DEF TableOK
<1>10. PathOK'
  <2>1. ASSUME buks_len # 0
        PROVE  /\ find'.tries \in 0..(buks_len - 2) /\ find'.bi = At(buks_len, find'.hash, find'.tries)
               /\ Walked(buks, buks_len, ents, find'.key, find'.hash, find'.tries)
    <3>1. find'.tries = 0 /\ find'.bi = h % buks_len /\ find'.hash = h
      BY <1>2, <2>1
    <3>2. At(buks_len, h, 0) = h % buks_len
      BY <1>1, <1>3, <2>1, AtStep
    <3>3. Walked(buks, buks_len, ents, find'.key, find'.hash, 0)
      BY DEF Walked
    <3> QED
      BY <1>3, <2>1, <3>1, <3>2, <3>3
  <2>2. pc' = "found" => buks_len = 0
    BY <1>2
  <2>3. pc' = "probe" => buks_len # 0
    BY <1>2
  <2>4. res'.ei = -1
    BY <1>2
  <2> QED
    BY <1>4, <2>1, <2>2, <2>3, <2>4 DEF PathOK
<1> QED
  BY <1>5, <1>6, <1>7, <1>8, <1>9, <1>10 DEF TInv

\* A step without a search at its end leaves the table as it is.
LEMMA TableStays ==
  ASSUME NEW L, Narrow(L, MaxEnts), IInv, TInv(L),
         buks' = buks, buks_len' = buks_len, ents' = ents, caller' \in {caller, "none", "first"},
         pc' \in {"idle", "resize", "overrun"}, pc' = "resize" => call'.key \in Key /\ call'.hash = Hash[call'.key],
         pc # "overrun", Placed = Len(ents)
  PROVE  TInv(L)'
<1>1. ~Searching' /\ ~Rehashing'
  BY DEF Searching, Rehashing
<1>2. NoStray' /\ CallOK' /\ PathOK'
  BY <1>1 DEF NoStray, CallOK, PathOK, Searching
<1>3. LengthOK(L)' /\ KeysOK'
  BY <1>1 DEF TInv, LengthOK, KeysOK
<1>4. TableOK'
  BY <1>1 DEF TInv, TableOK, Placed
<1> QED
  BY <1>2, <1>3, <1>4 DEF TInv

\* Where a probe stands, and what it finds there.
LEMMA ProbeFacts ==
  ASSUME NEW L, Narrow(L, MaxEnts), IInv, TInv(L), pc = "probe"
  PROVE  /\ buks_len \in 3..253 /\ OddPrime(buks_len)
         /\ find.hash \in Nat /\ find.tries \in 0..(buks_len - 2) /\ find.bi \in 0..(buks_len - 1)
         /\ find.bi = At(buks_len, find.hash, find.tries)
         /\ Cell = buks[find.bi]
         /\ Cell \in 0..(Placed - 1) \/ Cell = 254
         /\ InEntries <=> Cell # 254
         /\ Placed <= Len(ents) /\ Len(ents) <= 252 /\ Placed \in Nat
         /\ Filled(buks, buks_len, ents, Placed)
         /\ Walked(buks, buks_len, ents, find.key, find.hash, find.tries)
         /\ find.key \in Key /\ find.hash = Hash[find.key] /\ Searching
<1>1. buks_len \in 3..253 /\ OddPrime(buks_len)
  <2>1. buks_len \in 0..253 /\ (buks_len # 0 => OddPrime(buks_len) /\ buks_len > 2)
    BY TableFacts
  <2>2. buks_len # 0
    BY DEF TInv, PathOK
  <2> QED
    BY <2>1, <2>2
<1>2. Searching /\ find.hash \in Nat /\ i \in Nat
  BY DEF Searching, IInv, TypeOK, SearchType, CallType
<1>3. /\ find.tries \in 0..(buks_len - 2) /\ find.bi = At(buks_len, find.hash, find.tries)
      /\ Walked(buks, buks_len, ents, find.key, find.hash, find.tries)
  BY <1>1, <1>2 DEF TInv, PathOK
<1>4. find.bi \in 0..(buks_len - 1)
  <2>1. buks_len \in Nat \ {0} /\ find.tries \in Nat
    BY <1>1, <1>3
  <2> QED
    BY <1>2, <1>3, <2>1, AtStep
<1>5. Filled(buks, buks_len, ents, Placed)
  BY DEF TInv, TableOK
<1>6. Cell = buks[find.bi]
  BY TableFacts DEF Cell
<1>7. Cell \in 0..(Placed - 1) \/ Cell = 254
  BY <1>4, <1>5, <1>6 DEF Filled
<1>8. Len(ents) \in Nat /\ Len(ents) <= 252
  <2>1. Len(ents) \in Nat /\ (Len(ents) < buks_len \/ (buks_len = 0 /\ Len(ents) = 0))
    BY TableFacts
  <2> QED
    BY <1>1, <2>1
<1>9. Placed <= Len(ents) /\ Placed \in Nat
  BY <1>2, <1>8 DEF TInv, CallOK, Placed
<1>10. InEntries <=> Cell # 254
  BY <1>7, <1>8, <1>9 DEF InEntries
<1>11. find.key \in Key /\ find.hash = Hash[find.key]
  BY <1>2 DEF TInv, CallOK
<1> QED
  BY <1>1, <1>2, <1>3, <1>4, <1>5, <1>6, <1>7, <1>8, <1>9, <1>10, <1>11

\* An entry of the hash of the key is the entry of the key.
LEMMA HashTells ==
  ASSUME NEW L, Narrow(L, MaxEnts), Distinct, IInv, TInv(L), pc = "probe", Cell # 254
  PROVE  /\ Cell + 1 \in DOMAIN ents
         /\ SameHash <=> ents[Cell + 1].key = find.key
<1>1. Cell \in 0..(Placed - 1) /\ Placed <= Len(ents) /\ Placed \in Nat /\ InEntries
  BY ProbeFacts
<1>2. Len(ents) \in Nat /\ DOMAIN ents = 1..Len(ents)
  BY LenType DEF IInv
<1>3. Cell + 1 \in DOMAIN ents
  BY <1>1, <1>2
<1>4. ents[Cell + 1].hash = Hash[ents[Cell + 1].key] /\ ents[Cell + 1].key \in Key
  BY <1>3, EntryType DEF TInv, KeysOK, IInv
<1>5. find.key \in Key /\ find.hash = Hash[find.key]
  BY ProbeFacts
<1>6. ents[Cell + 1].hash = find.hash <=> ents[Cell + 1].key = find.key
  BY <1>4, <1>5 DEF Distinct
<1> QED
  BY <1>1, <1>3, <1>6 DEF SameHash

\* A probe of another entry lengthens the walk.
LEMMA WalkedOn ==
  ASSUME NEW B, NEW p, NEW es, NEW k, NEW h, NEW t \in Nat, Walked(B, p, es, k, h, t),
         B[At(p, h, t)] # 254, es[B[At(p, h, t)] + 1].key # k
  PROVE  Walked(B, p, es, k, h, t + 1)
<1>1. ASSUME NEW s \in 0..(t + 1 - 1)
      PROVE  B[At(p, h, s)] # 254 /\ es[B[At(p, h, s)] + 1].key # k
  <2>1. s \in 0..(t - 1) \/ s = t
    OBVIOUS
  <2> QED
    BY <2>1 DEF Walked
<1> QED
  BY <1>1 DEF Walked

\* A probe that goes on has seen another entry.
LEMMA Skips ==
  ASSUME NEW L, Narrow(L, MaxEnts), Distinct, IInv, TInv(L), pc = "probe", Skipped
  PROVE  /\ Walked(buks, buks_len, ents, find.key, find.hash, find.tries + 1)
         /\ NextBi = At(buks_len, find.hash, find.tries + 1)
         /\ NextBi = find.hash % buks_len <=> find.tries + 1 = buks_len - 1
<1>1. /\ buks_len \in 3..253 /\ OddPrime(buks_len)
      /\ find.hash \in Nat /\ find.tries \in 0..(buks_len - 2)
      /\ find.bi = At(buks_len, find.hash, find.tries)
      /\ Cell = buks[find.bi] /\ (Cell \in 0..(Placed - 1) \/ Cell = 254)
      /\ (InEntries <=> Cell # 254) /\ Placed <= Len(ents) /\ Len(ents) <= 252 /\ Placed \in Nat
      /\ Walked(buks, buks_len, ents, find.key, find.hash, find.tries)
  BY ProbeFacts
<1>2. Empty = 254 /\ Len(ents) \in Nat
  BY TableFacts
<1>3. InEntries /\ ~(SameHash /\ SameKey) /\ Cell # 254
  BY <1>1, <1>2 DEF Skipped
<1>4. ents[Cell + 1].key # find.key
  BY <1>3, HashTells DEF SameKey
<1>5. NextBi = At(buks_len, find.hash, find.tries + 1)
  <2> DEFINE p == buks_len
             h == find.hash
             t == find.tries
  <2>1. p \in Nat \ {0} /\ h \in Nat /\ t \in Nat /\ find.bi = At(p, h, t)
    BY <1>1
  <2>2. NextBi = (find.bi + t + 1) % p
    BY DEF NextBi
  <2> HIDE DEF p, h, t
  <2>3. At(p, h, t + 1) = (At(p, h, t) + t + 1) % p
    BY <2>1, AtStep
  <2>4. NextBi = At(p, h, t + 1)
    BY <2>1, <2>2, <2>3
  <2> QED
    BY <2>4 DEF p, h, t
<1>6. NextBi = find.hash % buks_len <=> find.tries + 1 = buks_len - 1
  <2> DEFINE t == find.tries + 1
  <2>1. t \in 1..(buks_len - 1)
    BY <1>1
  <2> HIDE DEF t
  <2>2. At(buks_len, find.hash, t) = find.hash % buks_len <=> t = buks_len - 1
    BY <1>1, <2>1, AtReturns
  <2> QED
    BY <1>5, <2>2 DEF t
<1>7. Walked(buks, buks_len, ents, find.key, find.hash, find.tries + 1)
  <2>1. find.tries \in Nat /\ Walked(buks, buks_len, ents, find.key, find.hash, find.tries)
    BY <1>1
  <2>2. buks[At(buks_len, find.hash, find.tries)] = Cell
    BY <1>1
  <2> QED
    BY <1>3, <1>4, <2>1, <2>2, WalkedOn
<1> QED
  BY <1>5, <1>6, <1>7

\* The steps of my_search.
LEMMA ProbeKeeps ==
  ASSUME NEW L, Narrow(L, MaxEnts), Distinct, IInv, TInv(L), pc = "probe",
         ProbeEmpty \/ ProbeMatch \/ ProbeEqFails \/ ProbeNext \/ ProbeExhausted \/ ProbeWild
  PROVE  TInv(L)'
<1>1. /\ buks_len \in 3..253 /\ OddPrime(buks_len)
      /\ find.hash \in Nat /\ find.tries \in 0..(buks_len - 2)
      /\ find.bi = At(buks_len, find.hash, find.tries)
      /\ Cell = buks[find.bi] /\ (Cell \in 0..(Placed - 1) \/ Cell = 254)
      /\ (InEntries <=> Cell # 254) /\ Placed <= Len(ents) /\ Len(ents) <= 252 /\ Placed \in Nat
      /\ Filled(buks, buks_len, ents, Placed)
      /\ Walked(buks, buks_len, ents, find.key, find.hash, find.tries)
      /\ find.key \in Key /\ find.hash = Hash[find.key] /\ Searching
  BY ProbeFacts
<1>2. Empty = 254 /\ Len(ents) \in Nat
  BY TableFacts
<1>3. ~ProbeWild
  BY <1>1, <1>2 DEF ProbeWild
<1>4. ~ProbeEqFails
  BY <1>1, HashTells DEF ProbeEqFails, SameHash, SameKey
<1>5. /\ buks' = buks /\ buks_len' = buks_len /\ ents' = ents /\ call' = call /\ caller' = caller /\ i' = i
      /\ find'.user = find.user /\ find'.key = find.key /\ find'.hash = find.hash
      /\ pc' \in {"probe", "found", "failed"}
  <2>1. find \in [user : {"none", "get", "set", "rehash", "again"},
                  key : Key \cup {None}, hash : Nat, bi : Nat, tries : Nat]
    BY DEF IInv, TypeOK, SearchType
  <2> QED
    BY <1>3, <1>4, <2>1
       DEF ProbeEmpty, ProbeMatch, ProbeNext, ProbeExhausted, Found, NotFound, mem, data, local, search
<1>6. Searching' /\ (Rehashing' <=> Rehashing) /\ Placed' = Placed
  BY <1>1, <1>5 DEF Searching, Rehashing, Placed
<1>7. NoStray' /\ LengthOK(L)' /\ KeysOK' /\ TableOK'
  BY <1>1, <1>5, <1>6 DEF TInv, NoStray, LengthOK, KeysOK, TableOK
<1>8. CallOK'
  BY <1>1, <1>5, <1>6 DEF TInv, CallOK
<1>10. find.tries \in 0..(buks_len - 2) /\ buks_len \in 3..253
  BY <1>1
<1>9. PathOK'
  <2>1. CASE ProbeEmpty
    <3>1. pc' = "found" /\ find' = find /\ res' = [bi |-> find.bi, ei |-> -1] /\ Cell = 254
      BY <1>2, <2>1 DEF ProbeEmpty, Found
    <3> QED
      BY <1>1, <1>5, <3>1 DEF PathOK
  <2>2. CASE ProbeMatch
    <3>1. pc' = "found" /\ find' = find /\ res' = [bi |-> find.bi, ei |-> Cell] /\ InEntries /\ SameKey
      BY <2>2 DEF ProbeMatch, Found, SameHash
    <3>2. res'.ei = Cell /\ Cell \in 0..(Placed - 1) /\ ents[Cell + 1].key = find.key
      BY <1>1, <3>1 DEF SameKey
    <3> QED
      BY <1>1, <1>5, <1>6, <3>1, <3>2 DEF PathOK
  <2>3. CASE ProbeNext
    <3>1. Skipped /\ NextBi # find.hash % buks_len /\ pc' = "probe"
      BY <2>3 DEF ProbeNext
    <3>2. find'.tries = find.tries + 1 /\ find'.bi = NextBi
      BY <2>3 DEF ProbeNext, IInv, TypeOK, SearchType
    <3>3. /\ Walked(buks, buks_len, ents, find.key, find.hash, find.tries + 1)
          /\ NextBi = At(buks_len, find.hash, find.tries + 1)
          /\ find.tries + 1 # buks_len - 1
      BY <3>1, Skips
    <3>4. find.tries + 1 \in 0..(buks_len - 2)
      BY <1>10, <3>3
    <3> QED
      BY <1>1, <1>5, <3>1, <3>2, <3>3, <3>4 DEF PathOK
  <2>4. CASE ProbeExhausted
    <3>1. Skipped /\ NextBi = find.hash % buks_len /\ pc' = "failed" /\ find' = find
      BY <2>4 DEF ProbeExhausted, NotFound, search
    <3>2. /\ Walked(buks, buks_len, ents, find.key, find.hash, find.tries + 1)
          /\ find.tries + 1 = buks_len - 1
      BY <3>1, Skips
    <3>3. find.tries = buks_len - 2 /\ Walked(buks, buks_len, ents, find.key, find.hash, buks_len - 1)
      <4>1. find.tries = buks_len - 2
        BY <1>10, <3>2
      <4> QED
        BY <3>2, <4>1, Zenon
    <3>4. find.user # "rehash"
      <4>1. SUFFICES ASSUME find.user = "rehash" PROVE FALSE
        OBVIOUS
      <4>2. Placed = i /\ i < Len(ents) /\ Target(Len(ents)) < buks_len
        BY <1>1, <4>1 DEF Placed, Rehashing, TInv, CallOK, IInv, RoomOK
      <4>3. \A s \in 0..(buks_len - 2) : buks[At(buks_len, find.hash, s)] # 254
        <5>1. buks_len - 1 - 1 = buks_len - 2
          BY <1>1
        <5> QED
          BY <3>3, <5>1 DEF Walked
      <4>4. buks_len + 1 <= 2 * Placed
        <5>1. OddPrime(buks_len) /\ Placed \in Nat /\ find.hash \in Nat /\ Filled(buks, buks_len, ents, Placed)
          BY <1>1
        <5> QED
          BY <4>3, <5>1, Pigeons
      <4> QED
        <5>1. Len(ents) \in Nat /\ i \in Nat
          BY <1>2 DEF IInv, TypeOK, CallType
        <5> QED
          BY <1>10, <4>2, <4>4, <5>1 DEF Target
    <3> QED
      BY <1>1, <1>5, <3>1, <3>3, <3>4 DEF PathOK
  <2> QED
    BY <1>3, <1>4, <2>1, <2>2, <2>3, <2>4
<1> QED
  BY <1>7, <1>8, <1>9 DEF TInv

\* A call of kdict_get or kdict_set begins.
LEMMA CallKeeps ==
  ASSUME NEW L, Narrow(L, MaxEnts), Distinct, IInv, TInv(L), NEW k \in Key,
         Get(k, Hash[k]) \/ \E v \in Val : Set(k, Hash[k], v)
  PROVE  TInv(L)'
<1>1. pc = "idle" /\ Placed = Len(ents) /\ ~(pc = "overrun") /\ caller = "none"
  BY DEF Get, Set, Placed, Rehashing, Searching, IInv, ControlOK
<1>2. CASE Get(k, Hash[k])
  <2>1. Search("get", k, Hash[k]) /\ UNCHANGED <<mem, data, caller, i>> /\ call'.key = k /\ call'.hash = Hash[k]
    BY <1>2 DEF Get, New
  <2>2. buks' = buks /\ buks_len' = buks_len /\ ents' = ents /\ i' = i /\ caller' = caller
    BY <2>1 DEF mem, data
  <2>3. "get" \in {"get", "set", "rehash"} /\ "get" # "rehash" /\ "get" # "set"
    OBVIOUS
  <2> QED
    BY <1>1, <2>1, <2>2, <2>3, SearchBegins
<1>3. ASSUME NEW v \in Val, Set(k, Hash[k], v)
      PROVE  TInv(L)'
  <2>1. call' = New("set", k, Hash[k], v) /\ UNCHANGED <<mem, data, i>>
    BY <1>3 DEF Set
  <2>2. call'.key = k /\ call'.hash = Hash[k] /\ buks' = buks /\ buks_len' = buks_len /\ ents' = ents /\ i' = i
    BY <2>1 DEF mem, data, New
  <2>3. CASE NeedsResize
    <3>1. pc' = "resize" /\ caller' = "first"
      BY <1>3, <2>3 DEF Set
    <3> QED
      BY <1>1, <2>2, <3>1, TableStays
  <2>4. CASE ~NeedsResize
    <3>1. Search("set", k, Hash[k]) /\ caller' = caller
      BY <1>3, <2>4 DEF Set
    <3>2. ~TooFull(buks_len, Len(ents))
      BY <2>4 DEF NeedsResize, TooFull
    <3>3. "set" \in {"get", "set", "rehash"} /\ "set" # "rehash"
      OBVIOUS
    <3> QED
      BY <1>1, <2>2, <3>1, <3>2, <3>3, SearchBegins
  <2> QED
    BY <2>3, <2>4
<1> QED
  BY <1>2, <1>3

\* The deletion leaves a table without entries or buckets.
LEMMA DelKeeps ==
  ASSUME NEW L, Narrow(L, MaxEnts), IInv, TInv(L), Del
  PROVE  TInv(L)'
<1>1. ents' = <<>> /\ buks' = Cleared(0) /\ buks_len' = 0 /\ pc' = "dead" /\ caller' = caller
  BY DEF Del
<1>2. ~Searching' /\ ~Rehashing' /\ Len(ents') = 0 /\ DOMAIN ents' = {}
  BY <1>1 DEF Searching, Rehashing
<1>3. NoStray' /\ KeysOK' /\ CallOK' /\ PathOK'
  BY <1>1, <1>2 DEF NoStray, KeysOK, CallOK, PathOK, Searching
<1>4. LengthOK(L)'
  BY <1>1, <1>2 DEF LengthOK, TInv, Narrow
<1>5. TableOK'
  <2>1. Filled(Cleared(0), 0, ents', 0)
    BY FilledEmpty
  <2> QED
    BY <1>1, <1>2, <2>1 DEF TableOK, Placed
<1> QED
  BY <1>3, <1>4, <1>5 DEF TInv

\* In a table of length L my_resize is called by the first of its two sites only.
LEMMA FirstSite ==
  ASSUME NEW L, IInv, TInv(L), pc \in {"resize", "rehash"}
  PROVE  caller = "first" /\ call.key \in Key /\ call.hash = Hash[call.key]
<1>1. caller # "none" /\ caller # "grow" /\ caller \in {"none", "first", "grow"}
  BY DEF IInv, TypeOK, CallType, ControlOK, TInv, LengthOK
<1> QED
  BY <1>1 DEF TInv, CallOK

\* More buckets than asked for are enough for one more entry.
LEMMA Roomy ==
  ASSUME NEW n \in Nat, n <= MaxEnts, NEW p \in Nat, p > Target(n), n # 0 \/ p > 2
  PROVE  ~TooFull(p, n) /\ (n # 0 => ~TooFull(p, n - 1))
<1> DEFINE t == Target(n)
<1>1. t \in Nat /\ 10 * n < 3 * t /\ n + 1 <= t /\ p > t
  BY NewLength
<1>2. n # 0 => t >= n + 2
  BY DEF Target
<1> HIDE DEF t
<1>3. 10 * n <= 7 * p /\ p >= n + 3
  BY <1>1, <1>2
<1> QED
  BY <1>3 DEF TooFull

\* my_resize without work to do.
LEMMA ResizeEnoughKeeps ==
  ASSUME NEW L, Narrow(L, MaxEnts), IInv, TInv(L), ResizeEnough \/ RehashEnd
  PROVE  TInv(L)'
<1>1. pc \in {"resize", "rehash"} /\ Resized /\ UNCHANGED <<mem, data, local>>
  BY DEF ResizeEnough, RehashEnd
<1>2. caller = "first" /\ call.key \in Key /\ call.hash = Hash[call.key]
  BY <1>1, FirstSite
<1>3. Search("set", call.key, Hash[call.key])
  BY <1>1, <1>2 DEF Resized
<1>4. buks' = buks /\ buks_len' = buks_len /\ ents' = ents /\ i' = i /\ caller' = caller /\ call' = call
  BY <1>1 DEF mem, data, local
<1>5. Placed = Len(ents)
  BY DEF ResizeEnough, RehashEnd, Placed, Rehashing, Searching
<1>6. ~TooFull(buks_len, Len(ents))
  <2>1. buks_len > Target(Len(ents)) /\ Len(ents) <= MaxEnts
    BY DEF ResizeEnough, RehashEnd, IInv, RoomOK
  <2>2. Len(ents) \in Nat /\ buks_len \in 0..253 /\ (buks_len # 0 => buks_len > 2)
    BY TableFacts
  <2>3. Target(Len(ents)) \in Nat
    BY <2>1, <2>2, NewLength
  <2> QED
    BY <2>1, <2>2, <2>3, Roomy
<1>7. "set" \in {"get", "set", "rehash"} /\ "set" # "rehash" /\ pc # "overrun"
  BY <1>1
<1> QED
  BY <1>2, <1>3, <1>4, <1>5, <1>6, <1>7, SearchBegins

\* my_resize makes a longer array, of a length in L, and clears it.
LEMMA ResizeKeeps ==
  ASSUME NEW L, Narrow(L, MaxEnts), IInv, TInv(L), Resize
  PROVE  TInv(L)'
<1> DEFINE n == Len(ents)
           len == NextPrime(Target(n))
<1>1. /\ buks_len' = len /\ buks' = Cleared(len) /\ pc' \in {"overrun", "rehash"} /\ i' = 0
      /\ ents' = ents /\ call' = call /\ caller' = caller /\ find' = find
  BY DEF Resize, data, search
<1>2. pc = "resize" /\ caller = "first" /\ call.key \in Key /\ call.hash = Hash[call.key]
  BY FirstSite DEF Resize
<1>10. MaxEnts \in Nat
  BY BoundAssumption
<1>3. n \in Nat /\ n < MaxEnts /\ NeedsResize
  BY <1>2, LenType DEF IInv, RoomOK, BeforeInsert
<1>4. len \in L
  <2>1. buks_len \in L /\ (n = 0 \/ ~TooFull(buks_len, n - 1))
    BY DEF TInv, LengthOK
  <2>2. TooFull(buks_len, n) /\ n \in 0..(MaxEnts - 1)
    BY <1>3, <1>10 DEF NeedsResize, TooFull
  <2> QED
    BY <2>1, <2>2 DEF Narrow
<1>5. len \in 0..253 /\ len > Target(n)
  <2>1. len > Target(n)
    BY <1>3, <1>10, NewLength
  <2> QED
    BY <1>4, <2>1 DEF Narrow
<1>6. ~Searching'
  BY <1>1 DEF Searching
<1>7. NoStray' /\ KeysOK' /\ CallOK' /\ PathOK'
  BY <1>1, <1>2, <1>3, <1>6 DEF NoStray, KeysOK, CallOK, PathOK, TInv, Rehashing, Searching
<1>8. LengthOK(L)'
  <2>1. n = 0 \/ ~TooFull(len, n - 1)
    <3>1. SUFFICES ASSUME n # 0 PROVE ~TooFull(len, n - 1)
      OBVIOUS
    <3>2. len \in Nat /\ len > Target(n)
      <4>1. \A x \in 0..253 : x \in Nat
        OBVIOUS
      <4> QED
        BY <1>5, <4>1, Zenon
    <3>3. n \in Nat /\ n <= MaxEnts
      BY <1>3, <1>10
    <3> HIDE DEF n, len
    <3> QED
      BY <3>1, <3>2, <3>3, Roomy
  <2> QED
    BY <1>1, <1>2, <1>4, <1>6, <2>1 DEF LengthOK
<1>9. TableOK'
  <2>1. Filled(Cleared(len), len, ents, 0)
    BY <1>5, FilledEmpty
  <2>2. pc' # "overrun" => Placed' = 0
    BY <1>1 DEF Placed, Rehashing
  <2> QED
    BY <1>1, <2>1, <2>2 DEF TableOK
<1> QED
  BY <1>7, <1>8, <1>9 DEF TInv

\* my_resize searches for the place of the next entry.
LEMMA RehashNextKeeps ==
  ASSUME NEW L, Narrow(L, MaxEnts), IInv, TInv(L), RehashNext
  PROVE  TInv(L)'
<1>1. pc = "rehash" /\ i < Len(ents) /\ Search("rehash", ents[i + 1].key, ents[i + 1].hash)
      /\ UNCHANGED <<mem, data, local>>
  BY DEF RehashNext
<1>2. caller = "first" /\ call.key \in Key /\ call.hash = Hash[call.key]
  BY <1>1, FirstSite
<1>3. i + 1 \in DOMAIN ents
  BY <1>1, LenType DEF IInv, TypeOK, CallType
<1>4. ents[i + 1].key \in Key /\ ents[i + 1].hash = Hash[ents[i + 1].key]
  BY <1>3, EntryType DEF IInv, TInv, KeysOK
<1>5. Search("rehash", ents[i + 1].key, Hash[ents[i + 1].key])
  BY <1>1, <1>4
<1>6. buks' = buks /\ buks_len' = buks_len /\ ents' = ents /\ i' = i /\ caller' = caller /\ call' = call
  BY <1>1 DEF mem, data, local
<1>7. "rehash" \in {"get", "set", "rehash"} /\ "rehash" # "set" /\ pc # "overrun" /\ Rehashing
  BY <1>1 DEF Rehashing
<1> QED
  BY <1>1, <1>2, <1>4, <1>5, <1>6, <1>7, SearchBegins

\* Entries of the same hashes are the same to the buckets.
LEMMA FilledSame ==
  ASSUME NEW B, NEW p, NEW es, NEW fs, NEW m, Filled(B, p, es, m),
         \A e \in 1..m : fs[e].hash = es[e].hash
  PROVE  Filled(B, p, fs, m)
<1>1. ASSUME NEW e \in 1..m
      PROVE  OnWay(B, p, fs[e].hash, e)
  BY DEF Filled
<1> QED
  BY <1>1 DEF Filled

\* What a write of a bucket of one byte does.
LEMMA PutByte ==
  ASSUME NEW x \in Nat, NEW v \in 0..253, NEW len \in Nat,
         DOMAIN buks = 0..(len - 1)
  PROVE  /\ x < len => Put(1, x, v)[x] = v
         /\ \A b \in 0..(len - 1) : b # x => Put(1, x, v)[b] = buks[b]
<1>1. \A o \in 0..(len - 1) : o \div 1 = o /\ o % 1 = 0
  OBVIOUS
<1>2. Byte(v, 0) = v
  BY DEF Byte
<1>3. ASSUME NEW o \in 0..(len - 1)
      PROVE  Put(1, x, v)[o] = IF o = x THEN v ELSE buks[o]
  BY <1>1, <1>2, <1>3 DEF Put
<1>4. x < len => x \in 0..(len - 1)
  OBVIOUS
<1> QED
  BY <1>3, <1>4

\* Where a search for the place of a key ends.
LEMMA PlaceFacts ==
  ASSUME NEW L, Narrow(L, MaxEnts), IInv, TInv(L), pc = "found", res.ei < 0, buks_len # 0
  PROVE  /\ buks_len \in 3..253 /\ Width(buks_len) = 1 /\ DOMAIN buks = 0..(buks_len - 1)
         /\ find.hash \in Nat /\ find.hash = Hash[find.key] /\ find.key \in Key
         /\ find.tries \in 0..(buks_len - 2)
         /\ res.bi = At(buks_len, find.hash, find.tries) /\ res.bi \in 0..(buks_len - 1)
         /\ Open(buks, buks_len, find.hash, find.tries)
         /\ Walked(buks, buks_len, ents, find.key, find.hash, find.tries)
         /\ Filled(buks, buks_len, ents, Placed)
         /\ Len(ents) \in Nat /\ Len(ents) <= 252 /\ Placed \in Nat /\ Placed <= Len(ents)
<1>1. /\ buks_len \in 0..253 /\ buks_len > 2 /\ Width(buks_len) = 1
      /\ buks \in [0..(buks_len - 1) -> 0..255]
      /\ Len(ents) \in Nat /\ Len(ents) < buks_len
  BY TableFacts
<1>2. Searching /\ find.hash \in Nat /\ i \in Nat
  BY DEF Searching, IInv, TypeOK, SearchType, CallType
<1>3. /\ find.tries \in 0..(buks_len - 2) /\ find.bi = At(buks_len, find.hash, find.tries)
      /\ Walked(buks, buks_len, ents, find.key, find.hash, find.tries)
      /\ res.bi = find.bi /\ buks[find.bi] = 254
  BY <1>2 DEF TInv, PathOK
<1>4. find.hash = Hash[find.key] /\ find.key \in Key
  BY <1>2 DEF TInv, CallOK
<1>5. find.bi \in 0..(buks_len - 1)
  <2> DEFINE p == buks_len
             h == find.hash
             t == find.tries
  <2>1. p \in Nat \ {0} /\ h \in Nat /\ t \in Nat /\ find.bi = At(p, h, t)
    BY <1>1, <1>2, <1>3
  <2> HIDE DEF p, h, t
  <2>2. At(p, h, t) \in 0..(p - 1)
    BY <2>1, AtStep
  <2>3. find.bi \in 0..(p - 1)
    BY <2>1, <2>2
  <2> QED
    BY <2>3 DEF p
<1>6. Open(buks, buks_len, find.hash, find.tries)
  BY <1>3 DEF Open, Walked
<1>7. Filled(buks, buks_len, ents, Placed)
  BY DEF TInv, TableOK
<1>8. Placed \in Nat /\ Placed <= Len(ents)
  BY <1>1, <1>2 DEF Placed, TInv, CallOK
<1>9. buks_len \in 3..253 /\ Len(ents) <= 252 /\ DOMAIN buks = 0..(buks_len - 1)
  BY <1>1
<1> QED
  BY <1>1, <1>2, <1>3, <1>4, <1>5, <1>6, <1>7, <1>8, <1>9

\* The next entry gets its bucket.
LEMMA RehashPlaceKeeps ==
  ASSUME NEW L, Narrow(L, MaxEnts), IInv, TInv(L), RehashPlace
  PROVE  TInv(L)'
<1> DEFINE h == find.hash
           t == find.tries
           p == buks_len
<1>1. /\ pc = "found" /\ find.user = "rehash" /\ res.ei < 0
      /\ buks' = Put(Width(buks_len), res.bi, i)
      /\ i' = i + 1 /\ pc' = "rehash" /\ buks_len' = buks_len /\ ents' = ents
      /\ call' = call /\ caller' = caller
  BY DEF RehashPlace, data
<1>2. Searching /\ Rehashing /\ i \in Nat /\ Placed = i /\ buks_len # 0 /\ caller # "grow"
  <2>1. Searching /\ Rehashing
    BY <1>1 DEF Searching, Rehashing
  <2>2. Len(ents) \in Nat /\ Len(ents) <= MaxEnts /\ Target(Len(ents)) < buks_len
    BY <1>1, <2>1, LenType DEF IInv, RoomOK
  <2>3. Target(Len(ents)) \in Nat
    BY <2>2, NewLength
  <2> QED
    BY <2>1, <2>2, <2>3 DEF Placed, IInv, TypeOK, CallType, BuksType, TInv, LengthOK
<1>3. i < Len(ents) /\ find.key = ents[i + 1].key /\ call.key \in Key /\ call.hash = Hash[call.key]
  BY <1>1, <1>2 DEF TInv, CallOK
<1>4. /\ p \in 3..253 /\ Width(buks_len) = 1 /\ DOMAIN buks = 0..(p - 1)
      /\ h \in Nat /\ h = Hash[find.key]
      /\ t \in 0..(p - 2)
      /\ res.bi = At(p, h, t) /\ res.bi \in 0..(p - 1)
      /\ Open(buks, p, h, t)
      /\ Filled(buks, p, ents, i)
      /\ Len(ents) \in Nat /\ Len(ents) <= 252
  BY <1>1, <1>2, PlaceFacts
<1>5. \A e \in 1..Len(ents) : ents[e].hash = Hash[ents[e].key] /\ ents[e].hash \in Nat
  BY LenType, EntryType DEF IInv, TInv, KeysOK
<1>6. i \in 0..253 /\ ents[i + 1].hash = h
  BY <1>2, <1>3, <1>4, <1>5
<1>7. buks' = Put(1, res.bi, i) /\ res.bi \in Nat /\ res.bi < p /\ p \in Nat
  BY <1>1, <1>4
<1>8. buks'[res.bi] = i /\ \A b \in 0..(p - 1) : b # res.bi => buks'[b] = buks[b]
  <2> DEFINE x == res.bi
             v == i
             X == Put(1, x, v)
  <2>1. x \in Nat /\ x < p /\ p \in Nat /\ v \in 0..253 /\ DOMAIN buks = 0..(p - 1) /\ buks' = X
    BY <1>4, <1>6, <1>7
  <2> HIDE DEF x, v, p
  <2>2. X[x] = v /\ \A b \in 0..(p - 1) : b # x => X[b] = buks[b]
    BY <2>1, PutByte
  <2> HIDE DEF X
  <2>3. buks'[x] = v /\ \A b \in 0..(p - 1) : b # x => buks'[b] = buks[b]
    BY <2>1, <2>2
  <2> QED
    BY <2>3 DEF x, v
<1>9. Filled(buks', p, ents, i + 1)
  <2>1. p \in Nat \ {0}
    BY <1>4
  <2>4. \A e \in 1..i : ents[e].hash \in Nat
    <3>1. i \in Nat /\ Len(ents) \in Nat /\ i < Len(ents)
      BY <1>2, <1>3, <1>4
    <3> QED
      BY <1>5, <3>1
  <2> DEFINE C == buks'
             m == i
  <2>2. Written(buks, C, p, At(p, h, t), m)
    BY <1>4, <1>8 DEF Written
  <2>3. h \in Nat /\ t \in 0..(p - 2) /\ Open(buks, p, h, t) /\ Filled(buks, p, ents, i)
    BY <1>4
  <2>5. m \in 0..253 /\ Filled(buks, p, ents, m)
    BY <1>6, <2>3
  <2>7. MoreEntries(ents, ents, m, h)
    BY <1>6, <2>4 DEF MoreEntries
  <2> HIDE DEF p, h, t, C, m
  <2>6. Filled(C, p, ents, m + 1)
    BY <2>1, <2>2, <2>3, <2>5, <2>7, Placing, Zenon
  <2> QED
    BY <2>6 DEF C, m
<1>10. ~Searching' /\ Rehashing' /\ Placed' = i + 1 /\ i + 1 <= Len(ents)
  <2>1. i + 1 <= Len(ents)
    BY <1>2, <1>3, <1>4
  <2> QED
    BY <1>1, <2>1 DEF Searching, Rehashing, Placed
<1>11. NoStray' /\ LengthOK(L)' /\ KeysOK'
  BY <1>1, <1>10 DEF NoStray, TInv, LengthOK, KeysOK
<1>12. CallOK' /\ PathOK'
  BY <1>1, <1>3, <1>10 DEF CallOK, PathOK
<1>13. TableOK'
  BY <1>1, <1>9, <1>10 DEF TableOK
<1> QED
  BY <1>11, <1>12, <1>13 DEF TInv

\* No entry is found twice, and my_resize always finds room for the next one.
LEMMA NeverTwice ==
  ASSUME NEW L, Narrow(L, MaxEnts), IInv, TInv(L)
  PROVE  ~RehashTwice /\ ~FirstResizeFails /\ ~GrowResizeFails
         /\ ~AgainPlace /\ ~AgainElsewhere /\ ~AgainFails
<1>1. ASSUME RehashTwice PROVE FALSE
  <2>1. pc = "found" /\ find.user = "rehash" /\ res.ei >= 0 /\ Searching /\ Rehashing
    BY <1>1 DEF RehashTwice, Searching, Rehashing
  <2>2. res.ei \in Int /\ i \in Nat /\ Len(ents) \in Nat /\ DOMAIN ents = 1..Len(ents)
    BY LenType DEF IInv, TypeOK, SearchType, CallType
  <2>3. res.ei < i /\ i < Len(ents) /\ ents[res.ei + 1].key = ents[i + 1].key
    BY <2>1 DEF TInv, PathOK, CallOK, Placed
  <2>4. res.ei + 1 \in DOMAIN ents /\ i + 1 \in DOMAIN ents /\ res.ei + 1 # i + 1
    BY <2>1, <2>2, <2>3
  <2> QED
    BY <2>3, <2>4 DEF TInv, KeysOK
<1>2. ~FirstResizeFails /\ ~GrowResizeFails
  BY DEF FirstResizeFails, GrowResizeFails, TInv, PathOK
<1>3. Searching => find.user # "again"
  BY DEF IInv, ControlOK, TInv, LengthOK
<1> QED
  BY <1>1, <1>2, <1>3 DEF AgainPlace, AgainElsewhere, AgainFails, Searching

\* A call returns without a change of the table.
LEMMA ReturnsKeeps ==
  ASSUME NEW L, Narrow(L, MaxEnts), IInv, TInv(L),
         GetReturns \/ SetFindFails \/ InsertNoMemory \/ InsertOverrun
  PROVE  TInv(L)'
<1>1. /\ buks' = buks /\ buks_len' = buks_len /\ ents' = ents /\ caller' \in {caller, "none"}
      /\ pc' \in {"idle", "overrun"} /\ pc \in {"found", "failed"} /\ find.user \in {"get", "set"}
  BY DEF GetReturns, SetFindFails, InsertNoMemory, InsertOverrun, Inserting, Return, Stop, mem, data, local
<1>2. Placed = Len(ents)
  BY <1>1 DEF Placed, Rehashing
<1> QED
  BY <1>1, <1>2, TableStays

\* A replacement changes a value and no key.
LEMMA ReplaceKeeps ==
  ASSUME NEW L, Narrow(L, MaxEnts), IInv, TInv(L), Replace
  PROVE  TInv(L)'
<1> DEFINE e == res.ei + 1
<1>1. /\ pc = "found" /\ find.user = "set" /\ res.ei >= 0 /\ ents' = [ents EXCEPT ![e].val = call.val]
      /\ buks' = buks /\ buks_len' = buks_len /\ pc' = "idle" /\ caller' = "none"
  BY DEF Replace, Return, mem
<1>2. Searching /\ ~Rehashing /\ Placed = Len(ents)
  BY <1>1 DEF Searching, Rehashing, Placed
<1>3. DOMAIN ents' = DOMAIN ents /\ Len(ents') = Len(ents)
  <2>1. call.val \in Val /\ res.ei \in Int /\ res.ei < Len(ents)
    BY <1>1, <1>2 DEF IInv, TypeOK, ControlOK, SearchType, SearchOK
  <2>2. ents \in Seq([key : Key, hash : Nat, val : Val]) /\ e \in 1..Len(ents) /\ DOMAIN ents = 1..Len(ents)
    <3>1. ents \in Seq([key : Key, hash : Nat, val : Val]) /\ DOMAIN ents = 1..Len(ents) /\ Len(ents) \in Nat
      BY LenType DEF IInv, TypeOK, EntsType
    <3>2. e \in 1..Len(ents)
      BY <1>1, <2>1, <3>1
    <3> QED
      BY <3>1, <3>2
  <2> HIDE DEF e
  <2> QED
    BY <1>1, <2>2
<1>4. \A f \in DOMAIN ents : ents'[f].key = ents[f].key /\ ents'[f].hash = ents[f].hash
  <2>1. \A f \in DOMAIN ents : ents[f] \in [key : Key, hash : Nat, val : Val]
    BY ElementOfSeq, LenType DEF IInv, TypeOK, EntsType
  <2> QED
    BY <1>1, <2>1
<1>5. ~Searching' /\ ~Rehashing' /\ Placed' = Len(ents)
  BY <1>1, <1>3 DEF Searching, Rehashing, Placed
<1>6. NoStray' /\ LengthOK(L)' /\ CallOK' /\ PathOK'
  BY <1>1, <1>3, <1>5 DEF NoStray, TInv, LengthOK, CallOK, PathOK, Searching
<1>7. KeysOK'
  BY <1>3, <1>4 DEF TInv, KeysOK
<1>8. TableOK'
  <2>1. Filled(buks, buks_len, ents, Len(ents))
    BY <1>1, <1>2 DEF TInv, TableOK
  <2>2. \A f \in 1..Len(ents) : ents'[f].hash = ents[f].hash
    BY <1>4, LenType DEF IInv
  <2>3. Filled(buks, buks_len, ents', Len(ents))
    BY <2>1, <2>2, FilledSame
  <2> QED
    BY <1>1, <1>5, <2>3 DEF TableOK
<1> QED
  BY <1>6, <1>7, <1>8 DEF TInv

\* An insertion meets neither a limit nor a table without buckets.
LEMMA BelowLimit ==
  ASSUME NEW L, Narrow(L, MaxEnts), IInv, TInv(L), Inserting
  PROVE  /\ buks_len # 0 /\ Len(ents) \in 0..251 /\ NewLen \in 1..252 /\ Width(NewLen) = 1
         /\ ~AtLimit(NewLen) /\ res.bi >= 0 /\ Placed = Len(ents) /\ ~InsertGrows
<1>1. pc = "found" /\ find.user = "set" /\ Searching /\ ~Rehashing
  BY DEF Inserting, Searching, Rehashing
<1>2. Len(ents) + 2 <= buks_len /\ buks_len \in 0..253 /\ Len(ents) \in Nat
  BY <1>1, TableFacts DEF IInv, RoomOK
<1>3. Len(ents) \in 0..251 /\ NewLen \in 1..252 /\ buks_len # 0
  <2> DEFINE n == Len(ents)
             p == buks_len
  <2>1. n \in Nat /\ p \in 0..253 /\ n + 2 <= p
    BY <1>2
  <2> HIDE DEF n, p
  <2>2. n \in 0..251 /\ n + 1 \in 1..252 /\ p # 0
    BY <2>1
  <2> QED
    BY <2>2 DEF NewLen, n, p
<1>4. Width(NewLen) = 1 /\ ~AtLimit(NewLen)
  BY <1>3 DEF Width, AtLimit
<1>5. res.bi >= 0 /\ ~(res.bi < 0)
  <2>1. res.bi \in Nat
    BY <1>1, <1>3 DEF IInv, SearchOK
  <2> QED
    BY <2>1
<1> QED
  BY <1>1, <1>3, <1>4, <1>5 DEF Placed, InsertGrows

\* The sequence after an insertion.
LEMMA AddedEntry ==
  ASSUME IInv, Inserting, EntryAdded
  PROVE  /\ Len(ents') = Len(ents) + 1 /\ Len(ents) \in Nat
         /\ DOMAIN ents = 1..Len(ents) /\ DOMAIN ents' = 1..(Len(ents) + 1)
         /\ \A e \in 1..Len(ents) : ents'[e] = ents[e]
         /\ ents'[Len(ents) + 1] = [key |-> call.key, hash |-> call.hash, val |-> call.val]
<1>1. [key |-> call.key, hash |-> call.hash, val |-> call.val] \in
        [key : Key, hash : Nat, val : Val]
  BY DEF Inserting, Searching, IInv, TypeOK, CallType, ControlOK
<1>2. ents \in Seq([key : Key, hash : Nat, val : Val])
  BY DEF IInv, TypeOK, EntsType
<1> DEFINE x == [key |-> call.key, hash |-> call.hash, val |-> call.val]
<1>3. ents' = Append(ents, x)
  BY DEF EntryAdded
<1> HIDE DEF x
<1>4. x \in [key : Key, hash : Nat, val : Val]
  BY <1>1 DEF x
<1>5. /\ Len(ents') = Len(ents) + 1 /\ Len(ents) \in Nat
      /\ DOMAIN ents = 1..Len(ents) /\ DOMAIN ents' = 1..(Len(ents) + 1)
      /\ \A e \in 1..Len(ents) : ents'[e] = ents[e]
      /\ ents'[Len(ents) + 1] = x
  BY <1>2, <1>3, <1>4, AppendProperties, LenProperties
<1> QED
  BY <1>5 DEF x

\* An insertion meets no entry of its key.
LEMMA NewKey ==
  ASSUME NEW L, Narrow(L, MaxEnts), IInv, TInv(L), Inserting
  PROVE  \A e \in DOMAIN ents : ents[e].key # call.key
<1> DEFINE p == buks_len
           h == find.hash
           k == find.key
           n == Len(ents)
           t == find.tries
<1>1. pc = "found" /\ res.ei < 0 /\ find.user = "set" /\ Searching
  BY DEF Inserting, Searching
<1>2. p # 0 /\ n \in 0..251 /\ Placed = n
  BY BelowLimit
<1>3. /\ p \in 3..253 /\ h = Hash[k] /\ t \in 0..(p - 2)
      /\ Open(buks, p, h, t) /\ Walked(buks, p, ents, k, h, t) /\ Filled(buks, p, ents, n)
  BY <1>1, <1>2, PlaceFacts
<1>4. k = call.key
  BY <1>1 DEF TInv, CallOK
<1>5. DOMAIN ents = 1..n /\ \A e \in DOMAIN ents : ents[e].hash = Hash[ents[e].key]
  BY LenType DEF IInv, TInv, KeysOK
<1> HIDE DEF p, h, k, n, t
<1>6. p \in Nat /\ n \in 0..254 /\ t \in 0..(p - 1) /\ Ended(buks, p, h, t)
  BY <1>2, <1>3 DEF Open, Ended
<1>7. Absent(ents, n, h, k)
  BY <1>3, <1>6, NotThere
<1> QED
  BY <1>3, <1>4, <1>5, <1>7 DEF Absent

\* The new entry gets its bucket.
LEMMA InsertKeeps ==
  ASSUME NEW L, Narrow(L, MaxEnts), Distinct, IInv, TInv(L), Insert
  PROVE  TInv(L)'
<1> DEFINE h == find.hash
           t == find.tries
           p == buks_len
           n == Len(ents)
<1>1. /\ Inserting /\ EntryAdded /\ buks' = Put(Width(NewLen), res.bi, NewLen - 1)
      /\ buks_len' = buks_len /\ pc' = "idle" /\ caller' = "none"
  BY DEF Insert, Return
<1>2. /\ pc = "found" /\ find.user = "set" /\ res.ei < 0 /\ Searching
      /\ p # 0 /\ n \in 0..251 /\ NewLen = n + 1 /\ Width(NewLen) = 1 /\ Placed = n
  BY <1>1, BelowLimit DEF Inserting, NewLen, Searching
<1>3. /\ p \in 3..253 /\ DOMAIN buks = 0..(p - 1)
      /\ h \in Nat /\ t \in 0..(p - 2)
      /\ res.bi = At(p, h, t) /\ res.bi \in 0..(p - 1)
      /\ Open(buks, p, h, t)
      /\ Walked(buks, p, ents, find.key, h, t)
      /\ Filled(buks, p, ents, n)
  BY <1>2, PlaceFacts
<1>4. find.key = call.key /\ h = Hash[call.key] /\ call.hash = Hash[call.key] /\ call.key \in Key
  BY <1>2 DEF TInv, CallOK
<1>5. /\ Len(ents') = n + 1
      /\ DOMAIN ents = 1..n /\ DOMAIN ents' = 1..(n + 1)
      /\ \A e \in 1..n : ents'[e] = ents[e]
      /\ ents'[n + 1].key = call.key /\ ents'[n + 1].hash = call.hash
  BY <1>1, AddedEntry
<1>6. \A e \in 1..n : ents[e].hash = Hash[ents[e].key] /\ ents[e].hash \in Nat
  BY <1>5, EntryType DEF IInv, TInv, KeysOK
<1>7. \A e \in 1..n : ents[e].key # call.key
  BY <1>1, <1>5, NewKey
<1>14. n \in Nat /\ n \in 0..251
  <2>1. n \in 0..251
    BY <1>2
  <2> HIDE DEF n
  <2> QED
    BY <2>1
<1>15. \A e \in 1..(n + 1) : e \in 1..n \/ e = n + 1
  <2> HIDE DEF n
  <2> QED
    BY <1>14
<1>8. KeysOK'
  <2>1. \A e \in 1..(n + 1) : ents'[e].hash = Hash[ents'[e].key]
    <3>2. \A e \in 1..n : ents'[e].hash = Hash[ents'[e].key]
      BY <1>5, <1>6
    <3>3. ents'[n + 1].hash = Hash[ents'[n + 1].key]
      BY <1>4, <1>5
    <3> QED
      BY <1>15, <3>2, <3>3
  <2>2. \A e, f \in 1..n : ents[e].key = ents[f].key => e = f
    BY <1>5 DEF TInv, KeysOK
  <2>3. \A e, f \in 1..(n + 1) : ents'[e].key = ents'[f].key => e = f
    BY <1>5, <1>7, <1>15, <2>2
  <2> QED
    BY <1>5, <2>1, <2>3 DEF KeysOK
<1>9. Filled(buks', p, ents', n + 1)
  <2> DEFINE C == buks'
             fs == ents'
             x == res.bi
             X == Put(1, x, n)
  <2>1. x \in Nat /\ x < p /\ p \in Nat /\ n \in 0..253 /\ DOMAIN buks = 0..(p - 1)
    <3>1. n \in 0..251 /\ p \in 3..253 /\ x \in 0..(p - 1)
      BY <1>2, <1>3
    <3>2. DOMAIN buks = 0..(p - 1)
      BY <1>3
    <3> HIDE DEF n, p, x
    <3> QED
      BY <3>1, <3>2
  <2>2. C = X
    <3>1. NewLen - 1 = n
      <4>1. NewLen = n + 1
        BY <1>2
      <4> HIDE DEF n
      <4> QED
        BY <1>14, <4>1
    <3>2. Width(NewLen) = 1
      BY <1>2
    <3> QED
      BY <1>1, <3>1, <3>2, Zenon
  <2>3. X[x] = n /\ \A b \in 0..(p - 1) : b # x => X[b] = buks[b]
    <3> HIDE DEF x, n, p
    <3> QED
      BY <2>1, PutByte
  <2>4. Written(buks, C, p, x, n)
    <3> HIDE DEF X, C
    <3> QED
      BY <2>2, <2>3 DEF Written
  <2>5. Written(buks, C, p, At(p, h, t), n)
    BY <1>3, <2>4
  <2>6. MoreEntries(ents, fs, n, h)
    <3>1. fs[n + 1].hash = h
      BY <1>4, <1>5
    <3>2. \A e \in 1..n : fs[e].hash = ents[e].hash /\ ents[e].hash \in Nat
      BY <1>5, <1>6
    <3> QED
      BY <3>1, <3>2 DEF MoreEntries
  <2>7. p \in Nat \ {0} /\ h \in Nat /\ t \in 0..(p - 2) /\ Open(buks, p, h, t) /\ Filled(buks, p, ents, n)
    BY <1>3
  <2> HIDE DEF p, h, t, n, C, fs
  <2>8. Filled(C, p, fs, n + 1)
    BY <2>1, <2>5, <2>6, <2>7, Placing, Zenon
  <2> QED
    BY <2>8 DEF C, fs
<1>10. ~Searching' /\ ~Rehashing' /\ Placed' = n + 1
  BY <1>1, <1>5 DEF Searching, Rehashing, Placed
<1>11. NoStray' /\ CallOK' /\ PathOK'
  BY <1>1, <1>10 DEF NoStray, CallOK, PathOK
<1>12. LengthOK(L)'
  <2>1. ~TooFull(p, n) /\ p \in L
    BY <1>2 DEF TInv, LengthOK
  <2>2. Len(ents') - 1 = n
    <3>1. Len(ents') = n + 1
      BY <1>5
    <3> HIDE DEF n
    <3> QED
      BY <1>14, <3>1
  <2> QED
    BY <1>1, <1>10, <2>1, <2>2 DEF LengthOK
<1>13. TableOK'
  BY <1>1, <1>9, <1>10 DEF TableOK
<1> QED
  BY <1>8, <1>11, <1>12, <1>13 DEF TInv

\* Nothing changes in a table that no step touches.
LEMMA StutterKeeps ==
  ASSUME NEW L, TInv(L), UNCHANGED vars
  PROVE  TInv(L)'
<1>1. UNCHANGED <<buks, buks_len, ents, pc, call, caller, i, find, res>>
  BY DEF vars, mem, data, local, search
<1>2. (Searching' <=> Searching) /\ (Rehashing' <=> Rehashing) /\ Placed' = Placed
  BY <1>1 DEF Searching, Rehashing, Placed
<1>3. NoStray' /\ LengthOK(L)' /\ KeysOK'
  BY <1>1, <1>2 DEF TInv, NoStray, LengthOK, KeysOK
<1>4. CallOK' /\ TableOK'
  BY <1>1, <1>2 DEF TInv, CallOK, TableOK
<1>5. PathOK'
  BY <1>1, <1>2 DEF TInv, PathOK
<1> QED
  BY <1>3, <1>4, <1>5 DEF TInv

\* Every step keeps a small table in order.
LEMMA TableStep ==
  ASSUME NEW L, Narrow(L, MaxEnts), Distinct, IInv, TInv(L), [Next]_vars
  PROVE  TInv(L)'
<1>1. CASE UNCHANGED vars
  BY <1>1, StutterKeeps
<1>2. CASE Call
  <2>1. CASE Del
    BY <2>1, DelKeeps
  <2>2. ASSUME NEW k \in Key, NEW h \in {Hash[k]} \cup Garbage, Get(k, h) \/ \E v \in Val : Set(k, h, v)
        PROVE  TInv(L)'
    <3>1. h = Hash[k]
      BY DEF Distinct
    <3> QED
      BY <2>2, <3>1, CallKeeps
  <2>3. ASSUME NEW k \in Key, NEW fn \in {"get", "set"} PROVE ~HashFails(fn, k)
    BY DEF HashFails, Distinct
  <2> QED
    BY <1>2, <2>1, <2>2, <2>3 DEF Call
<1>3. CASE Step
  <2>1. CASE ResizeEnough \/ RehashEnd
    BY <2>1, ResizeEnoughKeeps
  <2>2. CASE Resize
    BY <2>2, ResizeKeeps
  <2>3. CASE RehashNext
    BY <2>3, RehashNextKeeps
  <2>4. CASE RehashPlace
    BY <2>4, RehashPlaceKeeps
  <2>5. CASE ProbeEmpty \/ ProbeMatch \/ ProbeEqFails \/ ProbeNext \/ ProbeExhausted \/ ProbeWild
    <3>1. pc = "probe"
      BY <2>5 DEF ProbeEmpty, ProbeMatch, ProbeEqFails, ProbeNext, ProbeExhausted, ProbeWild
    <3> QED
      BY <2>5, <3>1, ProbeKeeps
  <2>6. CASE GetReturns \/ SetFindFails \/ InsertNoMemory \/ InsertOverrun
    BY <2>6, ReturnsKeeps
  <2>7. CASE Replace
    BY <2>7, ReplaceKeeps
  <2>8. CASE Insert
    BY <2>8, InsertKeeps
  <2>9. CASE InsertGrows
    BY <2>9, BelowLimit DEF InsertGrows
  <2>10. CASE \/ RehashTwice \/ AgainPlace \/ AgainElsewhere \/ AgainFails
              \/ FirstResizeFails \/ GrowResizeFails
    BY <2>10, NeverTwice
  <2> QED
    BY <1>3, <2>1, <2>2, <2>3, <2>4, <2>5, <2>6, <2>7, <2>8, <2>9, <2>10 DEF Step
<1> QED
  BY <1>1, <1>2, <1>3 DEF Next

\* A new dictionary is in order.
LEMMA InitTable ==
  ASSUME NEW L, Narrow(L, MaxEnts), Init
  PROVE  TInv(L)
<1>1. buks = Cleared(0) /\ buks_len = 0 /\ ents = <<>> /\ pc = "idle" /\ caller = "none"
  BY DEF Init
<1>2. ~Searching /\ ~Rehashing /\ Len(ents) = 0 /\ DOMAIN ents = {}
  BY <1>1 DEF Searching, Rehashing
<1>3. NoStray /\ LengthOK(L) /\ KeysOK /\ CallOK /\ PathOK
  BY <1>1, <1>2 DEF NoStray, LengthOK, KeysOK, CallOK, PathOK, Searching, Narrow
<1>4. TableOK
  <2>1. Filled(Cleared(0), 0, ents, 0)
    BY FilledEmpty
  <2> QED
    BY <1>1, <1>2, <2>1 DEF TableOK, Placed
<1> QED
  BY <1>3, <1>4 DEF TInv

\* The invariant of small tables: while the lengths stay below the width limit
\* of one byte and hashes tell keys apart, TInv holds in every state.
THEOREM SmallTables ==
  ASSUME NEW L, Narrow(L, MaxEnts), Distinct
  PROVE  Spec => []TInv(L)
<1>1. Init => IInv /\ TInv(L)
  BY InitIInv, InitTable
<1>2. IInv /\ TInv(L) /\ [Next]_vars => TInv(L)'
  BY TableStep
<1>3. Spec => []IInv
  BY Invariance
<1> QED
  BY <1>1, <1>2, <1>3, PTL DEF Spec

(***************************************************************************)
(* What small tables promise.                                              *)
(***************************************************************************)

\* In a small table of keys of distinct hashes no assertion of my_resize and
\* kdict_setx fails, and my_search reads no index that is no entry (NoStray).
THEOREM NeverStrays ==
  ASSUME NEW L, Narrow(L, MaxEnts), Distinct
  PROVE  Spec => []NoStray
<1>1. TInv(L) => NoStray
  BY DEF TInv
<1> QED
  BY <1>1, SmallTables, PTL

\* In a table in order every entry has one bucket and is found there.
LEMMA Reach ==
  ASSUME NEW L, Narrow(L, MaxEnts), IInv, TInv(L)
  PROVE  AllReachable /\ BucketsIndexEntries
<1> SUFFICES ASSUME pc = "idle"
             PROVE  /\ \A e \in DOMAIN ents : Reachable(e)
                    /\ \A b \in 0..(buks_len - 1) : Bucket(b) \in (0..(Len(ents) - 1)) \cup {Empty}
                    /\ \A e \in DOMAIN ents :
                         Cardinality({b \in 0..(buks_len - 1) : Bucket(b) = e - 1}) = 1
  BY DEF AllReachable, BucketsIndexEntries
<1>1. Placed = Len(ents)
  BY DEF Placed, Rehashing, Searching
<1>2. Filled(buks, buks_len, ents, Len(ents))
  BY <1>1 DEF TInv, TableOK
<1>3. /\ \A b \in 0..(buks_len - 1) : buks[b] \in 0..(Len(ents) - 1) \/ buks[b] = 254
      /\ \A b, c \in 0..(buks_len - 1) : buks[b] = buks[c] => buks[b] = 254 \/ b = c
      /\ \A e \in 1..Len(ents) : OnWay(buks, buks_len, ents[e].hash, e)
  BY <1>2 DEF Filled
<1>4. /\ Empty = 254 /\ \A b : Bucket(b) = buks[b]
      /\ Len(ents) \in Nat /\ DOMAIN ents = 1..Len(ents) /\ Len(ents) <= 252
      /\ \A e \in 1..Len(ents) : ents[e].hash \in Nat
      /\ buks_len \in Nat
  <2>1. buks_len \in 0..253 /\ Len(ents) \in Nat /\ (Len(ents) < buks_len \/ Len(ents) = 0)
    BY TableFacts
  <2>2. Len(ents) <= 252 /\ buks_len \in Nat
    BY <2>1
  <2> QED
    BY <2>2, TableFacts
<1>5. \A h, t : Probed(h, t) = At(buks_len, h, t)
  BY DEF Probed, At
<1>6. \A b \in 0..(buks_len - 1) : Bucket(b) \in (0..(Len(ents) - 1)) \cup {Empty}
  BY <1>3, <1>4
<1>7. ASSUME NEW e \in DOMAIN ents
      PROVE  Reachable(e) /\ Cardinality({b \in 0..(buks_len - 1) : Bucket(b) = e - 1}) = 1
  <2> DEFINE h == ents[e].hash
  <2>1. e \in 1..Len(ents) /\ h \in Nat
    BY <1>4
  <2>2. OnWay(buks, buks_len, h, e)
    BY <1>3, <2>1
  <2>3. PICK t \in 0..(buks_len - 2) :
          buks[At(buks_len, h, t)] = e - 1 /\ \A s \in 0..(t - 1) : buks[At(buks_len, h, s)] # 254
    BY <2>2 DEF OnWay
  <2>4. Reachable(e)
    BY <1>4, <1>5, <2>3 DEF Reachable
  <2> DEFINE a == At(buks_len, h, t)
  <2>5. a \in 0..(buks_len - 1)
    <3> DEFINE p == buks_len
    <3>1. p \in Nat \ {0} /\ t \in Nat
      BY <1>4, <2>3
    <3> HIDE DEF p, h
    <3>2. At(p, h, t) \in 0..(p - 1)
      BY <2>1, <3>1, AtStep
    <3> QED
      BY <3>2 DEF p
  <2>6. buks[a] = e - 1 /\ buks[a] # 254
    BY <1>4, <2>1, <2>3
  <2> HIDE DEF a
  <2>7. {b \in 0..(buks_len - 1) : Bucket(b) = e - 1} = {a}
    <3>1. ASSUME NEW b \in 0..(buks_len - 1)
          PROVE  Bucket(b) = e - 1 <=> b = a
      <4>1. Bucket(b) = buks[b]
        BY <1>4
      <4>2. buks[b] = buks[a] => b = a
        BY <1>3, <2>5, <2>6
      <4> QED
        BY <2>6, <4>1, <4>2
    <3> QED
      BY <2>5, <3>1
  <2> QED
    BY <2>4, <2>7, FS_Singleton
<1> QED
  BY <1>6, <1>7

\* There every entry can be found again between calls (AllReachable), whatever
\* inserts, replacements, resizes and failed allocations came before: no empty
\* bucket gets in the way of the triangular probes of my_search.
THEOREM EntriesReachable ==
  ASSUME NEW L, Narrow(L, MaxEnts), Distinct
  PROVE  Spec => []AllReachable
<1>1. IInv /\ TInv(L) => AllReachable
  BY Reach
<1> QED
  BY <1>1, Invariance, SmallTables, PTL

\* There the buckets are an index of the entries between calls
\* (BucketsIndexEntries): one bucket per entry, and nothing else in any.
THEOREM BucketsIndex ==
  ASSUME NEW L, Narrow(L, MaxEnts), Distinct
  PROVE  Spec => []BucketsIndexEntries
<1>1. IInv /\ TInv(L) => BucketsIndexEntries
  BY Reach
<1> QED
  BY <1>1, Invariance, SmallTables, PTL

(***************************************************************************)
(* A small table is a map.                                                 *)
(***************************************************************************)

\* Which call runs.
CallRuns ==
  /\ pc = "idle" => call.ret # Running /\ call.fn # "del"
  /\ pc \in {"resize", "rehash"} => call.ret = Running /\ call.fn = "set"
  /\ Searching => call.ret = Running /\ call.fn = IF find.user = "get" THEN "get" ELSE "set"

\* Every step keeps it so.
LEMMA CallRunsStep ==
  ASSUME IInv, CallRuns, [Next]_vars
  PROVE  CallRuns'
<1>1. call \in [fn : {"new", "get", "set", "del"}, key : Key \cup {None},
               hash : Nat, val : Val \cup {None}, ret : {Running, 0, -1, -20},
               out : Val \cup {None}]
  BY DEF IInv, TypeOK, CallType
<1>2. ASSUME NEW k \in Key, NEW h \in {Hash[k]} \cup Garbage, Get(k, h)
      PROVE  CallRuns'
  BY <1>2 DEF Get, Search, New, CallRuns, Searching
<1>3. ASSUME NEW k \in Key, NEW h \in {Hash[k]} \cup Garbage, NEW v \in Val, Set(k, h, v)
      PROVE  CallRuns'
  <2>1. call'.ret = Running /\ call'.fn = "set" /\ pc' \in {"resize", "probe", "found"}
    BY <1>3 DEF Set, Search, New
  <2>2. pc' # "resize" => find'.user = "set"
    BY <1>3 DEF Set, Search
  <2> QED
    BY <2>1, <2>2 DEF CallRuns, Searching
<1>4. ASSUME NEW k \in Key, NEW fn \in {"get", "set"}, HashFails(fn, k)
      PROVE  CallRuns'
  BY <1>4 DEF HashFails, New, Returned, CallRuns, Searching, Running
<1>5. CASE Del
  BY <1>5 DEF Del, CallRuns, Searching
<1>6. CASE ResizeEnough \/ RehashEnd
  <2>1. pc \in {"resize", "rehash"} /\ call' = call /\ Resized
    BY <1>6 DEF ResizeEnough, RehashEnd, local
  <2>2. pc' \in {"probe", "found"} /\ find'.user # "get"
    BY <2>1 DEF Resized, Search
  <2> QED
    BY <2>1, <2>2 DEF CallRuns, Searching
<1>7. CASE Resize
  BY <1>7 DEF Resize, CallRuns, Searching
<1>8. CASE RehashNext
  BY <1>8 DEF RehashNext, Search, CallRuns, Searching, local
<1>9. CASE RehashPlace
  BY <1>9 DEF RehashPlace, CallRuns, Searching
<1>10. CASE RehashTwice \/ ProbeWild \/ InsertOverrun \/ AgainElsewhere
  BY <1>10 DEF RehashTwice, ProbeWild, InsertOverrun, AgainElsewhere, Stop, CallRuns, Searching
<1>11. CASE ProbeEmpty \/ ProbeMatch \/ ProbeEqFails \/ ProbeNext \/ ProbeExhausted
  <2>1. pc = "probe" /\ call' = call /\ pc' \in {"probe", "found", "failed"}
    BY <1>11 DEF ProbeEmpty, ProbeMatch, ProbeEqFails, ProbeNext, ProbeExhausted, Found, NotFound, local
  <2>2. find'.user = find.user
    BY <1>11 DEF ProbeEmpty, ProbeMatch, ProbeEqFails, ProbeNext, ProbeExhausted, Found, NotFound, search,
                 IInv, TypeOK, SearchType
  <2> QED
    BY <2>1, <2>2 DEF CallRuns, Searching
<1>12. CASE \/ GetReturns \/ Replace \/ SetFindFails \/ InsertNoMemory \/ Insert
            \/ AgainPlace \/ AgainFails \/ FirstResizeFails \/ GrowResizeFails
  <2>1. Searching /\ call.fn # "del"
    BY <1>12 DEF GetReturns, Replace, SetFindFails, InsertNoMemory, Insert, Inserting, AgainPlace,
                 AgainFails, FirstResizeFails, GrowResizeFails, CallRuns, Searching
  <2>2. \E ret \in {0, -1, -20}, out \in {None} \cup {ents[res.ei + 1].val} : Return(ret, out)
    BY <1>12 DEF GetReturns, Replace, SetFindFails, InsertNoMemory, Insert, AgainPlace,
                 AgainFails, FirstResizeFails, GrowResizeFails
  <2>3. pc' = "idle" /\ call'.fn = call.fn /\ call'.ret \in {0, -1, -20}
    BY <1>1, <2>2 DEF Return, Returned
  <2> QED
    BY <2>1, <2>3 DEF CallRuns, Searching, Running
<1>13. CASE InsertGrows
  BY <1>13 DEF InsertGrows, Inserting, CallRuns, Searching
<1>14. CASE UNCHANGED vars
  BY <1>14 DEF vars, local, search, CallRuns, Searching
<1> QED
  BY <1>2, <1>3, <1>4, <1>5, <1>6, <1>7, <1>8, <1>9, <1>10, <1>11, <1>12, <1>13, <1>14 DEF Next, Call, Step

\* No key has two entries.
Unique(es) == \A e, f \in DOMAIN es : es[e].key = es[f].key => e = f

\* The map that entries es stand for.
MapOf(es) ==
  [kh \in Key \X HashVal |->
     IF \E e \in DOMAIN es : <<es[e].key, es[e].hash>> = kh
     THEN es[CHOOSE e \in DOMAIN es : <<es[e].key, es[e].hash>> = kh].val
     ELSE None]

\* It has the value of an entry under its key and hash.
LEMMA MapHit ==
  ASSUME NEW es, Unique(es), NEW k \in Key, NEW h \in HashVal,
         NEW e \in DOMAIN es, es[e].key = k, es[e].hash = h
  PROVE  MapOf(es)[<<k, h>>] = es[e].val
<1> DEFINE kh == <<k, h>>
           P(f) == <<es[f].key, es[f].hash>> = kh
           c == CHOOSE f \in DOMAIN es : P(f)
<1>1. kh \in Key \X HashVal
  OBVIOUS
<1>2. \E f \in DOMAIN es : P(f)
  OBVIOUS
<1>3. c \in DOMAIN es /\ P(c)
  BY <1>2, Zenon
<1>4. c = e
  <2> HIDE DEF c
  <2>1. es[c].key = k
    BY <1>3
  <2> QED
    BY <1>3, <2>1 DEF Unique
<1>5. MapOf(es)[kh] = IF \E f \in DOMAIN es : P(f) THEN es[c].val ELSE None
  <2> HIDE DEF kh
  <2> QED
    BY <1>1, Zenon DEF MapOf
<1> HIDE DEF P, c
<1>6. MapOf(es)[kh] = es[e].val
  BY <1>2, <1>4, <1>5
<1> QED
  BY <1>6

\* It has no value where there is no entry.
LEMMA MapMiss ==
  ASSUME NEW es, NEW k \in Key, NEW h \in HashVal,
         \A e \in DOMAIN es : ~(es[e].key = k /\ es[e].hash = h)
  PROVE  MapOf(es)[<<k, h>>] = None
<1> DEFINE kh == <<k, h>>
<1>1. kh \in Key \X HashVal
  OBVIOUS
<1>2. ~\E e \in DOMAIN es : <<es[e].key, es[e].hash>> = kh
  OBVIOUS
<1> HIDE DEF kh
<1>3. MapOf(es)[kh] = None
  BY <1>1, <1>2, Zenon DEF MapOf
<1> QED
  BY <1>3 DEF kh

\* An entry of a key and hash more, or of another value, is that update of the map.
LEMMA MapUpdate ==
  ASSUME NEW es, Unique(es), NEW fs, Unique(fs), NEW k \in Key, NEW h \in HashVal, NEW v,
         NEW c \in DOMAIN fs, fs[c].key = k, fs[c].hash = h, fs[c].val = v,
         \A e \in DOMAIN fs : fs[e].key # k => e \in DOMAIN es /\ fs[e] = es[e],
         \A e \in DOMAIN es : es[e].key # k => e \in DOMAIN fs /\ fs[e] = es[e],
         \A e \in DOMAIN es : es[e].key = k => es[e].hash = h
  PROVE  MapOf(fs) = [MapOf(es) EXCEPT ![<<k, h>>] = v]
<1> DEFINE M == MapOf(es)
           N == MapOf(fs)
<1>1. DOMAIN M = Key \X HashVal /\ DOMAIN N = Key \X HashVal
  BY DEF MapOf
<1>7. N = [x \in Key \X HashVal |-> N[x]] /\ M = [x \in Key \X HashVal |-> M[x]]
  BY DEF MapOf
<1>2. N[<<k, h>>] = v
  BY MapHit
<1>3. ASSUME NEW a \in Key, NEW b \in HashVal, <<a, b>> # <<k, h>>
      PROVE  N[<<a, b>>] = M[<<a, b>>]
  <2>1. CASE \E e \in DOMAIN fs : fs[e].key = a /\ fs[e].hash = b
    <3>1. PICK e \in DOMAIN fs : fs[e].key = a /\ fs[e].hash = b
      BY <2>1
    <3>2. a # k
      <4>1. SUFFICES ASSUME a = k PROVE FALSE
        OBVIOUS
      <4>2. e = c
        BY <3>1, <4>1 DEF Unique
      <4> QED
        BY <1>3, <3>1, <4>1, <4>2
    <3>3. e \in DOMAIN es /\ fs[e] = es[e]
      BY <3>1, <3>2
    <3>4. N[<<a, b>>] = fs[e].val
      BY <3>1, MapHit
    <3>5. M[<<a, b>>] = es[e].val
      BY <3>1, <3>3, MapHit
    <3> QED
      BY <3>3, <3>4, <3>5
  <2>2. CASE ~\E e \in DOMAIN fs : fs[e].key = a /\ fs[e].hash = b
    <3>1. N[<<a, b>>] = None
      BY <2>2, MapMiss
    <3>2. \A e \in DOMAIN es : ~(es[e].key = a /\ es[e].hash = b)
      BY <1>3, <2>2
    <3>3. M[<<a, b>>] = None
      BY <3>2, MapMiss
    <3> QED
      BY <3>1, <3>3
  <2> QED
    BY <2>1, <2>2
<1>4. ASSUME NEW x \in Key \X HashVal
      PROVE  N[x] = [M EXCEPT ![<<k, h>>] = v][x]
  <2>1. PICK a \in Key, b \in HashVal : x = <<a, b>>
    OBVIOUS
  <2> HIDE DEF M, N
  <2>2. CASE x = <<k, h>>
    BY <1>1, <1>2, <2>2
  <2>3. CASE x # <<k, h>>
    BY <1>1, <1>3, <2>1, <2>3
  <2> QED
    BY <2>2, <2>3
<1> HIDE DEF M, N
<1>5. DOMAIN [M EXCEPT ![<<k, h>>] = v] = Key \X HashVal
  BY <1>1
<1>6. N = [M EXCEPT ![<<k, h>>] = v]
  BY <1>1, <1>4, <1>5, <1>7
<1> QED
  BY <1>6 DEF M, N

\* The map of a small table is that of its entries.
LEMMA MapIs ==
  ASSUME NEW L, TInv(L)
  PROVE  Map = MapOf(ents)
<1>1. Stored = ents
  BY DEF Stored, TInv, LengthOK
<1> QED
  BY <1>1, Zenon DEF Map, MapOf

\* The same of the next state.
LEMMA MapBecomes ==
  ASSUME NEW L, TInv(L)'
  PROVE  Map' = MapOf(ents')
<1>1. Stored' = ents'
  BY DEF Stored, TInv, LengthOK
<1>2. Map' = [kh \in Key \X HashVal |->
                IF \E e \in DOMAIN Stored' : <<Stored'[e].key, Stored'[e].hash>> = kh
                THEN Stored'[CHOOSE e \in DOMAIN Stored' : <<Stored'[e].key, Stored'[e].hash>> = kh].val
                ELSE None]
  BY Zenon DEF Map
<1> QED
  BY <1>1, <1>2, Zenon DEF MapOf

\* The keys of the entries differ, and so do their hashes.
LEMMA KeysDiffer ==
  ASSUME NEW L, IInv, TInv(L)
  PROVE  /\ Unique(ents)
         /\ \A e \in DOMAIN ents : ents[e].key \in Key /\ ents[e].hash = Hash[ents[e].key] /\ ents[e].val \in Val
<1>1. Unique(ents)
  BY DEF Unique, TInv, KeysOK
<1>2. \A e \in DOMAIN ents : ents[e].key \in Key /\ ents[e].hash = Hash[ents[e].key] /\ ents[e].val \in Val
  BY EntryType DEF IInv, TInv, KeysOK
<1> QED
  BY <1>1, <1>2

\* A lookup that misses: the key has no entry.
LEMMA Misses ==
  ASSUME NEW L, Narrow(L, MaxEnts), IInv, TInv(L), find.user = "get",
         (pc = "found" /\ res.ei < 0) \/ pc = "failed"
  PROVE  \A e \in DOMAIN ents : ents[e].key # find.key
<1>1. Searching /\ ~Rehashing /\ Placed = Len(ents)
  BY DEF Searching, Rehashing, Placed
<1>2. DOMAIN ents = 1..Len(ents) /\ Len(ents) \in Nat /\ buks_len \in 0..253
      /\ (Len(ents) < buks_len \/ (buks_len = 0 /\ Len(ents) = 0))
  BY TableFacts
<1>3. \A e \in DOMAIN ents : ents[e].hash = Hash[ents[e].key]
  BY DEF TInv, KeysOK
<1>4. CASE buks_len = 0
  BY <1>2, <1>4
<1>5. CASE buks_len # 0
  <2> DEFINE p == buks_len
             h == find.hash
             k == find.key
             n == Len(ents)
  <2>1. Filled(buks, p, ents, n) /\ p \in Nat \ {0} /\ n \in 0..254 /\ h = Hash[k]
    <3>1. Filled(buks, p, ents, n) /\ h = Hash[k]
      BY <1>1 DEF TInv, TableOK, CallOK
    <3>2. p \in 0..253 /\ n \in Nat /\ p # 0 /\ (n < p \/ n = 0)
      BY <1>2, <1>5
    <3> HIDE DEF p, n
    <3>3. p \in Nat \ {0} /\ n \in 0..254
      BY <3>2
    <3> QED
      BY <3>1, <3>3
  <2>2. PICK t \in 0..(p - 1) : Walked(buks, p, ents, k, h, t) /\ Ended(buks, p, h, t)
    <3>1. CASE pc = "failed"
      <4>1. Walked(buks, p, ents, k, h, p - 1)
        BY <3>1 DEF TInv, PathOK
      <4>2. p - 1 \in 0..(p - 1)
        BY <2>1
      <4> QED
        BY <4>1, <4>2 DEF Ended
    <3>2. CASE pc = "found" /\ res.ei < 0
      <4>1. Walked(buks, p, ents, k, h, find.tries) /\ Open(buks, p, h, find.tries) /\ find.tries \in 0..(p - 2)
        BY <1>5, <3>2, PlaceFacts
      <4>2. find.tries \in 0..(p - 1)
        <5>1. p \in Nat /\ find.tries \in 0..(p - 2)
          BY <2>1, <4>1
        <5> HIDE DEF p
        <5> QED
          BY <5>1
      <4> QED
        BY <4>1, <4>2 DEF Open, Ended
    <3> QED
      BY <3>1, <3>2
  <2> HIDE DEF p, h, k, n
  <2>3. Absent(ents, n, h, k)
    BY <2>1, <2>2, NotThere
  <2>4. \A e \in DOMAIN ents : ents[e].key # k
    BY <1>2, <1>3, <2>1, <2>3 DEF Absent, n
  <2> QED
    BY <2>4 DEF k
<1> QED
  BY <1>4, <1>5

\* The hash a call passes is that of its key.
LEMMA CallPasses ==
  ASSUME NEW L, IInv, TInv(L), Searching
  PROVE  /\ call.key \in Key /\ call.hash = Hash[call.key] /\ call.hash \in HashVal
         /\ call \in [fn : {"new", "get", "set", "del"}, key : Key \cup {None},
                      hash : Nat, val : Val \cup {None}, ret : {Running, 0, -1, -20},
                      out : Val \cup {None}]
BY DEF TInv, CallOK, HashVal, IInv, TypeOK, CallType

\* A lookup returns what the map holds.
LEMMA GetRefines ==
  ASSUME NEW L, Narrow(L, MaxEnts), IInv, TInv(L), TInv(L)', CallRuns, GetReturns
  PROVE  Abs!Get
<1> DEFINE k == call.key
           h == call.hash
           M == MapOf(ents)
<1>1. pc \in {"found", "failed"} /\ find.user = "get" /\ Searching /\ ents' = ents
  BY DEF GetReturns, Searching, data
<1>2. call.ret = Running /\ call.fn = "get"
  BY <1>1 DEF CallRuns
<1>3. k \in Key /\ h = Hash[k] /\ h \in HashVal /\ find.key = k
  BY <1>1, CallPasses DEF TInv, CallOK
<1>4. Map = M /\ Map' = M
  <2>1. Map = MapOf(ents)
    BY MapIs
  <2>2. Map' = MapOf(ents')
    BY MapBecomes
  <2> QED
    BY <1>1, <2>1, <2>2
<1>5. call' = Returned(call, IF M[<<k, h>>] = None THEN -1 ELSE 0, M[<<k, h>>])
  <2>1. CASE pc = "found" /\ res.ei >= 0
    <3> DEFINE e == res.ei + 1
    <3>1. res.ei < Len(ents) /\ ents[e].key = find.key
      BY <1>1, <2>1 DEF TInv, PathOK, Placed, Rehashing
    <3>2. e \in DOMAIN ents
      BY <2>1, <3>1, LenType DEF IInv, TypeOK, SearchType
    <3>3. ents[e].key = k /\ ents[e].hash = h /\ ents[e].val \in Val /\ Unique(ents)
      BY <1>3, <3>1, <3>2, KeysDiffer
    <3>4. call' = Returned(call, 0, ents[e].val)
      BY <2>1 DEF GetReturns, Return
    <3> HIDE DEF e, k, h
    <3>5. M[<<k, h>>] = ents[e].val
      BY <1>3, <3>2, <3>3, MapHit
    <3>6. M[<<k, h>>] # None
      BY <3>3, <3>5, ObjectAssumption
    <3> QED
      BY <3>4, <3>5, <3>6
  <2>2. CASE ~(pc = "found" /\ res.ei >= 0)
    <3>1. (pc = "found" /\ res.ei < 0) \/ pc = "failed"
      BY <1>1, <2>2 DEF IInv, TypeOK, SearchType
    <3>2. \A e \in DOMAIN ents : ents[e].key # k
      BY <1>1, <1>3, <3>1, Misses
    <3>3. call' = Returned(call, -1, None)
      BY <2>2 DEF GetReturns, Return
    <3> HIDE DEF k, h
    <3>4. M[<<k, h>>] = None
      BY <1>3, <3>2, MapMiss
    <3> QED
      BY <3>3, <3>4
  <2> QED
    BY <2>1, <2>2
<1> HIDE DEF M
<1> QED
  BY <1>2, <1>4, <1>5, Zenon DEF Abs!Get, Abs!Returned, Returned, Abs!Running, Running

\* A replacement updates the map.
LEMMA ReplaceRefines ==
  ASSUME NEW L, Narrow(L, MaxEnts), IInv, TInv(L), TInv(L)', CallRuns, Replace
  PROVE  Abs!Set
<1> DEFINE k == call.key
           h == call.hash
           v == call.val
           c == res.ei + 1
<1>1. /\ pc = "found" /\ res.ei >= 0 /\ find.user = "set" /\ Searching
      /\ ents' = [ents EXCEPT ![c].val = v]
      /\ call' = Returned(call, 0, None)
  BY DEF Replace, Searching, Return
<1>2. call.ret = Running /\ call.fn = "set"
  BY <1>1 DEF CallRuns
<1>3. k \in Key /\ h = Hash[k] /\ h \in HashVal /\ find.key = k
  BY <1>1, CallPasses DEF TInv, CallOK
<1>4. res.ei < Len(ents) /\ ents[c].key = find.key
  BY <1>1 DEF TInv, PathOK, Placed, Rehashing
<1>5. c \in DOMAIN ents
  BY <1>1, <1>4, LenType DEF IInv, TypeOK, SearchType
<1>6. \A e \in DOMAIN ents : ents[e] \in [key : Key, hash : Nat, val : Val]
  BY ElementOfSeq, LenType DEF IInv, TypeOK, EntsType
<1>7. Unique(ents) /\ \A e \in DOMAIN ents : ents[e].hash = Hash[ents[e].key]
  BY KeysDiffer
<1>8. Unique(ents')
  BY DEF Unique, TInv, KeysOK
<1>9. /\ DOMAIN ents' = DOMAIN ents
      /\ ents'[c].key = k /\ ents'[c].hash = h /\ ents'[c].val = v
      /\ \A e \in DOMAIN ents : e # c => ents'[e] = ents[e]
  BY <1>1, <1>3, <1>4, <1>5, <1>6, <1>7
<1>10. MapOf(ents') = [MapOf(ents) EXCEPT ![<<k, h>>] = v]
  <2> DEFINE es == ents
             fs == ents'
  <2>1. Unique(es) /\ Unique(fs) /\ c \in DOMAIN fs /\ fs[c].key = k /\ fs[c].hash = h /\ fs[c].val = v
    BY <1>5, <1>7, <1>8, <1>9
  <2>2. \A e \in DOMAIN fs : fs[e].key # k => e \in DOMAIN es /\ fs[e] = es[e]
    BY <1>9
  <2>3. \A e \in DOMAIN es : es[e].key # k => e \in DOMAIN fs /\ fs[e] = es[e]
    BY <1>3, <1>4, <1>9
  <2>4. \A e \in DOMAIN es : es[e].key = k => es[e].hash = h
    BY <1>3, <1>7
  <2>5. k \in Key /\ h \in HashVal
    BY <1>3
  <2> HIDE DEF es, fs, k, h, v, c
  <2>6. MapOf(fs) = [MapOf(es) EXCEPT ![<<k, h>>] = v]
    BY <2>1, <2>2, <2>3, <2>4, <2>5, MapUpdate
  <2> QED
    BY <2>6 DEF es, fs
<1>11. Map = MapOf(ents) /\ Map' = MapOf(ents')
  BY MapIs, MapBecomes
<1> QED
  BY <1>1, <1>2, <1>10, <1>11, Zenon DEF Abs!Set, Abs!Returned, Returned, Abs!Running, Running

\* An insertion updates the map.
LEMMA InsertRefines ==
  ASSUME NEW L, Narrow(L, MaxEnts), IInv, TInv(L), TInv(L)', CallRuns, Insert
  PROVE  Abs!Set
<1> DEFINE k == call.key
           h == call.hash
           v == call.val
           n == Len(ents)
<1>1. /\ Inserting /\ EntryAdded /\ Searching /\ find.user = "set"
      /\ call' = Returned(call, 0, None)
  BY DEF Insert, Inserting, Searching, Return
<1>2. call.ret = Running /\ call.fn = "set"
  BY <1>1 DEF CallRuns
<1>3. k \in Key /\ h = Hash[k] /\ h \in HashVal
  BY <1>1, CallPasses
<1>4. /\ n \in Nat /\ DOMAIN ents = 1..n /\ DOMAIN ents' = 1..(n + 1)
      /\ \A e \in 1..n : ents'[e] = ents[e]
      /\ ents'[n + 1].key = k /\ ents'[n + 1].hash = h /\ ents'[n + 1].val = v
  BY <1>1, AddedEntry
<1>5. \A e \in DOMAIN ents : ents[e].key # k
  BY <1>1, NewKey
<1>6. Unique(ents) /\ Unique(ents')
  BY DEF Unique, TInv, KeysOK
<1>7. MapOf(ents') = [MapOf(ents) EXCEPT ![<<k, h>>] = v]
  <2> DEFINE es == ents
             fs == ents'
             c == n + 1
  <2>1. Unique(es) /\ Unique(fs) /\ c \in DOMAIN fs /\ fs[c].key = k /\ fs[c].hash = h /\ fs[c].val = v
    BY <1>4, <1>6
  <2>2. \A e \in DOMAIN fs : fs[e].key # k => e \in DOMAIN es /\ fs[e] = es[e]
    <3>1. \A e \in 1..(n + 1) : e \in 1..n \/ e = n + 1
      BY <1>4
    <3> QED
      BY <1>4, <3>1
  <2>3. \A e \in DOMAIN es : es[e].key # k => e \in DOMAIN fs /\ fs[e] = es[e]
    <3>1. \A e \in 1..n : e \in 1..(n + 1)
      BY <1>4
    <3> QED
      BY <1>4, <3>1
  <2>4. \A e \in DOMAIN es : es[e].key = k => es[e].hash = h
    BY <1>5
  <2>5. k \in Key /\ h \in HashVal
    BY <1>3
  <2> HIDE DEF es, fs, k, h, v, c
  <2>6. MapOf(fs) = [MapOf(es) EXCEPT ![<<k, h>>] = v]
    BY <2>1, <2>2, <2>3, <2>4, <2>5, MapUpdate
  <2> QED
    BY <2>6 DEF es, fs
<1>8. Map = MapOf(ents) /\ Map' = MapOf(ents')
  BY MapIs, MapBecomes
<1> QED
  BY <1>1, <1>2, <1>7, <1>8, Zenon DEF Abs!Set, Abs!Returned, Returned, Abs!Running, Running

\* A step that changes no entry leaves the map alone.
LEMMA SameMap ==
  ASSUME NEW L, TInv(L), TInv(L)', ents' = ents
  PROVE  Map' = Map
<1>1. Map = MapOf(ents) /\ Map' = MapOf(ents')
  BY MapIs, MapBecomes
<1> QED
  BY <1>1

\* Every step of a small table is one of the map, or none.
LEMMA MapStep ==
  ASSUME NEW L, Narrow(L, MaxEnts), Distinct, IInv, TInv(L), TInv(L)', CallRuns, [Next]_vars
  PROVE  [Abs!Next]_(Abs!vars)
<1>1. ASSUME ents' = ents, call' = call
      PROVE  UNCHANGED Abs!vars
  BY <1>1, SameMap DEF Abs!vars
<1>2. CASE UNCHANGED vars
  BY <1>1, <1>2 DEF vars, data, local
<1>3. ASSUME NEW k \in Key, NEW h \in {Hash[k]} \cup Garbage, Get(k, h)
      PROVE  Abs!Next
  <2>1. h \in HashVal
    BY HashType
  <2>2. call' = New("get", k, h, None) /\ ents' = ents /\ call.ret # Running /\ call.fn # "del"
    BY <1>3 DEF Get, CallRuns, data
  <2>3. Map' = Map
    BY <2>2, SameMap
  <2>4. Abs!Begin("get", k, h, None)
    BY <2>2, <2>3, Zenon DEF Abs!Begin, Abs!New, New, Abs!Running, Running
  <2> QED
    BY <2>1, <2>4, Zenon DEF Abs!Next
<1>4. ASSUME NEW k \in Key, NEW h \in {Hash[k]} \cup Garbage, NEW v \in Val, Set(k, h, v)
      PROVE  Abs!Next
  <2>1. h \in HashVal
    BY HashType
  <2>2. call' = New("set", k, h, v) /\ ents' = ents /\ call.ret # Running /\ call.fn # "del"
    BY <1>4 DEF Set, CallRuns, data
  <2>3. Map' = Map
    BY <2>2, SameMap
  <2>4. Abs!Begin("set", k, h, v)
    BY <2>2, <2>3, Zenon DEF Abs!Begin, Abs!New, New, Abs!Running, Running
  <2> QED
    BY <2>1, <2>4, Zenon DEF Abs!Next
<1>5. ASSUME NEW k \in Key, NEW fn \in {"get", "set"} PROVE ~HashFails(fn, k)
  BY DEF HashFails, Distinct
<1>6. CASE Del
  <2>1. /\ ents' = <<>> /\ call' = Returned(New("del", None, 0, None), 0, None)
        /\ call.ret # Running /\ call.fn # "del"
    BY <1>6 DEF Del, CallRuns
  <2>2. Map' = MapOf(<<>>)
    BY <2>1, MapBecomes
  <2>3. MapOf(<<>>) = [kh \in Key \X HashVal |-> None]
    <3>1. DOMAIN <<>> = {}
      OBVIOUS
    <3> QED
      BY <3>1 DEF MapOf
  <2>4. Abs!Del
    BY <2>1, <2>2, <2>3, Zenon DEF Abs!Del, Abs!Returned, Returned, Abs!New, New, Abs!Running, Running
  <2> QED
    BY <2>4, Zenon DEF Abs!Next
<1>7. CASE Call
  BY <1>3, <1>4, <1>5, <1>6, <1>7 DEF Call
<1>8. CASE Step
  <2>1. CASE \/ ResizeEnough \/ Resize \/ RehashNext \/ RehashPlace \/ RehashEnd
             \/ ProbeEmpty \/ ProbeMatch \/ ProbeEqFails \/ ProbeNext \/ ProbeExhausted \/ ProbeWild
             \/ InsertOverrun
    <3>1. ents' = ents /\ call' = call
      BY <2>1 DEF ResizeEnough, Resize, RehashNext, RehashPlace, RehashEnd, ProbeEmpty, ProbeMatch,
                  ProbeEqFails, ProbeNext, ProbeExhausted, ProbeWild, InsertOverrun, Found, NotFound,
                  Stop, data, local
    <3> QED
      BY <1>1, <3>1
  <2>2. CASE GetReturns
    BY <2>2, GetRefines, Zenon DEF Abs!Next
  <2>3. CASE Replace
    BY <2>3, ReplaceRefines, Zenon DEF Abs!Next
  <2>4. CASE Insert
    BY <2>4, InsertRefines, Zenon DEF Abs!Next
  <2>5. CASE SetFindFails \/ InsertNoMemory
    <3>1. /\ Searching /\ find.user = "set" /\ ents' = ents
          /\ \E ret \in {-1, -20} : call' = Returned(call, ret, None)
      BY <2>5 DEF SetFindFails, InsertNoMemory, Inserting, Searching, Return, data
    <3>2. call.ret = Running /\ call.fn = "set"
      BY <3>1 DEF CallRuns
    <3>3. Map' = Map
      BY <3>1, SameMap
    <3>4. Abs!SetFails
      BY <3>1, <3>2, <3>3, Zenon DEF Abs!SetFails, Abs!Returned, Returned, Abs!Running, Running
    <3> QED
      BY <3>4, Zenon DEF Abs!Next
  <2>6. CASE InsertGrows
    BY <2>6, BelowLimit DEF InsertGrows
  <2>7. CASE \/ RehashTwice \/ AgainPlace \/ AgainElsewhere \/ AgainFails
             \/ FirstResizeFails \/ GrowResizeFails
    BY <2>7, NeverTwice
  <2> QED
    BY <1>8, <2>1, <2>2, <2>3, <2>4, <2>5, <2>6, <2>7 DEF Step
<1> QED
  BY <1>2, <1>7, <1>8 DEF Next

\* A new dictionary is the empty map.
LEMMA InitMap ==
  ASSUME NEW L, Narrow(L, MaxEnts), Init
  PROVE  Abs!Init /\ CallRuns
<1>1. ents = <<>> /\ pc = "idle" /\ call = Returned(New("new", None, 0, None), 0, None)
  BY DEF Init
<1>2. Map = MapOf(ents)
  BY InitTable, MapIs
<1>3. Map = [kh \in Key \X HashVal |-> None]
  <2>1. DOMAIN ents = {}
    BY <1>1
  <2> QED
    BY <1>2, <2>1 DEF MapOf
<1>4. Abs!Init
  BY <1>1, <1>3, Zenon DEF Abs!Init, Abs!Returned, Returned, Abs!New, New, Abs!Running, Running
<1>5. CallRuns
  BY <1>1 DEF CallRuns, Searching, Returned, New, Running
<1> QED
  BY <1>4, <1>5

\* A small table of keys of distinct hashes implements the map of KdictMap
\* (ImplementsMap): kdict_getx returns the value last set for the key, or an
\* error if there is none, kdict_setx updates that key alone, in one step, and
\* a call that fails changes nothing.
THEOREM TableIsMap ==
  ASSUME NEW L, Narrow(L, MaxEnts), Distinct
  PROVE  Spec => ImplementsMap
<1>1. Init => Abs!Init /\ CallRuns
  BY InitMap
<1>2. IInv /\ CallRuns /\ [Next]_vars => CallRuns'
  BY CallRunsStep
<1>3. IInv /\ TInv(L) /\ TInv(L)' /\ CallRuns /\ [Next]_vars => [Abs!Next]_(Abs!vars)
  BY MapStep
<1>4. Spec => []IInv /\ []TInv(L)
  BY Invariance, SmallTables
<1> QED
  BY <1>1, <1>2, <1>3, <1>4, PTL DEF Spec, ImplementsMap, Abs!Spec
=============================================================================

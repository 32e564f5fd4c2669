-------------------------------- MODULE Kdict --------------------------------
(***************************************************************************)
(* kdict, the hash table of src/types/dict.c, over the bucket macros of    *)
(* include/kata/api.h.                                                     *)
(*                                                                         *)
(* A dictionary is an array of entries, in the order of their insertion,   *)
(* and an open-addressed array of buckets that hold indices of entries.    *)
(* The bucket array is modelled byte by byte, because its elements are 1,  *)
(* 2 or 4 bytes wide depending on a length the code passes to              *)
(* KDICT_PER_BUKS.  A call runs in several steps: one per probe of a       *)
(* bucket, one per entry put back by a rehash, one per outcome of a        *)
(* search.  No operation removes an entry, so the branches of the code     *)
(* that skip deleted buckets and fill holes between entries never run.     *)
(***************************************************************************)
EXTENDS Kmem, Sequences, FiniteSets

CONSTANTS
  Key, Val,       \* objects used as keys and as values
  None,           \* no object
  Hash,           \* [Key -> Nat], the hash a caller of the x variants passes
  Garbage,        \* the hashes kobj_hash, an empty stub, may leave behind
  MaxEnts,        \* bound: no call inserts into a table of this many entries
  OOM,            \* may an allocation fail?
  NextPrime(_)    \* kmem_nextprime

\* The lengths a table of at most MaxEnts entries asks for.
Target(n) == 1 + (10 * n) \div 3

ASSUME ObjectAssumption == Key \cap Val = {} /\ None \notin Key \cup Val
ASSUME HashAssumption == Hash \in [Key -> Nat] /\ Garbage \subseteq Nat
ASSUME BoundAssumption == MaxEnts \in Nat /\ MaxEnts < 536870912
ASSUME OOMAssumption == OOM \in BOOLEAN

\* kmem_nextprime returns a larger number, and by Bertrand's postulate one
\* at most twice as large; nothing else is assumed of it in the proofs.
ASSUME NextPrimeAssumption ==
  \A n \in 1..Target(MaxEnts) :
    NextPrime(n) \in Nat /\ n < NextPrime(n) /\ NextPrime(n) <= 2 * n + 1

HashVal == {Hash[k] : k \in Key} \cup Garbage

VARIABLES
  buks,        \* the bytes of the bucket array
  buks_len,    \* its length, in buckets
  buks_cap,    \* its recorded capacity, in bytes
  buks_blk,    \* the bytes really allocated to it
  ents,        \* the entries: ents_len is their number
  ents_cap,    \* their recorded capacity, in entries
  ents_blk,    \* the entries really allocated
  ents_real,   \* the count of entries that are not deleted
  refs,        \* references the dictionary holds on each object
  pc,          \* where the running call is
  call,        \* the running or else the last call, with its result
  caller,      \* who called my_resize: the "first" or the "grow" site
  i,           \* my_resize: entries put back so far
  find,        \* my_search: who searches, for what, at which bucket
  res          \* my_search: the results *rbi and *rei

mem == <<buks, buks_len, buks_cap, buks_blk, ents_cap, ents_blk>>
data == <<ents, ents_real, refs>>
local == <<call, caller, i>>
search == <<find, res>>
vars == <<mem, data, local, search, pc>>

(***************************************************************************)
(* Buckets.                                                                *)
(***************************************************************************)

\* KDICT_PER_BUKS: the bytes per bucket chosen for a length.
Width(len) == IF len <= 253 THEN 1 ELSE IF len <= 65533 THEN 2 ELSE 4

\* BUK_EMPTY at the width the length of the array selects; BUK_DEL is the
\* number before it.
Empty == IF Width(buks_len) = 1 THEN 254
         ELSE IF Width(buks_len) = 2 THEN 65534
         ELSE 65536 * 65535 + 65534

\* BUKS[b], little-endian, at that width.
Bucket(b) ==
  IF Width(buks_len) = 1 THEN buks[b]
  ELSE IF Width(buks_len) = 2 THEN buks[2 * b] + 256 * buks[2 * b + 1]
  ELSE buks[4 * b] + 256 * buks[4 * b + 1]
       + 65536 * (buks[4 * b + 2] + 256 * buks[4 * b + 3])

\* Mutant: the clearing loop runs one bucket too far.
Cleared_Past(len) ==
  [o \in 0..(Width(len) * (len + 1) - 1) |-> 254]

\* An array of len buckets, all empty.
Cleared(len) ==
  [o \in 0..(Width(len) * len - 1) |-> IF o % Width(len) = 0 THEN 254 ELSE 255]

\* Byte d of the number n.
Byte(n, d) == (n \div <<1, 256, 65536, 16777216>>[d + 1]) % 256

\* The bytes after BUKS[b] = v through a pointer to elements of w bytes.
Put(w, b, v) ==
  [o \in DOMAIN buks |->
     IF o \div w = b THEN Byte(v, o % w) ELSE buks[o]]

(***************************************************************************)
(* Shared steps.  A local of the code that is not in use has the value its *)
(* variable has here between calls.                                        *)
(***************************************************************************)
NoFind == [user |-> "none", key |-> None, hash |-> 0, bi |-> 0, tries |-> 0]
NoRes == [bi |-> -1, ei |-> -1]

\* A call that runs; -20 is KENO_ERR_OOM.
Running == 1
New(fn, k, h, v) ==
  [fn |-> fn, key |-> k, hash |-> h, val |-> v, ret |-> Running, out |-> None]

Returned(c, ret, out) == [c EXCEPT !.ret = ret, !.out = out]

\* The running call returns.
Return(ret, out) ==
  /\ call' = Returned(call, ret, out)
  /\ pc' = "idle" /\ caller' = "none" /\ i' = 0
  /\ find' = NoFind /\ res' = NoRes

\* The call to my_search that user makes.
Search(user, k, h) ==
  /\ find' = [user |-> user, key |-> k, hash |-> h, tries |-> 0,
              bi |-> IF buks_len = 0 THEN 0 ELSE h % buks_len]
  /\ res' = NoRes
  /\ pc' = IF buks_len = 0 THEN "found" ELSE "probe"

\* my_resize returns true: its caller goes on to search for the key.
Resized ==
  Search(IF caller = "first" THEN "set" ELSE "again", call.key, call.hash)

\* A failed assertion, or memory accessed outside an array: nothing is said
\* of the program from there on.
Stop(where) ==
  pc' = where /\ UNCHANGED <<mem, data, local, search>>

(***************************************************************************)
(* Calls.                                                                  *)
(***************************************************************************)

\* kdict_getx; with a hash that kobj_hash left behind, kdict_get, whose
\* false is written as -1 here.
Get(k, h) ==
  /\ pc = "idle"
  /\ call' = New("get", k, h, None)
  /\ Search("get", k, h)
  /\ UNCHANGED <<mem, data, caller, i>>

\* my_load(obj) > LOAD_MAX, or fewer buckets than three above the entries.
NeedsResize ==
  10 * Len(ents) > 7 * buks_len \/ buks_len < Len(ents) + 3

\* kdict_setx; with a garbage hash, kdict_set.
Set(k, h, v) ==
  /\ pc = "idle" /\ Len(ents) < MaxEnts
  /\ call' = New("set", k, h, v)
  /\ IF NeedsResize
     THEN pc' = "resize" /\ caller' = "first" /\ UNCHANGED search
     ELSE Search("set", k, h) /\ UNCHANGED caller
  /\ UNCHANGED <<mem, data, i>>

\* kdict_get and kdict_set when kobj_hash reports an error.
HashFails(fn, k) ==
  /\ pc = "idle" /\ Garbage # {}
  /\ call' = Returned(New(fn, k, 0, None), -1, None)
  /\ UNCHANGED <<mem, data, caller, i, search, pc>>

\* dict.__del: every entry gives back its two references.
Del ==
  /\ pc = "idle"
  /\ refs' = [o \in Key \cup Val |->
                refs[o] - Cardinality({e \in DOMAIN ents : o \in {ents[e].key, ents[e].val}})]
  /\ ents' = <<>> /\ ents_real' = 0 /\ ents_cap' = 0 /\ ents_blk' = 0
  /\ buks' = Cleared(0) /\ buks_len' = 0 /\ buks_cap' = 0 /\ buks_blk' = 0
  /\ call' = Returned(New("del", None, 0, None), 0, None)
  /\ pc' = "dead"
  /\ UNCHANGED <<caller, i, search>>

(***************************************************************************)
(* my_resize.                                                              *)
(***************************************************************************)

\* Already more buckets than asked for.
ResizeEnough ==
  /\ pc = "resize" /\ buks_len > Target(Len(ents))
  /\ Resized
  /\ UNCHANGED <<mem, data, local>>

\* The sizes realloc may leave behind when a capacity goes from old to new.
\* kmem_growx ignores a failure of realloc.
Allocated(blk, old, new) ==
  IF new = old THEN {blk} ELSE IF OOM THEN {blk, new} ELSE {new}

\* Mutant: the loop that puts entries back starts at the second one.
Resize_FromSecond ==
  /\ pc = "resize" /\ buks_len <= Target(Len(ents))
  /\ LET len == NextPrime(Target(Len(ents)))
         cap == kmem_nextcap(buks_cap, Width(buks_len) * len)
     IN  /\ buks_len' = len
         /\ buks_cap' = cap
         /\ buks_blk' \in Allocated(buks_blk, buks_cap, cap)
         /\ buks' = Cleared(len)
  /\ pc' = "rehash" /\ i' = IF ents = <<>> THEN 0 ELSE 1
  /\ UNCHANGED <<ents_cap, ents_blk, data, call, caller, search>>

\* Grow the bucket array and clear it.  The bytes asked for are computed
\* with the width of the old length.
Resize ==
  /\ pc = "resize" /\ buks_len <= Target(Len(ents))
  /\ LET len == NextPrime(Target(Len(ents)))
         cap == kmem_nextcap(buks_cap, Width(buks_len) * len)
     IN  /\ buks_len' = len
         /\ buks_cap' = cap
         /\ buks_blk' \in Allocated(buks_blk, buks_cap, cap)
         /\ buks' = Cleared(len)
         /\ pc' = IF Width(len) * len > buks_blk' THEN "overrun" ELSE "rehash"
  /\ i' = 0
  /\ UNCHANGED <<ents_cap, ents_blk, data, call, caller, search>>

\* Search for the place of the next entry.
RehashNext ==
  /\ pc = "rehash" /\ i < Len(ents)
  /\ Search("rehash", ents[i + 1].key, ents[i + 1].hash)
  /\ UNCHANGED <<mem, data, local>>

\* Mutant: the index is counted before it is written.
RehashPlace_CountsFirst ==
  /\ pc = "found" /\ find.user = "rehash" /\ res.ei < 0
  /\ buks' = Put(Width(buks_len), res.bi, i + 1)
  /\ i' = i + 1 /\ pc' = "rehash" /\ find' = NoFind /\ res' = NoRes
  /\ UNCHANGED <<buks_len, buks_cap, buks_blk, ents_cap, ents_blk, data,
                 call, caller>>

\* The search is back: assert(ei < 0), and point the bucket to the entry.
RehashPlace ==
  /\ pc = "found" /\ find.user = "rehash" /\ res.ei < 0
  /\ buks' = Put(Width(buks_len), res.bi, i)
  /\ i' = i + 1 /\ pc' = "rehash" /\ find' = NoFind /\ res' = NoRes
  /\ UNCHANGED <<buks_len, buks_cap, buks_blk, ents_cap, ents_blk, data,
                 call, caller>>

RehashTwice ==
  pc = "found" /\ find.user = "rehash" /\ res.ei >= 0 /\ Stop("abort")

\* All entries are back: assert(ents_real == ct).
RehashEnd ==
  /\ pc = "rehash" /\ i = Len(ents) /\ ents_real = i
  /\ Resized
  /\ UNCHANGED <<mem, data, local>>

(***************************************************************************)
(* my_search.                                                              *)
(***************************************************************************)
Cell == Bucket(find.bi)

InEntries == Cell < Len(ents)
\* Mutant: the hashes are not compared.
SameHash_Any == InEntries

SameHash == InEntries /\ ents[Cell + 1].hash = find.hash
SameKey == ents[Cell + 1].key = find.key

\* The bucket after tries + 1 probes, by triangular numbers.
NextBi == (find.bi + find.tries + 1) % buks_len

Found(b, e) ==
  /\ res' = [bi |-> b, ei |-> e] /\ pc' = "found"
  /\ UNCHANGED <<mem, data, local, find>>

NotFound ==
  /\ pc' = "failed"
  /\ UNCHANGED <<mem, data, local, search>>

ProbeEmpty == pc = "probe" /\ Cell = Empty /\ Found(find.bi, -1)

ProbeMatch == pc = "probe" /\ SameHash /\ SameKey /\ Found(find.bi, Cell)

\* Two objects of one hash are compared by kobj_eq, an empty stub: it either
\* reports an error or, not writing its result, says they differ.
ProbeEqFails == pc = "probe" /\ SameHash /\ ~SameKey /\ NotFound

\* Another entry, or a deleted one.
Skipped ==
  \/ Cell = Empty - 1
  \/ InEntries /\ ~(SameHash /\ SameKey)

\* Mutant: the second probe, over and over (tries is not counted).
ProbeNext_SameTry ==
  /\ pc = "probe" /\ Skipped /\ NextBi # find.hash % buks_len
  /\ find' = [find EXCEPT !.bi = (find.hash + 1) % buks_len]
  /\ UNCHANGED <<mem, data, local, res, pc>>

ProbeNext ==
  /\ pc = "probe" /\ Skipped /\ NextBi # find.hash % buks_len
  /\ find' = [find EXCEPT !.tries = @ + 1, !.bi = NextBi]
  /\ UNCHANGED <<mem, data, local, res, pc>>

\* Back at the first bucket: no place for the key.
ProbeExhausted ==
  /\ pc = "probe" /\ Skipped /\ NextBi = find.hash % buks_len
  /\ NotFound

\* The bucket holds an index past the entries, and the code reads there.
ProbeWild ==
  /\ pc = "probe" /\ ~InEntries /\ Cell \notin {Empty, Empty - 1}
  /\ Stop("wild")

(***************************************************************************)
(* The rest of kdict_getx and kdict_setx, once my_search is back.          *)
(***************************************************************************)
GetReturns ==
  /\ pc \in {"found", "failed"} /\ find.user = "get"
  /\ IF pc = "found" /\ res.ei >= 0
     THEN Return(0, ents[res.ei + 1].val)
     ELSE Return(-1, None)
  /\ UNCHANGED <<mem, data>>

\* Mutant: the old value keeps its reference.
Replace_Leaks ==
  /\ pc = "found" /\ find.user = "set" /\ res.ei >= 0
  /\ refs' = [refs EXCEPT ![call.val] = @ + 1]
  /\ ents' = [ents EXCEPT ![res.ei + 1].val = call.val]
  /\ Return(0, None)
  /\ UNCHANGED <<mem, ents_real>>

Replace ==
  /\ pc = "found" /\ find.user = "set" /\ res.ei >= 0
  /\ LET e == res.ei + 1
     IN  /\ refs' = [[refs EXCEPT ![call.val] = @ + 1]
                       EXCEPT ![ents[e].val] = @ - 1]
         /\ ents' = [ents EXCEPT ![e].val = call.val]
  /\ Return(0, None)
  /\ UNCHANGED <<mem, ents_real>>

\* Mutant: the value is stored over the first entry before the error shows.
SetFindFails_Stores ==
  /\ pc = "failed" /\ find.user = "set"
  /\ ents' = [ents EXCEPT ![1].key = call.key]
  /\ Return(-1, None)
  /\ UNCHANGED <<mem, ents_real, refs>>

SetFindFails ==
  /\ pc = "failed" /\ find.user = "set"
  /\ Return(-1, None)
  /\ UNCHANGED <<mem, data>>

Inserting == pc = "found" /\ find.user = "set" /\ res.ei < 0
NewLen == Len(ents) + 1

\* Mutants: the references are taken, or the entry is counted, first.
InsertNoMemory_Refs ==
  /\ Inserting /\ OOM /\ NewLen > ents_cap
  /\ ents_cap' = kmem_nextcap(ents_cap, NewLen)
  /\ refs' = [refs EXCEPT ![call.key] = @ + 1, ![call.val] = @ + 1]
  /\ Return(-20, None)
  /\ UNCHANGED <<buks, buks_len, buks_cap, buks_blk, ents_blk, ents, ents_real>>

InsertNoMemory_Counts ==
  /\ Inserting /\ OOM /\ NewLen > ents_cap
  /\ ents_cap' = kmem_nextcap(ents_cap, NewLen)
  /\ ents' = Append(ents, [key |-> call.key, hash |-> call.hash, val |-> call.val])
  /\ Return(-20, None)
  /\ UNCHANGED <<buks, buks_len, buks_cap, buks_blk, ents_blk, ents_real, refs>>

\* The capacity is recorded before kmem_grow fails.
InsertNoMemory ==
  /\ Inserting /\ OOM /\ NewLen > ents_cap
  /\ ents_cap' = kmem_nextcap(ents_cap, NewLen)
  /\ Return(-20, None)
  /\ UNCHANGED <<buks, buks_len, buks_cap, buks_blk, ents_blk, data>>

\* Make room for one more entry.
EntsGrown ==
  /\ ents_cap' = kmem_nextcap(ents_cap, NewLen)
  /\ ents_blk' = IF NewLen > ents_cap THEN ents_cap' ELSE ents_blk

\* The recorded capacity is enough and the allocated one is not.
InsertOverrun ==
  Inserting /\ NewLen <= ents_cap /\ NewLen > ents_blk /\ Stop("overrun")

EntryAdded ==
  /\ ents' = Append(ents, [key |-> call.key, hash |-> call.hash, val |-> call.val])
  /\ ents_real' = ents_real + 1
  /\ refs' = [refs EXCEPT ![call.key] = @ + 1, ![call.val] = @ + 1]

\* The last length each width of bucket can index.
AtLimit(n) == n \in {253, 65533}

Fits == NewLen <= ents_cap => NewLen <= ents_blk

\* Mutant: the bucket gets the new length instead of the index.
Insert_Length ==
  /\ Inserting /\ Fits /\ res.bi >= 0 /\ ~AtLimit(NewLen)
  /\ EntsGrown
  /\ EntryAdded
  /\ buks' = Put(Width(NewLen), res.bi, NewLen)
  /\ Return(0, None)
  /\ UNCHANGED <<buks_len, buks_cap, buks_blk>>

\* The bucket is written at the width of the number of ENTRIES.  There are
\* fewer of them than buckets, so the write stays inside the array.
Insert ==
  /\ Inserting /\ Fits /\ res.bi >= 0 /\ ~AtLimit(NewLen)
  /\ EntsGrown
  /\ EntryAdded
  /\ buks' = Put(Width(NewLen), res.bi, NewLen - 1)
  /\ Return(0, None)
  /\ UNCHANGED <<buks_len, buks_cap, buks_blk>>

\* At a limit the table is resized and the new entry searched for again.
InsertGrows ==
  /\ Inserting /\ Fits /\ (res.bi < 0 \/ AtLimit(NewLen))
  /\ EntsGrown
  /\ EntryAdded
  /\ pc' = "resize" /\ caller' = "grow" /\ find' = NoFind /\ res' = NoRes
  /\ UNCHANGED <<buks, buks_len, buks_cap, buks_blk, call, i>>

\* assert(bi >= 0), assert(new_ei == ei), and write the bucket again.
AgainPlace ==
  /\ pc = "found" /\ find.user = "again" /\ res.ei = Len(ents) - 1
  /\ buks' = Put(Width(Len(ents)), res.bi, res.ei)
  /\ Return(0, None)
  /\ UNCHANGED <<buks_len, buks_cap, buks_blk, ents_cap, ents_blk, data>>

AgainElsewhere ==
  /\ pc = "found" /\ find.user = "again" /\ res.ei # Len(ents) - 1
  /\ Stop("abort")

\* Mutant: the value keeps its reference.
EntryRemoved_Leaks ==
  /\ ents' = SubSeq(ents, 1, Len(ents) - 1)
  /\ ents_real' = ents_real - 1
  /\ refs' = [refs EXCEPT ![call.key] = @ - 1]

\* Take back the entry that was just added.
EntryRemoved ==
  /\ ents' = SubSeq(ents, 1, Len(ents) - 1)
  /\ ents_real' = ents_real - 1
  /\ refs' = [refs EXCEPT ![call.key] = @ - 1, ![call.val] = @ - 1]

AgainFails ==
  /\ pc = "failed" /\ find.user = "again"
  /\ EntryRemoved
  /\ Return(-1, None)
  /\ UNCHANGED mem

\* Mutant: the undoing of the grow site, where nothing was added.
FirstResizeFails_Undoes ==
  /\ pc = "failed" /\ find.user = "rehash" /\ caller = "first"
  /\ EntryRemoved
  /\ Return(-1, None)
  /\ UNCHANGED mem

\* my_resize returns false: the buckets keep what was put back so far.
FirstResizeFails ==
  /\ pc = "failed" /\ find.user = "rehash" /\ caller = "first"
  /\ Return(-1, None)
  /\ UNCHANGED <<mem, data>>

GrowResizeFails ==
  /\ pc = "failed" /\ find.user = "rehash" /\ caller = "grow"
  /\ EntryRemoved
  /\ Return(-20, None)
  /\ UNCHANGED mem

(***************************************************************************)
(* kdict_new leaves an empty table without arrays.                         *)
(***************************************************************************)
Init ==
  /\ buks = Cleared(0) /\ buks_len = 0 /\ buks_cap = 0 /\ buks_blk = 0
  /\ ents = <<>> /\ ents_cap = 0 /\ ents_blk = 0 /\ ents_real = 0
  /\ refs = [o \in Key \cup Val |-> 0]
  /\ pc = "idle" /\ caller = "none" /\ i = 0
  /\ find = NoFind /\ res = NoRes
  /\ call = Returned(New("new", None, 0, None), 0, None)

Call ==
  \/ \E k \in Key : \E h \in {Hash[k]} \cup Garbage :
       Get(k, h) \/ \E v \in Val : Set(k, h, v)
  \/ \E k \in Key, fn \in {"get", "set"} : HashFails(fn, k)
  \/ Del

\* One step of the running call.
Step ==
  \/ ResizeEnough \/ Resize
  \/ RehashNext \/ RehashPlace \/ RehashTwice \/ RehashEnd
  \/ ProbeEmpty \/ ProbeMatch \/ ProbeEqFails \/ ProbeNext
  \/ ProbeExhausted \/ ProbeWild
  \/ GetReturns \/ Replace \/ SetFindFails
  \/ InsertNoMemory \/ InsertOverrun \/ Insert \/ InsertGrows
  \/ AgainPlace \/ AgainElsewhere \/ AgainFails
  \/ FirstResizeFails \/ GrowResizeFails

Next == Call \/ Step

\* The thread that makes a call keeps running it.
Spec == Init /\ [][Next]_vars /\ WF_vars(Step)

(***************************************************************************)
(* Properties.                                                             *)
(***************************************************************************)
BuksType ==
  /\ buks_len \in Nat /\ buks_cap \in Nat /\ buks_blk \in Nat
  /\ buks \in [0..(Width(buks_len) * buks_len - 1) -> 0..255]

EntsType ==
  /\ ents \in Seq([key : Key, hash : Nat, val : Val])
  /\ ents_cap \in Nat /\ ents_blk \in Nat /\ ents_real \in Nat
  /\ refs \in [Key \cup Val -> Int]

CallType ==
  /\ pc \in {"idle", "resize", "rehash", "probe", "found", "failed",
             "dead", "abort", "wild", "overrun"}
  /\ call \in [fn : {"new", "get", "set", "del"}, key : Key \cup {None},
               hash : Nat, val : Val \cup {None}, ret : {Running, 0, -1, -20},
               out : Val \cup {None}]
  /\ caller \in {"none", "first", "grow"}
  /\ i \in Nat

SearchType ==
  /\ find \in [user : {"none", "get", "set", "rehash", "again"},
               key : Key \cup {None}, hash : Nat, bi : Nat, tries : Nat]
  /\ res \in [bi : Int, ei : Int]

TypeOK == BuksType /\ EntsType /\ CallType /\ SearchType

\* No array is written past its end as long as the blocks have the sizes
\* recorded for them, that is unless an allocation failed, though my_resize
\* computes the size of the new buckets at the width of the old ones and only
\* the doubling of kmem_nextcap leaves the room they need.
NoOverrun == buks_blk = buks_cap /\ ents_blk = ents_cap => pc # "overrun"

\* The dictionary holds one reference for each place it stores an object in,
\* at every step of every call, failed inserts and replacements included.
RefBalance ==
  \A o \in Key \cup Val :
    refs[o] = Cardinality({e \in DOMAIN ents : o \in {ents[e].key, ents[e].val}})

\* The entries without the one an insert may yet take back.
Stored == IF caller = "grow" THEN SubSeq(ents, 1, Len(ents) - 1) ELSE ents

\* Only a call that succeeds changes what is stored: an insert that fails in
\* its middle, for memory or for an error of my_search, leaves no trace.
OnlySuccessChanges ==
  [][Stored' # Stored => pc' \in {"idle", "dead"} /\ call'.ret = 0]_vars

\* No assertion of the code fails and no index read from a bucket lies
\* outside the entries.
NoStray == pc \notin {"abort", "wild"}

\* The bucket that try number t of a search for hash h looks at.
Probed(h, t) == (h + (t * (t + 1)) \div 2) % buks_len

\* A search for entry e would get to it: no empty bucket comes before.
Reachable(e) ==
  \E t \in 0..(buks_len - 2) :
    /\ Bucket(Probed(ents[e].hash, t)) = e - 1
    /\ \A s \in 0..(t - 1) : Bucket(Probed(ents[e].hash, s)) # Empty

\* What the theorems on small tables suppose.  L are the lengths of the bucket
\* array, 0 and odd primes below the limit of one-byte elements: a table too
\* full for n entries more than any before is given another length of L, up to
\* max entries.
OddPrime(p) == p \in Nat /\ p > 2 /\ \A d \in 2..(p - 1) : p % d # 0

TooFull(p, n) == 10 * n > 7 * p \/ p < n + 3

Narrow(L, max) ==
  /\ L \subseteq 0..253 /\ 0 \in L /\ \A p \in L \ {0} : OddPrime(p)
  /\ \A p \in L : \A n \in 0..(max - 1) :
       TooFull(p, n) /\ (n = 0 \/ ~TooFull(p, n - 1)) => NextPrime(Target(n)) \in L

\* Calls pass the hash of the key, and hashes tell keys apart.
Distinct == Garbage = {} /\ \A k, l \in Key : Hash[k] = Hash[l] => k = l

\* Between calls every stored entry can be found again.
AllReachable == pc = "idle" => \A e \in DOMAIN ents : Reachable(e)

\* Between calls each entry has exactly one bucket and no bucket holds
\* anything else.
BucketsIndexEntries ==
  pc = "idle" =>
    /\ \A b \in 0..(buks_len - 1) : Bucket(b) \in (0..(Len(ents) - 1)) \cup {Empty}
    /\ \A e \in DOMAIN ents :
         Cardinality({b \in 0..(buks_len - 1) : Bucket(b) = e - 1}) = 1

\* Every call comes to an end: the probe sequence returns to its start.
EveryCallEnds == pc \notin {"idle", "dead"} ~> pc \in {"idle", "dead", "abort", "wild", "overrun"}

\* The map a dictionary stands for: its entries.
Map ==
  [kh \in Key \X HashVal |->
     IF \E e \in DOMAIN Stored : <<Stored[e].key, Stored[e].hash>> = kh
     THEN Stored[CHOOSE e \in DOMAIN Stored :
                   <<Stored[e].key, Stored[e].hash>> = kh].val
     ELSE None]

\* The hash table is the map of KdictMap: each call reads or updates it as
\* one step would, whatever probes, resizes and failures it takes.
Abs == INSTANCE KdictMap WITH map <- Map
ImplementsMap == Abs!Spec
=============================================================================

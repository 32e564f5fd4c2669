---------------------------------- MODULE Io ----------------------------------
(***************************************************************************)
(* Bytes in and out: kread and kwrite of src/api.c on the two kinds of     *)
(* object they know, a byte buffer (src/types/buffer.c) and a raw file     *)
(* descriptor (src/os/rawio.c).                                            *)
(*                                                                         *)
(* data is the block a buffer has (its length is what realloc gave).       *)
(* kmem_growx returns true whether or not realloc succeeded, and neither   *)
(* caller can tell.                                                        *)
(***************************************************************************)
EXTENDS Integers, Sequences, SequencesExt, Kmem

CONSTANTS
  Texts,       \* bound: what a client pushes and writes
  Positions,   \* what the memory of a new buffer may hold where pos is
  MaxOps,      \* bound: the calls of a client
  Stale        \* a byte nobody has written

ASSUME IoAssumption == Positions \subseteq Nat /\ MaxOps \in Nat /\ Texts \subseteq Seq(STRING)

VARIABLES
  io,     \* the object
  file,   \* the bytes the client has stored, by index (what data should hold)
  got,    \* the bytes kread has delivered
  mixed,  \* pos is not what kread has advanced, or bytes it has read are gone
  ops,    \* calls made
  pc      \* "ready", "print" (a writer is at work), "abort", "wild"/"overread" (past the block)
io_vars == <<io, file, got, mixed, ops>>

Buffer(p) == [type |-> "buffer", len |-> 0, cap |-> 0, pos |-> p, data |-> <<>>]
RawIo     == [type |-> "rawio", len |-> 0, cap |-> 0, pos |-> 0, data |-> <<>>]

\* s with b stored from index at on, and Stale where nothing ever was.
Padded(s, n) == s \o [k \in 1..(n - Len(s)) |-> Stale]
Store(s, at, b) ==
  IF b = <<>> THEN s ELSE SubSeq(Padded(s, at), 1, at) \o b \o SubSeq(s, at + Len(b) + 1, Len(s))

\* kmem_growx: the capacity is recorded, whether the block grows or not.
Grown(o, sz) ==
  IF o.cap >= sz THEN {o}
  ELSE LET cap == kmem_nextcap(o.cap, sz)
       IN  {[o EXCEPT !.cap = cap],
            [o EXCEPT !.cap = cap, !.data = Padded(@, cap)]}

\* The outcomes of a call: the object after it, what it returns, and whether it does.
Ret(o, n)    == [io |-> o, ret |-> n, pc |-> "returns"]
Stop(o, why) == [io |-> o, ret |-> -1, pc |-> why]

\* memcpy(data + at, b, Len(b)), inside the block or not.
Copied(o, at, b, next) ==
  IF b = <<>> \/ at + Len(b) <= Len(o.data)
  THEN Ret([next EXCEPT !.data = Store(o.data, at, b)], Len(b)) ELSE Stop(o, "wild")

\* Mutant of kbuffer_push: the bytes go where the next read is.
kbuffer_push_AtPos(o, b) ==
  {Copied(q, q.pos, b, [q EXCEPT !.len = @ + Len(b)]) : q \in Grown(o, o.len + Len(b))}

\* kbuffer_push, the bytes b.
kbuffer_push(o, b) ==
  {Copied(q, q.len, b, [q EXCEPT !.len = @ + Len(b)]) : q \in Grown(o, o.len + Len(b))}

\* Mutant of kbuffer_pop: the length is not checked.
kbuffer_pop_Unchecked(o, n) == Ret([o EXCEPT !.len = @ - n], 0)

\* kbuffer_pop.
kbuffer_pop(o, n) == IF o.len < n THEN Ret(o, -1) ELSE Ret([o EXCEPT !.len = @ - n], 0)

\* Mutant of BufferWrite: room is made for the bytes, wherever they go.
BufferWrite_AtStart(o, b) ==
  {Copied(q, q.pos, b, [q EXCEPT !.pos = @ + Len(b)]) :
     q \in IF o.pos > o.cap \/ o.cap - o.pos >= Len(b) THEN {o} ELSE Grown(o, Len(b))}

\* kwrite to a buffer.  cap - pos is unsigned: past the capacity it is huge, and nothing
\* grows.  len stays as it is.
BufferWrite(o, b) ==
  {Copied(q, q.pos, b, [q EXCEPT !.pos = @ + Len(b)]) :
     q \in IF o.pos > o.cap \/ o.cap - o.pos >= Len(b) THEN {o} ELSE Grown(o, o.pos + Len(b))}

\* kwrite: a descriptor takes all of the bytes, some of them, or none, with an error;
\* another object ends the program.
kwrite(o, b) ==
  CASE o.type = "buffer" -> BufferWrite(o, b)
    [] o.type = "rawio" -> {Ret(o, n) : n \in {Len(b), Len(b) \div 2, -1}}
    [] OTHER -> {Stop(o, "abort")}

\* Mutant of Available: the bytes before pos count as well.
Available_All(o, n) == IF o.len < n THEN o.len ELSE n

\* What kread takes of a buffer: len - pos is unsigned as well.
Available(o, n) == IF o.pos <= o.len /\ o.len - o.pos < n THEN o.len - o.pos ELSE n

-----------------------------------------------------------------------------
\* A client calls the buffer directly.
Op(o) == pc = "ready" /\ io.type = o /\ ops < MaxOps /\ ops' = ops + 1

Returned(q) ==
  /\ io' = q.io
  /\ pc' = IF q.pc = "returns" THEN pc ELSE q.pc

Push(b) ==
  /\ Op("buffer")
  /\ \E q \in kbuffer_push(io, b) : Returned(q)
  /\ file' = Store(file, io.len, b) /\ UNCHANGED <<got, mixed>>

Pop(n) ==
  /\ Op("buffer")
  /\ Returned(kbuffer_pop(io, n))
  /\ mixed' = (mixed \/ io.len - n < io.pos)
  /\ UNCHANGED <<file, got>>

Read(n) ==
  /\ Op("buffer")
  /\ LET k == Available(io, n)
     IN  IF k = 0 \/ io.pos + k <= Len(io.data)
         THEN /\ io' = [io EXCEPT !.pos = @ + k] /\ pc' = pc
              /\ got' = got \o SubSeq(io.data, io.pos + 1, io.pos + k)
         ELSE pc' = "overread" /\ UNCHANGED <<io, got>>
  /\ UNCHANGED <<file, mixed>>

ClientOp == (\E b \in Texts : Push(b)) \/ (\E n \in 1..2 : Pop(n) \/ Read(n))

\* kbuffer_init with the bytes b.  kbuffer_new, and kstr_fmt with it, gets no further than kobj_make,
\* which asserts that a type has a size: kinit gives Kbuffer none, only a client can.
kbuffer_init(b) == UNION {kbuffer_push(Buffer(p), b) : p \in Positions}

IoInit ==
  \/ /\ \E b \in Texts : \E q \in kbuffer_init(b) :
          io = q.io /\ file = b /\ pc = (IF q.pc = "returns" THEN "ready" ELSE q.pc)
     /\ mixed = (io.pos # 0) /\ got = <<>> /\ ops = 0
  \/ io \in {RawIo, [RawIo EXCEPT !.type = "other"]}
     /\ file = <<>> /\ got = <<>> /\ mixed = FALSE /\ ops = 0 /\ pc = "ready"

-----------------------------------------------------------------------------
\* What the client has stored is there, at its place, through every growth: neither pushes
\* nor writes lose or move what earlier ones stored.
FileKept ==
  pc = "ready" /\ io.type = "buffer" =>
    /\ io.len <= Len(file) /\ Len(file) <= Len(io.data)
    /\ file = SubSeq(io.data, 1, Len(file))

\* Nothing is stored outside the block, but for the two cases the code does not see: realloc
\* has failed, and pos, which is never initialised, lies past the capacity.
WritesInside == pc = "wild" => Len(io.data) < io.cap \/ io.pos > io.cap

\* A client that only pushes and reads, in whatever order and portions, gets the bytes
\* in order, each of them once, and none the buffer does not have.
ReadsInOrder ==
  ~mixed => pc # "overread" /\ (pc = "ready" => io.pos <= io.len /\ got = SubSeq(file, 1, io.pos))
=============================================================================

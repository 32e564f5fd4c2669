# kata: specifications

Kata is a runtime for a small language: reference-counted objects, the container
types built from them, byte I/O, a lexer, a parser and an evaluator, in
sequential C. This directory holds TLA+ modules for its parts, TLC
configurations that check them on small instances, and proofs for every value
of the constants.

Everything runs in one thread and nothing is persisted, so there are no
interleavings and no recovery to check. What is hard here is of another kind:
data structures whose invariants hold only through long sequences of calls, operations
that fail half-way (no memory, an error from a callback), sizes that are bytes
in one place and elements in another, and references that must balance on every
path.

## Inventory

| part | code | state | operations | what makes it correct |
|---|---|---|---|---|
| kmem | `src/mem/init.c` | none (the C heap) | `kmem_make`, `kmem_grow`, `kmem_growx`, `kmem_nextcap`, `kmem_hash`, `kmem_isprime`, `kmem_nextprime` | capacities cover requests; primes are primes; a failure is reported |
| kdict | `src/types/dict.c`, macros in `include/kata/api.h` | buckets (1, 2 or 4 bytes each), entries, capacities | `get(x)`, `set(x)`, `merge(z)`, `__del`, inside them `my_search`, `my_resize` | it is a map; entries stay reachable; a failure leaves no trace; references balance; memory is not overrun |
| klist | `src/types/list.c` | `data`, `len`, `cap` | `new(z)`, `push`, `pushx`, `pushz`, `pop(u)`, `__del` | capacity in the unit it is compared in; one reference per element |
| ktuple | `src/types/tuple.c` | elements, never changed | `new(z)`, `__del` | one reference per element |
| objects | `src/api.c`, `KOBJ_*` macros | reference count, type | `make`, `free`, `newref`, `call`, `args` | freed exactly when the last reference goes |
| kbuffer, rawio | `src/types/buffer.c`, `src/api.c`, `src/os` | `data`, `len`, `cap`, `pos` | `push`, `pop`, `kread`, `kwrite` | bytes stored stay; reads come in order; nothing is written or read past the block |
| output | `src/api.c`, `src/data.c` | a local buffer | `kwriteu/s/f`, escaping writer, `kprintfv`, `kwriteR` | numbers are printed as numbers; buffers hold what is put in them; sizes add up |
| ks lexer | `src/ks/lex.c`, `tok.c` | position, line, column, tokens | `ks_lex` | tokens tile the source; the scan never leaves it |
| ks parser, AST | `src/ks/parse.c`, `ast.c` | token index, helper buffers | `ks_parse`, one function per rule | precedence and associativity; every error path gives nodes back once |
| evaluator | `src/vm/eval.c`, `src/ops.c` | recursion stack | `kvm_eval`, `kop_*` | value of the tree; every intermediate reference given back |
| numbers | `src/types/int.c`, `float.c`, `src/bf/init.c`, `src/ops.c` | a `bf_t` | `kint_new(z)`, `kfloat_new(z)`, `kop_*` | enough precision for the result |
| libbf | `src/bf/libbf.c`, `libbf.h` | sign, exponent, limbs | arithmetic, rounding, conversions | the correctly rounded result, and a status that says whether it is exact |
| types, set-up | `src/types/type.c`, `func.c`, `exc.c`, `str.c`, `kinit` | type table, attribute dictionaries | `ktype_init`, `ktype_merge` | order of initialisation; method references |
| threads | `src/types/thread.c` | one static structure | stubs | - |
| cutils | `src/bf/cutils.*` | - | a growing string for libbf | - |

How they interact: containers hold counted references to objects and call back
into object deletion when a count reaches zero; `kdict` calls `kobj_hash` and
`kobj_eq` (both empty stubs today) and `kmem`; types keep their methods in a
`kdict`; the parser pushes nodes to helper buffers and then into tuples; the
evaluator pushes arguments to a `klist`; everything prints through `kwrite`; every
number is computed by `libbf`, which rounds to the precision `src/bf/init.c` asks for.

The modules:

| part | modules | runs |
|---|---|---|
| kmem | `Kmem` (operators), checked by `Numbers` | `numbers` |
| kdict | `Kdict`, `KdictMap` (abstract), `KdictProofs` | `small`, `wide`, `limit` |
| objects, klist, ktuple, kdict's references | `Ownership`, `Lifetime` (abstract), `OwnershipProofs` | `owners`, `cascades` |
| lexer, parser, evaluator | `Words`, `Lexer`, `Parser`, `Eval`, composed by `Script`; `Grammar` (reference of the trees), `ScriptValues` (reference of the values); `LexerProofs`, `ParserProofs`, `EvalProofs`, put together by `ScriptProofs` | `script`, `grammar`, `buffers` |
| (lemmas the proofs share) | `Counting`: cardinalities, sums over sets and sequences | - |
| kbuffer, rawio, output | `Io`, `Output` (extends `Io`), `OutputText` (reference of the texts), `OutputProofs` | `output` |
| numbers, libbf | `Limbs`, `Bf`, `Radix`, `Knum`, one on top of the other; `Numbers` | `numbers`, `ints`, `floor` |

A module `XMC` holds the constants of an instance, a `.cfg` is one run. A definition
named `F_Something` right before `F` is `F` with a plausible mistake; replacing `F` by it makes
the run that names it in `PROJECT.json` fail.

## Plan

Done: the dictionary, ownership, scripts and output with their proofs; numbers with their runs. Left:
`kargs`, once its result checks do something: today it ignores what `kis` returns.

## The dictionary

### Modules

`Kmem` holds the pure helpers as operators: `kmem_nextcap`, and
`kmem_isprime` with trial division below 4096 and Miller-Rabin above, its
loops as recursive functions. The run `numbers` walks their arguments (0 to 5200, on both
sides of the switch): `kmem_isprime` against the definition of a prime, `kmem_nextprime` is
the least prime above.

`Kdict` is `src/types/dict.c` step by step. State and code:

| variable | code |
|---|---|
| `buks`, `buks_len`, `buks_cap` | the bucket array as bytes, its length in buckets, its recorded capacity in bytes |
| `buks_blk`, `ents_blk` | what is really allocated, which the code does not record |
| `ents`, `ents_cap`, `ents_real` | the entries in order of insertion (`ents_len` is their number), recorded capacity, count |
| `refs` | the references the dictionary holds on each object |
| `pc`, `call`, `caller`, `i`, `find`, `res` | the point of execution and the locals of `kdict_getx`/`kdict_setx`, `my_resize` and `my_search` |

The buckets are bytes because the code reads and writes them through pointers
of 1, 2 or 4 byte elements, and chooses the width from a length it passes to
`KDICT_PER_BUKS` - not always the same length.

A call is a sequence of steps: its start (`Get`, `Set`), the check and the
allocation of a resize (`ResizeEnough`, `Resize`), per entry a search and a
placement (`RehashNext`, `RehashPlace`), one step per probe (`ProbeEmpty`,
`ProbeMatch`, `ProbeEqFails`, `ProbeNext`, `ProbeExhausted`), and one action
per way the rest of `kdict_setx` can go. `pc = "abort"` is a failed assertion,
`"overrun"` an access outside an allocated array, `"wild"` an entry index read from a
bucket that is no entry; nothing follows them.

Faithful to today's code: `kobj_eq` has no body, so two different key objects of the
same hash make the search either fail or go on; `kobj_hash` has none
either, so `kdict_get` and `kdict_set` fail or search under whatever value the
stack held (`Garbage`), and the `x` variants under the hash their caller passes.
`kmem_growx` hides a failed `realloc`, so with `OOM` the recorded
capacity and the allocated size may differ. No operation deletes a
single entry, hence no deleted buckets and no holes.

`KdictMap` is the abstract specification: a map from (key, hash) to value,
where a running call takes effect in one step, and an update that reports
an error changes nothing. `Kdict!ImplementsMap` is the refinement: the map is
read off the entries, less the one an insert may still take back.

### Runs

| run | instance | question |
|---|---|---|
| `small` | 4 keys that collide in the arrays of 3, 5 (and partly 13) buckets, 2 values, every order of calls | types; no assertion fails and no stray index is read; entries are reachable, each with exactly one bucket; a call ends; the table is a map |
| `wide` | 255 keys; while the table has up to 3 entries every call on it, of keys under their hash and under others' (`Garbage`), allocations failing at any time | references balance at every step (`RefBalance`); only successful calls change the contents (`OnlySuccessChanges`); no overrun while blocks have their recorded sizes (`NoOverrun`): through undefined comparisons, the change to 2-byte buckets, the extra resize at 253 entries with its failures and their undoing, and the assertions that fail |
| `limit` | up to 158 keys in order, one of them replaced and four looked up at any time; arrays of 3 to 541 buckets, hashes up to 10^6 that form long chains | violated: the 158th key becomes unreachable. TLC searches in order of depth, so nothing is lost before |

Bounds. `MaxEnts` bounds the entries of a table, and the key sets bound it
further. A small table passes the lengths 3, 5, 13, which is every way a search,
a replacement, an insert and a rehash can go while the width is one byte.
`limit` adds lengths and hashes that a small table has not, `wide` the first change of width.
The change at 65 533 entries has the same code under another constant and is out of
TLC's reach; the proofs cover it. `wide` is chosen such that
every branch of failure is taken: between the passing runs every action fires.

`CHECK_DEADLOCK FALSE` is in the dictionary's configurations because the system
stops after `__del`, after a failed assertion, or once the bounded table is full.

Fairness. `Spec` has weak fairness of `Step`, the steps of a running
call: a thread that has entered a call keeps executing it, and nothing
else can run. No fairness is assumed of the start of calls. `EveryCallEnds` then says that the
`do ... while (bi != bi0)` loop of the search terminates, whatever the table holds.

### What the code does that its documentation does not say

* `kdict_setx` writes the bucket at the width of the number of *entries*
  (`dict.c:371`), searches read it at the width of the number of *buckets*. From
  158 entries (541 buckets of 2 bytes) to 253, one byte is written at the wrong
  offset; the entry is lost, and indices past the entries may be read. The run
  `limit` shows the first loss, `wide` the states that follow.
* Triangular probing visits (p+1)/2 of p buckets. When those are full
  `my_search` returns false, which `kdict_setx` takes for an error: the branch `bi < 0` of
  `dict.c:349` that would resize is never reached.
* A rehash whose search fails returns with the buckets half filled. The entries
  left out are invisible; setting their keys again makes duplicates, and the next rehash
  aborts at `assert(ei < 0)`. At 253 entries it is
  `assert(new_ei == ei)` that fails (run `wide`).
* `kmem_growx` stores the capacity before allocating, and returns
  `kmem_grow(...) >= 0`, which is always true.

Three more, not runs of their own: a missing key is an error for `kdict_getx`, while
`api.h:546` announces success and a NULL value; `kmem_nextprime` of 0 and 1 is 3 (`mem.h:53` says "the next
prime"), and keys of equal content are different keys as long as `kobj_eq` has no body.

### Proofs

`KdictProofs` proves, for every set of keys and values, every hash function, every
garbage, with and without failing allocations, and every `MaxEnts` below 2^29:

* `Invariance`: `Spec => []IInv`, and from it
* `TypeCorrect`: `Spec => []TypeOK`;
* `MemorySafe`: `Spec => []NoOverrun`, of blocks that have the size recorded for them (until `realloc` fails unnoticed);
* `FailureLeavesNoTrace`: `Spec => OnlySuccessChanges`;
* `RefsBalance`: `Spec => []RefBalance`.

Assumptions: those the module `Kdict` states. `NextPrime` is a constant operator of which only
`n < NextPrime(n) <= 2 n + 1` is assumed (Bertrand's postulate);
the runs instantiate it with `kmem_nextprime`, and TLC evaluates the assumption for every
length its instances ask for.

The inductive invariant is `TypeOK /\ ControlOK /\ SearchOK /\ RoomOK /\ MemoryOK`.
`TypeOK` alone is not inductive: that `buks[...]` stays a function to bytes needs that a
narrow `Put` keeps the domain; that the locals have their types when a search returns needs
`ControlOK` and `SearchOK`, which say what each `pc` implies of `caller`, `find`, `res` and `i`, and
that a search looks at a bucket of the array. `RoomOK` says that there are more buckets
than entries: a narrow write at an index below `buks_len` then stays inside the array.
`MemoryOK` relates recorded and allocated sizes when no allocation fails.

The interesting step is `Resize`. The bytes asked for are computed with the width of the
*old* length, the clearing loop runs with the width of the *new* one. When the width
changes (from at most 253 buckets to more, or from at most 65 533), the old width
gives half of what is needed - and `kmem_nextcap` returns `2 (size + 2)`. The lemma
`CapacityFits` states that this is always enough; `kmem_nextcap_Tight`,
which rounds up instead of doubling, breaks `NoOverrun` in the run `wide`.

`RefBalance` compares what the dictionary holds of an object with the number of places
the object has among the entries. `Counting` has the lemmas on cardinalities this takes (one
element more, one less, two disjoint sets, a bijection): an insert adds the two places of its
entry, a replacement moves one place from the old value to the new one, and an insert that is taken back
undoes its own.

The refinement, `AllReachable`, `BucketsIndexEntries` and `NoStray` do not hold of every instance:
the run `limit` and equal hashes break them. They are proved of small tables, under two
hypotheses of theorems, both defined in `Kdict`:

* `Narrow(L, MaxEnts)`: the set `L` of array lengths is closed under resizing and holds only 0 and odd
  primes up to 253, so that a bucket has the same width wherever it is read or written. TLC
  evaluates it with `kmem_nextprime` for `{0, 3, 5, 13}` (`KdictMC`) and for `{0, 3, 5, 13, 37, 89, 223}`
  and 157 entries (`KdictLongMC`), all there can be: the next length is 541, and `limit` shows what
  happens with it.
* `Distinct`: callers pass a hash of the key (the `x` variants), and different keys have different
  hashes. Otherwise `kobj_eq`, without a body, decides. Allocations may fail.

Then, for every set of such keys, every hash function and every order of calls:

* `NeverStrays`: `Spec => []NoStray`;
* `EntriesReachable`: `Spec => []AllReachable`;
* `BucketsIndex`: `Spec => []BucketsIndexEntries`;
* `TableIsMap`: `Spec => ImplementsMap`, each step one of `KdictMap` or a stutter.

The inductive invariant `TInv(L)` has four ideas. While `my_resize` puts entries back the buckets hold
those below `i` and otherwise all (`TableOK`). Each placed entry is met by the search for its hash before an
empty bucket (`OnWay`); a write to an empty bucket hides no entry, since chains
only grow (`Placing`). A running search has met only other keys so far (`Walked`), so
one that stops at an empty bucket, or returns to its first, has missed no entry of its key
(`NotThere`). And a rehash never runs out of probes: the first (p + 1) / 2 probes of an odd prime
length p meet different buckets (`AtDistinct`, from Euclid's lemma), by the pigeon-hole principle
a full walk takes as many entries (`Pigeons`), and `Target` keeps the entries below a
third of p. So an insert fails only for memory or for a walk that closes, and no assertion of `my_resize` fails.

Only model-checked: liveness (`EveryCallEnds`), and what `kmem_isprime` computes.

## Objects and containers

### Module

`Ownership` is a heap of objects with reference counts: leaves, tuples, lists and dictionaries
that hold references to each other, cycles included, and a client that holds
some of them.

| variable | code |
|---|---|
| `heap` | per object its type, `refc`, elements (of a dictionary: key, value, key, value...), and a list's `cap` |
| `held` | the references the client owns |
| `stack` | the active calls: a deleter and its position, a replacement in a dictionary, a merge and what it still has to store or give back |

Every step belongs to the last frame. `KOBJ_DECREF` of the last reference pushes a
`free` frame: kobj_free calls the deleter of the type, which loops over the
elements (`FreeElement`, one per step, pushing further frames) and gives the memory back
(`FreeMemory`). Replacing a value releases the old one *before* the slot is
written (`DictReplace`, then the cascade, then `DictStore`). The merges go
item by item, and each item may fail (`MergeFails`), upon which the absorbing variants
give back what is left and the constructors drop the dictionary.

The client keeps to the protocol of `api.h`: it passes objects it holds, and for
the absorbing (`z`) variants owns a reference per place in the call. It may take
a reference to anything it finds in a container it holds. Assumed: `kobj_make`
and the arrays of lists get their memory; a failure of the first returns NULL with
nothing changed, a failure of the second goes unnoticed by `kmem_growx`
and ends as an overrun does. Deleters run no client code. A dictionary finds
exactly the key object it is given; `Kdict` has the searches that fail, which change no
reference.

`klist_new` pushes its elements twice (`list.c:19` and `:24`), so a list made of `n`
objects has `2 n` elements. The references are right; the contents hardly are meant. Its
callers pass no elements. `kdict_new` does not absorb references, unlike
`api.h:530` says.

`Lifetime` is the abstract specification: what each place holds and which objects somebody can get at. An object
is made in a free place, stays what it is while it can be reached, goes only when it cannot, and an object
out of reach never comes back. `Ownership!ImplementsLifetime` is the refinement. Reached is what the client's references and those of
active calls lead to (`Claimed`: values handed over and not yet stored, a dictionary not yet returned), through
the elements that no deleter or replacement has given back. A call of
`Ownership` is many steps, and each is a step of `Lifetime` or none: `DictReplace` is a `Lose`, each round of a
merge a `Make` (the key), each `FreeMemory` a `Free`.

### Runs

| run | instance | question |
|---|---|---|
| `owners` | 3 objects of all types, 2 references each, 3 elements in all | counts are exact at every step, within calls too (`RefsExact`); nothing reachable is freed or being freed (`ReachableLives`); objects live as `Lifetime` says, for calls that own references too (`ImplementsLifetime`) |
| `cascades` | 3 objects, tuples and dictionaries, 4 elements in all | merges of two items that fail at either; between calls only cycles and what hangs on them are unreachable (`OnlyCyclesLeak`); deletions and merges end (`CascadeEnds`) |

Bounds: three objects are a container, something in it, and something else in either or
holding both; that is enough for shared nodes, cycles of length one to three, a cascade
of depth three, and an element twice in a container. Objects are interchangeable, so
`owners` uses their symmetry (`Lifetime` is a safety property, and treats objects alike);
`cascades`, with its liveness property, does not.
`CHECK_DEADLOCK FALSE`: the program stops after an overrun.

The overrun is that of a third `klist_push`: `cap` counts bytes and is compared with a number of elements (`list.c:73`),
so after the first growth it is 20, nothing grows any more, and the push writes bytes 16 to 23 of an array of 20 while
`list.c:98` says "we have enough space". The run `owners` has states that end so; the same mistake is shown for the
parser's buffers by the run `buffers`.

Fairness: weak fairness of `Step`, the steps of an active call, as for the
dictionary. `CascadeEnds` then says that deletions terminate, whatever cycles there are:
an object's count reaches zero once.

### Proofs

`OwnershipProofs` proves of `Spec`, for any finite set of places for objects and any bounds
(`MaxHeld` at least 1, so that an object can be handed to the client):

* `Invariance`: `Inv`, and from it
* `TypesOK`: `TypeOK`;
* `CountsExact`: `RefsExact`, in the middle of cascades as well;
* `ReachedIsSafe`: `ReachableLives`;
* `CyclesAlone`: `OnlyCyclesLeak`;
* `RefinesLifetime`: `ImplementsLifetime`, the refinement.

`RefsExact` is not inductive: that a deleter may give back its next element needs that no other
frame gives back the same one, hence that each object is deleted by one frame only, hence that a
count of zero means deletion has begun. `Inv` has these parts:

* `Sound(heap, stack, Roots(held, stack))`. `Sound(h, st, r)` says that heap `h` and stack `st` are in order
  when `r[o]` references on `o` are held outside of containers: each count is `r[o]` and the number of places that
  keep `o`; a count is zero exactly for objects not there or being deleted; deleters run for
  different objects, within their elements.
* `CallOK`: all frames but the lowest are deleters and own nothing; a replacement works on a dictionary the client holds,
  at a slot it has; a merge runs alone, and what it borrows the client holds.
* `RoomOK`: what a merge may still add is within the bound; `Pairs`: a dictionary has a value for each key.

An action is made of a few micro-steps, each with a lemma that says how `r` changes with it: a
count goes up (`RaiseSound`, `IncrefsSound`) or down (`DropSound`), an object is made (`MakeSound`) or
freed (`FreedSound`), elements are added (`AppendSound`) or removed (`RemoveSound`), a frame
gives an element back (`AdvanceSound`, `ReplaceSound`) or stores one (`StoredSound`). The
lemma of an action (`DictReplaceStep`, ...) adds them up: what the counts gain, the references gain.

`ReachableLives` follows since the objects with a positive count are closed under elements and contain what the client
holds. For `OnlyCyclesLeak`, take the objects neither reachable nor on or below a cycle: each is an
element of another one of them, and what can be reached from the other is strictly more, since it
contains the first and the first does not reach itself. There are finitely many objects, so there are none of them.

For the refinement, what is reached has references (`ReachedCounted`), so `FreeMemory`, whose object has none, frees nothing that is
reached. That nothing comes back is `ReachedStays`: it is enough that each reference and each kept element of the new state was
reached before, or is the object just made. A lemma per action (`PushLives`, `DictStoreLives`, ...) shows where its references come from:
what the client holds or finds in what it holds, what the call owns, or the element the step removes. Between calls, and in a merge, every
element is kept (`QuietStays`); while deleters or a replacement run, elements are only given back (`FreeElementLives`), except for
the value a replacement stores, which its call owned (`DictStoreLives`).

Only model-checked: `CascadeEnds` (liveness).

## Scripts

### Modules

`test/ks.c` runs a text: `ks_parse` calls `ks_lex`, and `kvm_eval` walks the tree. `Script`
composes the three; each is a module of its own:

| module | code | state | grain |
|---|---|---|---|
| `Words` | character classes of `lex.c` | - | operators |
| `Lexer` | `ks_lex` | place (`i`, line, column), start of a token, tokens, their array's size | one action per loop of the scanner and per way out of it |
| `Parser` | `ks_parse`, `ast.c` | tokens and the current one; a stack of frames, one per active rule, with its result so far and its helper buffer (`HBUF_*`); the objects allocated | one action per branch of a rule |
| `Eval` | `kvm_eval`, `ops.c`, `kcall` | a stack of frames with the operands so far, references taken | one action per operand and per way a node ends |

Numbers of a script are held in halves (`Eval`), which covers `1.5`, division and powers; a
value that is no half or is large is `Other`. What the operators do on limbs is the subject of
"Numbers" below. A parsed node is a value, since the parser never shares one; `live` counts what
is allocated and `Owned` what some frame holds. The allocations of the lexer and the parser may fail, and so may the
list and the results of the evaluator; at most one does in the parser. Not modelled is a `realloc` that fails unnoticed in
`klist_push`, when `kvm_eval` collects the arguments of a call.

A client may hand `ks_parse` tokens of its own: the lexer makes no comma, brace, or newline
tokens, so calls with several arguments, blocks and `ret` are only reached that way.
It may also evaluate a tree made with `ks_ast_wrap` and `ks_ast_newz`, the only way
to give `kvm_eval` a function to call.

### Run `script`

Every text of up to three characters over one or two of each class, of up to four
over those of a number, and chosen ones; all texts of four characters over `1 + ^ ( )` and
chosen statements go on to the parser and the evaluator; all token sequences of up to three
over a vocabulary of 14, expressions of four operands over all levels of operators, and chosen
statements; and trees of two operators over ints, floats, strings, functions. Properties:

* `TilesSource`, `LongestMatch`: the tokens leave nothing out, have the line and the column they
  stand at, and are the longest words, defined independently as sets of sequences;
* `ReadsAsGrammar`: the tree is the one of `Grammar`, which has the rules of the comments in `parse.c` and the nodes of
  `ks.h`, and nothing from the functions that parse; operators bind by their levels, each to its side. NULL, or a failed
  assertion, is an answer only if there is no such tree, memory was short, or what follows an expression is no separator;
* `Balanced`, `EvalBalanced`: nodes and references are given back exactly once on every path, also
  where an allocation fails in the middle (what the failing one was to hold together is lost, and
  counted in `lost`). `EvalBalanced` is close to the shape of the model, where every exit goes through one `Return`: what it
  adds is that a frame holds what it has taken, and no exit skips it;
* `ShortBuffersHold`: helper buffers hold what is pushed up to their 20th element, outside the last loop of `if`;
* `ValueRight`: a text evaluates to what it says. `ScriptValues` reads the characters itself - the words by their
  definitions in `Words`, the longest first; the tree by `Grammar`; numbers from a table (`Worth`) - and computes in ordinary
  arithmetic, operands from left to right. The answer is a number, nothing (only where a division by zero decides), or the end of the
  program (only for a name, an operator that is not supported, an operand that is no number, or a sum that is not
  whole). It is NULL for no other reason while memory lasts (`starved`). Not compared are numbers the code reads
  otherwise than the lexer: with a prefix, an exponent or a suffix (see below);
* `ScriptTypeOK`: the types of all of the state;
* `ScriptEnds`: whatever the text, the tokens, the tree, all ends. Fairness: weak, of the
  only thread.

The bounds are enough for each rule to call each rule it can, for every loop to be taken
zero, one and two times, and (calls with 8, 9, 19 arguments) for the helper buffer to grow twice.

`Departs` names where `ReadsAsGrammar` says nothing: attributes, a call of what a call returned (run `grammar`), and a comma before
`)`, which the code accepts and the rule of E12 does not. `if` is left out too: it never returns a tree. The grammar
of the comments leaves open how a level groups; the reference groups powers to the right and the others to the left. For E1, whose
rule lacks the `)*` of the other levels, it takes the `)*` as meant. An expression needs no separator to be a statement,
although `parse.c:33` says so (the check after the `return` at `parse.c:411` is never reached); the property says it is left.

### Runs `grammar` and `buffers`

`StatementsRead` (violated): a statement of the grammar is returned as its tree, and all its tokens are taken. The run gives
`x.f(1)(2);` to `ks_parse`. E12 returns from inside its loop after the first call, although its rule has `( ... )*`
(`parse.c:77`), so `(2);` is left; and the attribute is made with the text of the dot (`LAST`, before `TOKI++`), although its node is
`(val: any, name: str)` (`ks.h:178`).

`BuffersHold` (violated): while memory suffices nothing outside a helper buffer is touched. The run has calls with 18 to 20
arguments. `HBUF_PUSH` keeps `maxn` in bytes and compares it with a number of elements (`parse.c:133`). The push of the
tenth element makes a block of 164 bytes and sets `maxn` to 164, so the block never grows again, and the 21st element is
written past it. Up to there `ShortBuffersHold` holds, and is proved.

### Proofs

Each of the three calls has its proofs in a module of its own, and `ScriptProofs` puts them
together for `ScriptSpec`: every text, every sequence of tokens, every tree, all constants and all results of
called functions, with failing allocations. The assumptions are those of the modules, and TLC evaluates them
on the run's constants:

* `LexAssumption`, `ParserAssumption`, `EvalAssumption`: texts and tokens are sequences of strings; EOF is no
  name and no number; at most one allocation of the parser fails; constants and what functions
  return are ints, floats, strings or functions.
* `NodesAssumption`: `Nodes` are the trees clients build and all they consist of; each has a sequence of subs, and
  wraps a constant of `Literals` if it is a `VAL`.
* `WordsAssumption`: the parser knows words as strings, the lexer as sequences of characters. `Names`, `Ints`
  and `Floats`, which say of strings what they are, agree with the lexer's `KindsOf` on the words of the
  texts, and the numbers among them have a value (`Spelling`).

| theorem of `ScriptProofs` | property | from |
|---|---|---|
| `Tiling` | `TilesSource` | `LexerProofs`: `IInv` |
| `LongestWords` | `LongestMatch` | `LexerProofs`: `WInv` |
| `ParseBalances` | `Balanced` | `ParserProofs`: `IInv` |
| `EvalBalances` | `EvalBalanced` | `EvalProofs`: `IInv` |
| `ScriptTypes` | `ScriptTypeOK` | all three, and `TInv` |
| `BuffersSuffice` | `ShortBuffersHold` | `ParserProofs`: `BInv` |

`Script` runs the calls one after the other, so its invariant `SInv` is theirs, each while its call is active,
and what is left alone before: `Fresh` until `ks_parse` begins, `NoEval` until `kvm_eval` does. `Script`
instantiates `Lexer` and `Eval` under other names for their variables (`L`, `E`), the proofs are
instantiated likewise (`LP`, `EP`); the lemmas `SameNext`, ... say that both speak of the same
actions and properties.

For the types `TInv` adds what one call hands to the next: the tokens of `ks_lex` end with EOF (`WordsEnd`), each name or
number among them is the kind `ks_lex` gave it (`WordKinds`, from `LongestMatch`: a word is of one kind), and a
node of the parser is a tree `kvm_eval` can walk, since a `VAL` wraps a number and every number is
spelled (`ParsedTree`).

**The lexer.** `LexerProofs` proves of `Lexer!Spec` that `IInv` is invariant (`Invariance`) and with it
`TypeOK` (`TypesOK`), `TilesSource` (`Tiles`) and `LongestMatch` (`Longest`).

`IInv` strengthens `TilesSource` with what holds in the middle of a token (`Scanned`): what has been
read of it has no newline, so `lenc` is its length; and it is not empty, or begins with the current
character, which the next test will take. This is why only EOF is empty. `Placed` says that a position
has the line and the column of its byte; `AdvancedPlace` that ADV keeps that.

`LongestMatch` has two halves. `Reading` says what has been read at each point of execution: at
`exponent`, say, that the text is cut at some `m` where the mantissa ended and at the current place, where the fraction
ended, and that each part was followed by a character that cannot continue it; at `emit` the token
is such a word as a whole (`Complete`). `CutUnique` shows that `NumberKinds`, which tries every way to
cut a text in mantissa, fraction, exponent and suffix, then finds no other cut, nor one of a longer
text: the classes of characters do not overlap where one part may follow another (`Apart`).
`FirstCharacters` does this for the kinds of words among each other.

**The parser.** `ParserProofs` proves `NodesBalance`, `Spec => []Balanced`. The invariant is: frames own the nodes
of `res` and of their buffer; `live` is what they and `ret` own, and `lost`; and `ret` is
empty unless the top frame waits for a node (`Waiting`). The last part makes it inductive: a rule that
returned while another node was on its way would drop that node. Each action is one of a
few kinds of steps (`QuietCall`, `AllocReturn`, `PushStep`, `GiveUp`, ...), for each of which a lemma
balances the books once; `Accounts` says what the outcomes of an allocation owe.
That a buffer given up in two parts counts as the sum of both (`SizeCut`, for the loop of `if`) is where the
sums of `Counting` are used most.

`KeepsToTokens`, `Spec => []TypeOK`, is about looking past the final EOF: `Typed` says of each
frame that the token it has recorded is behind the current one and is the operator, or the keyword, whose operand
it waits for, and `AtBrace` that a block begins at its brace. A rule then moves on only over a token it
has recognised, which is not EOF (`MayEat`); SKIP stops there (`SkipStops`). That a node is a tree
(`IsTree`) is said with a set closed under taking subs, where a recursive definition would be natural.

`BuffersHoldTwenty`, `Spec => []ShortBuffersHold`, is about the helper buffers. `BuffersHold` is
false (run `buffers`), so the theorem says where it begins to be: with the push that follows the 20th element. `BInv` says what the
block of a buffer is at each length (`Shape`: none while the elements fit in the array, then one for
one element more, then one for at least 20, when the capacity already counts bytes) and `NextShape` that a push
keeps it. The other way out of the program is a hollow node whose fields are read: `Whole` and `Intact` say
that there is none while no allocation has failed, in a frame, in its buffer or on its way.
The last loop of `if` reads in front of the array and is left out of both.

**The evaluator.** `EvalProofs` does the same with references: all frames but the last wait for the one above,
a value is on its way only to a frame that waits, and `refs` is what frames and that value stand for. So a
frame gives its operands back once, whichever way it ends. Its `TInv` adds that a frame takes at most as many
operands as its node has subs, and that values have a type.

Only model-checked: `ReadsAsGrammar` and `ValueRight`, which compare with recursive definitions over the input;
`ScriptEnds` (liveness).

### What the code does that a reader would not expect

* A call with two or more arguments writes past its list when it is evaluated: `klist` has the fault of the parser's buffers.
* `if` always reads the last slot *before* the buffer (`hb[-2]`), and a `}` is never eaten.
* The lexer has numbers to base 16, 8 and 2, exponents, and a suffix `i`, but the parser hands their text to `kint_new` with
  base 10 and to `kfloat_new` ("TODO: parse", `parse.c:686` and `:703`): `0x11` is 0, a suffix is dropped. A comment is a token no
  rule takes, so it ends the parse in an assertion, or is left after the statement.
* `LAST` and `MATCH(E10)` are arguments of one call (`parse.c:507`), so which token a node records depends on the
  compiler; the model keeps the set of both, and no property is about it.
* `import`, `ret` and `throw` never parse from a text, since they wait for a newline token.
* `1.5 + 1` leaves the program: `kop_add` makes an int of every sum, and `kint_newz` calls
  `kexit` when rounding was inexact. String `+` runs into an assertion.

## Output

`Io` models a buffer as the block it has, its recorded capacity, length and position, and a raw
file as something that takes all, some or none of the bytes. `Output` adds the writers: each is a
frame with a list of pieces still to write; it adds up what the pieces return, and hands on the first
error. `kmem_growx` may fail unnoticed here too. What can be printed is given by two constants, the objects
(`Objects`, each with its elements among them) and the calls (`Calls`); `OutputAssumption` says that they are
typed as C would have it: what a directive reads from the arguments is what was passed. The text a
value should have is a recursive operator, about which nothing can be proved, so it has the module
`OutputText` to itself.

Run `output`: two operations on an object, buffers with an unset position (0, 2, 1000), files, then
one of 29 calls of `kprintf` over nested containers, texts around the size of the escaping
writer's array (scaled down to 8 + 16 bytes from 256 + 16), numbers, and every refused directive.

* `FileKept`, `WritesInside`, `ReadsInOrder`: bytes stored stay where they are through growth; nothing
  is written outside the block unless `realloc` has failed or `pos` is beyond the capacity; a client
  that pushes and reads gets every byte once, in order;
* `EscapeFits`: the escaping writer never holds more than its array;
* `TextRight`, `SizeRight`: what arrives is the text of the whole value, through nesting, and the
  size returned is the number of bytes that arrived, also with short writes.

### Proofs

`OutputProofs` proves of `Output!Spec`, for all texts, positions, objects, calls and sizes of the escaping
writer's array that meet `IoAssumption` and `OutputAssumption`:

| theorem | statement |
|---|---|
| `TypesRight` | `Spec => []TypeOK` |
| `FilesKept` | `Spec => []FileKept` |
| `WritesStayInside` | `Spec => []WritesInside` |
| `ReadsRight` | `Spec => []ReadsInOrder` |
| `SizesRight` | `Spec => []SizeRight` |
| `ArrayFits` | each portion of `mywrite_stresc(s)` has `TMP_LEN` bytes at most, for every `s` |

The inductive invariant is `IInv == IoInv /\ PrintInv`, which TLC also confirms on the instance of `output`.

* `IoInv`. `FileKept` speaks of calls that have returned and of the bytes stored. In between, bytes
  that nobody has written yet must be known to be just that (`Holds`: past the file, all of the block is `Stale`), or
  a write beyond the end would have nothing to say of the gap; and the block is at least as long as the
  file, at most as long as the recorded capacity (`Room`). `ReadSoFar` is `ReadsInOrder` while the client keeps to pushes
  and reads, together with the length of what it has got.
* `PrintInv`. `SizeRight` follows from an equation that holds in the middle of a print: the sizes of
  *all* active writers (`Total(frames)`) add up to what has arrived. A writer that returns moves its sum to
  its caller, and a short write is counted with the bytes the descriptor took.
* The types of `frames` need that each writer yields a sequence of pieces for every object. The
  writers are folds over the elements; `Counting` states once that a fold over a sequence exists and keeps
  what each step keeps (`FoldExists`, `FoldKeeps`), and there is one lemma per writer (`EscapedType`, `ReprsType`, ...).
* `EscapedType` is also where the array of the escaping writer is bounded. Between two bytes it holds at most
  `TMP_EVERY + 4`: a test that lets `TMP_EVERY` pass, and an escape of four bytes. The quote at the end is the
  one byte more, of the 16 the code has to spare.

Only model-checked: `TextRight`, which compares with a recursive definition, and
`EscapeFits` as the run states it, over the pieces that wait in a frame: `%s` hands on a whole text as one
piece, which no array holds, so over all calls only `ArrayFits` is true.

Other observations: `Kbuffer` is never given a size, so `kbuffer_new` (and with it `kstr_fmt`,
`kexc_new`) stops at an assertion; `kwrite` to a buffer moves `pos`, never `len`, so it overwrites, and
what it writes cannot be read; `kread` and `kwrite` compute `len - pos` and `cap - pos`
without sign; a backslash is printed unescaped and byte 14 as `\e`; `%O` aborts, `%p` takes its
precision for a width, and any width aborts. A negative `%i` prints its last digit only (-12 is "-2", `api.c:553`), since `kwrites`
divides the negative number and stops at the first quotient that is not positive; the calls of the run print numbers from 0 on. From a `pos`
that was never set `kread` and `kwrite` of a buffer go wherever it points: the properties exempt it.

## Numbers

### Modules

| module | code |
|---|---|
| `Limbs` | the `mp_*` functions: an array of limbs is a sequence of digits to base `2^LIMB_BITS`; schoolbook and Newton division, square root |
| `Bf` | `bf_t` and the operations up to conversions to machine numbers; rounding (`__bf_round`) is the heart |
| `Radix` | `bf_atof`, `bf_ftoa` and what they need: Ziv's loop, conversion of integers by halves |
| `Knum` | `kint_new(z)`, `kfloat_new`, `kbf_prec*`, the operators, and how an int is written |
| `Numbers` | one call per behaviour, and the properties |

They are operators, not actions: the code is sequential and keeps nothing between calls. A `bf_t` is a record
of sign, exponent, number of limbs and mantissa as one integer, with `BF_EXP_ZERO`, `BF_EXP_INF`, `BF_EXP_NAN`
and `BF_PREC_INF` as in `libbf.h` but for their size; functions that work on limbs take the integer
apart. The sizes of the code are constants: `LIMB_BITS` (64), the two thresholds of
division, the width of the root table, the exponent's width, the format of a double, and the extra bits of
Ziv's loops.

### Run `numbers`

About 235 000 calls, each compared with a definition that knows nothing of limbs: a
rounded result is found by comparing multiples of powers of two with the exact one.

* `RoundedRight`: sums, differences, products, quotients, roots, scaling, conversion to a double and
  from text deliver the number their rounding mode picks, with subnormals, fixed points, overflow and
  underflow, in all seven modes;
* `StatusRight`: inexact, overflow, underflow, invalid and divide-by-zero exactly where they belong;
* `CanRoundSound`: when `bf_can_round` says yes, every number nearer than the error bound rounds alike,
  which is what both of Ziv's loops rely on;
* `ExactRight`: order, the six divisions with remainder, two's complement logic, roots with
  remainder, powers, machine integers with and without wrapping, and where reading a text stops;
* `PrintedRight`: a text with fixed digits is the number rounded there; a free one reads back; the
  shortest one has no shorter rival;
* `ObjectsRight`: operators on ints and floats, ints and floats from text, ints to text. `//` is the whole number nearest to a
  float next to the quotient, of the right sign, and an error exactly when the quotient is below one and not zero, or the divisor zero;
* `NumbersTypeOK`: every result has its top bit set and no limb to spare;
* `PrimesRight`: see the dictionary.

Bounds. Limbs have 4 bits and operands up to three of them, so a multi-limb carry, borrow, estimate
and sticky bit happens with mantissas below 2^12; TLC's integers allow no more than seven limbs in
between. The thresholds are 2 and 3 limbs, so that both division algorithms, the table-driven
and the recursive root, and the inverse run; Ziv's first attempt adds 2 bits, so that retries are
common. Mantissas are all of one limb, and longer ones with runs of ones, of zeros, and single bits.
The twelve mutants of these modules (a sticky bit forgotten, one correction of a quotient digit,
a last limb not filled, one bit too many in `bf_can_round`, ...) are each found.
`CHECK_DEADLOCK FALSE` here, as in the other configurations: a call returns and nothing follows.

### Run `ints`

`IntsExact` is violated: `kop_add` and `kop_mul` work at the precision of the longer operand, at least 64
bits, and ignore BF_ST_INEXACT; a kint is announced as "an arbitrary precision whole number". With 4-bit limbs
1 + 16 gives 18; with 64-bit limbs 1 + 2^64 gives 2^64 + 2.

### Run `floor`

`FloorDivides` is violated: `kop_fdiv` rounds the quotient with `bf_rint(&bfc, BF_RNDF)` (`ops.c:136`), which is the nearest whole
number here, while `//` is named floor division (`KS_AST_FLOORDIV`, `ks.h:233`; "compute 'a // b'", `api.h:1022`). The run divides the
ints 0 to 40 by 1 to 8, all of which fit the limbs, and gets 2 for 8 // 5; 7 // 2 is 4. Errors are left to `ObjectsRight`, which
says where one is allowed.

### Observations

* The comment of `bf_can_round` allows an error of exactly 2^(EXP(a)-k); that is wrong for upward and
  nearest rounding, and the property uses the strict bound, which is what the loops have.
* `BF_RNDF` promises RNDD or RNDU (`libbf.h:115`); `bf_mul` reads only high limbs for it and may be
  off by almost two units. kata multiplies with `BF_RNDD`, and uses `BF_RNDF` for other operations only.
* `bf_ftoa` rounds the absolute value in bases that are no powers of two: a directed mode is
  mirrored for negative numbers. kata only uses nearest.
* `kop_fdiv` is an error for a quotient below one, because `bf_rint` reports an underflow.
* `kfloat_new` does not use its `prec`; `kint_new` of a fraction leaves the program;
  a float printed with twenty digits or more is read back with rounding.
* The search for the least number of digits is a dichotomy, which assumes that more digits never
  read back worse; TLC confirms it for the instances.

## What is proved, and what is only checked

Proved with TLAPS for every value of the constants:

* the dictionary: types, memory safety, that failed calls change nothing, references; and of tables of up to
  157 entries with keys of distinct hashes, that entries stay reachable and the table is a map;
* objects and containers: types, counts, safety and leaks, and that they implement the lifetimes of `Lifetime`;
* scripts: types of all three calls; that tokens tile the text and are the longest words; that the parser's nodes and the
  evaluator's references balance; that a helper buffer is not overrun before its 21st element;
* output: types, that bytes stored stay and are read in order, that writes stay inside the block, sizes, the
  array of the escaping writer.

Only model-checked: numbers, and what the sections above name. Liveness
(`EveryCallEnds`, `CascadeEnds`, `ScriptEnds`) is outside TLAPS. `ScriptValues`, `OutputText` and the
modules of the numbers use recursive operators, over which TLAPS does not reason.

## Not modelled

* libbf: the number-theoretic transform (products of 100 limbs and more), decimal numbers (`bfdec_*`),
  prefixes and JavaScript quirks of `bf_ftoa`, none of which kata calls; the transcendental functions, which
  `kop_pow` reaches through `bf_pow` (`Eval` has powers by their value, `Knum` has no `kop_pow`); failing allocations, upon which `kbf_realloc` leaves the program.
* cutils: vendored helpers; kata uses its growing string inside `bf_ftoa` only.
* `kmem_hash`: memory safety and references of the dictionary are proved for every hash, finding entries for every
  hash that tells the keys apart.
* `kargs`: a format is parsed and borrowed references are handed on; nothing changes state.
* Types, functions, exceptions, initialisation: set-up in a fixed order; `ktype_merge` is a loop of
  `kdict_setx` over constant tables.
* Threads are stubs; `nx.h` declares functions nobody defines; the command line and the tests are drivers.
* `kstr_fmt` and string concatenation, which always abort.

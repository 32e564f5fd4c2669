------------------------------ MODULE KdictMap ------------------------------
(***************************************************************************)
(* What a dictionary promises its callers: a finite map from keys to       *)
(* values.  A key is looked up under the hash its caller passes, so the    *)
(* map is indexed by (key, hash) pairs.  A call begins, takes effect in    *)
(* one step and is over; an update that reports an error changes nothing.  *)
(***************************************************************************)
EXTENDS Integers

CONSTANTS Key, Val, None,
          HashVal        \* the hashes callers can pass

VARIABLES map,           \* [Key \X HashVal -> Val \cup {None}]
          call           \* the running or else the last call, with its result

vars == <<map, call>>

Running == 1

New(fn, k, h, v) ==
  [fn |-> fn, key |-> k, hash |-> h, val |-> v, ret |-> Running, out |-> None]

Returned(c, ret, out) == [c EXCEPT !.ret = ret, !.out = out]

Init ==
  /\ map = [kh \in Key \X HashVal |-> None]
  /\ call = Returned(New("new", None, 0, None), 0, None)

Begin(fn, k, h, v) ==
  /\ call.ret # Running /\ call.fn # "del"
  /\ call' = New(fn, k, h, v)
  /\ UNCHANGED map

\* A lookup returns the value stored under its key and hash, or a miss.
Get ==
  LET v == map[<<call.key, call.hash>>]
  IN  /\ call.ret = Running /\ call.fn = "get"
      /\ call' = Returned(call, IF v = None THEN -1 ELSE 0, v)
      /\ UNCHANGED map

Set ==
  /\ call.ret = Running /\ call.fn = "set"
  /\ map' = [map EXCEPT ![<<call.key, call.hash>>] = call.val]
  /\ call' = Returned(call, 0, None)

SetFails ==
  /\ call.ret = Running /\ call.fn = "set"
  /\ \E ret \in {-1, -20} : call' = Returned(call, ret, None)
  /\ UNCHANGED map

\* The key could not be hashed, so the dictionary was not consulted.
HashFails(fn, k) ==
  /\ call.ret # Running /\ call.fn # "del"
  /\ call' = Returned(New(fn, k, 0, None), -1, None)
  /\ UNCHANGED map

Del ==
  /\ call.ret # Running /\ call.fn # "del"
  /\ map' = [kh \in Key \X HashVal |-> None]
  /\ call' = Returned(New("del", None, 0, None), 0, None)

Next ==
  \/ \E k \in Key, h \in HashVal :
       Begin("get", k, h, None) \/ \E v \in Val : Begin("set", k, h, v)
  \/ Get \/ Set \/ SetFails
  \/ \E k \in Key, fn \in {"get", "set"} : HashFails(fn, k)
  \/ Del

Spec == Init /\ [][Next]_vars
=============================================================================

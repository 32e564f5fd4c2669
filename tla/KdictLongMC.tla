----------------------------- MODULE KdictLongMC -----------------------------
(***************************************************************************)
(* Large dictionaries.  While the table is small every call is made on it, *)
(* in every order and with every hash, with the keys of First.  A table    *)
(* that got its first keys in order grows on: the keys 1, 2, 3, ... are    *)
(* set in turn, while those of Again may be set again, and those of Read   *)
(* be looked up, at any time.                                              *)
(***************************************************************************)
EXTENDS Kdict, FiniteSetsExt

CONSTANTS only, First, Again, Read

NewKey == 1 + Max({0} \cup {ents[e].key : e \in DOMAIN ents})

\* The entries a small table has at most.
Few == 3

EarlyCall ==
  /\ Len(ents) <= Few /\ \A e \in DOMAIN ents : ents[e].key \in First
  /\ \/ \E k \in First : \E h \in {Hash[k]} \cup Garbage :
          Get(k, h) \/ \E v \in Val : Set(k, h, v)
     \/ Del

\* The keys are 1, 2, 3, ..., each under its own hash.
InOrder == \A e \in DOMAIN ents : ents[e].key = e /\ ents[e].hash = Hash[e]

LaterCall ==
  /\ InOrder
  /\ \/ \E k \in ({NewKey} \cup {a \in Again : a < NewKey}) \cap Key :
          Set(k, Hash[k], only)
     \/ \E k \in Read : Get(k, Hash[k])

LongNext ==
  \/ EarlyCall \/ LaterCall \/ Step
  \/ \E k \in First, fn \in {"get", "set"} : HashFails(fn, k)

LongSpec == Init /\ [][LongNext]_vars /\ WF_vars(Step)

\* One chain of eight hashes that agree modulo 3, 5, 13 and 37, and others.
Chained == [k \in Key |-> IF k % 3 = 0 THEN 7215 * k ELSE k]

\* Up to the arrays of 223, 541 and 853 buckets.  From the 158th on the
\* insertions meet no bucket of another key; the last key of the narrow
\* limit has the hash of the first.
Spread ==
  [k \in Key |-> IF k < 158 THEN k
                 ELSE IF k = 253 THEN 1
                 ELSE IF k = 256 THEN 180
                 ELSE 350 + (k - 158)]

\* Any table of up to 157 entries is small, in the sense of the theorems about
\* small tables; the 158th asks for more than 253 buckets.
ASSUME SmallAssumption ==
  /\ Narrow({0, 3, 5, 13, 37, 89, 223}, 157)
  /\ NextPrime(Target(157)) > 253
=============================================================================

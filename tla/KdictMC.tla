------------------------------ MODULE KdictMC ------------------------------
(***************************************************************************)
(* Small dictionaries: every order of lookups, insertions, replacements    *)
(* and the deletion, over a few keys.                                      *)
(***************************************************************************)
EXTENDS Kdict, TLC

CONSTANTS k1, k2, k3, k4, v1, v2

\* Three hashes that meet in the arrays of 3, 5 and 13 buckets, and one that
\* meets them in the first two only.
Colliding ==
  [k \in Key |-> (k1 :> 0 @@ k2 :> 195 @@ k3 :> 390 @@ k4 :> 15)[k]]

\* A table of six entries is small, in the sense of the theorems about small
\* tables, and its keys have distinct hashes.
ASSUME SmallAssumption == Narrow({0, 3, 5, 13}, MaxEnts) /\ Distinct
=============================================================================

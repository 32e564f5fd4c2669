------------------------------- MODULE Lifetime -------------------------------
(***************************************************************************)
(* What reference counting promises: an object is there, and is what it    *)
(* was made as, for as long as somebody can get at it; and what nobody can *)
(* get at any more stays out of reach, whenever its memory may go.         *)
(***************************************************************************)
CONSTANTS Obj, Type, None

VARIABLES type,      \* what each place holds, or None
          reached    \* the objects that somebody can get at

vars == <<type, reached>>

Init ==
  /\ type = [o \in Obj |-> None]
  /\ reached = {}

\* Other objects may go out of reach with the same call.
Make(o, t) ==
  /\ type[o] = None
  /\ type' = [type EXCEPT ![o] = t]
  /\ reached' \subseteq reached \cup {o}

Lose ==
  /\ reached' \subseteq reached
  /\ UNCHANGED type

Free(o) ==
  /\ type[o] # None /\ o \notin reached
  /\ type' = [type EXCEPT ![o] = None]
  /\ reached' \subseteq reached

Next ==
  \/ \E o \in Obj : (\E t \in Type : Make(o, t)) \/ Free(o)
  \/ Lose

Spec == Init /\ [][Next]_vars
=============================================================================

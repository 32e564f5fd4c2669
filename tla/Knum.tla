--------------------------------- MODULE Knum ---------------------------------
(***************************************************************************)
(* kint and kfloat on top of bf: how they are made (src/types/int.c and    *)
(* float.c), the operators on them (src/ops.c, src/bf/init.c) and how they *)
(* are written (kwriteR of src/api.c).  An int is a number with no         *)
(* fraction.  Where the code leaves the program, the result is Exit; where *)
(* it reports an error, Error.                                             *)
(***************************************************************************)
EXTENDS Radix

Exit  == [exit |-> TRUE]
Error == [exit |-> FALSE]

kint_newz(val) == LET t == bf_rint(val, "D") IN IF t.ret # {} THEN Exit ELSE t.r

kint_new(str, base) ==
  LET t == bf_atof(str, base, BF_PREC_INF, Mode("N"))
  IN  IF t.ret # {} THEN Exit ELSE kint_newz(t.r)

\* The precision asked for is not used.
kfloat_new(str, base, prec) ==
  LET t == bf_atof2(str, base, BF_PREC_INF, Mode("F"), {})
  IN  IF t.ret \subseteq {"inexact"} THEN t.r ELSE Exit

kbf_prec == LIMB_BITS      \* 64 in the code
kbf_precx(a) == Max({a.len * LIMB_BITS, kbf_prec})
kbf_precy(a, b) == Max({kbf_precx(a), kbf_precx(b), kbf_prec})

\* What an operator makes of the number and the status that bf gives it.
Reported(ret, val) == IF ret \subseteq {"inexact"} THEN val ELSE Error

\* Mutant: sums are made in the default precision, whatever the operands.
kop_add_Narrow(a, b) == LET t == bf_add(a, b, kbf_prec, Mode("F")) IN Reported(t.ret, kint_newz(t.r))

kop_add(a, b) == LET t == bf_add(a, b, kbf_precy(a, b), Mode("F")) IN Reported(t.ret, kint_newz(t.r))

kop_mul(a, b, are_ints) ==
  LET t == bf_mul(a, b, kbf_precy(a, b), Mode("D"))
  IN  Reported(t.ret, IF are_ints THEN kint_newz(t.r) ELSE t.r)

kop_div(a, b) == LET t == bf_div(a, b, kbf_precy(a, b), Mode("F")) IN Reported(t.ret, t.r)

kop_fdiv(a, b) ==
  LET t == bf_div(a, b, kbf_precy(a, b), Mode("F"))
      i == bf_rint(t.r, "F")
  IN  Reported(t.ret \cup i.ret, kint_newz(i.r))

\* What kwriteR writes for an int.
kint_text(a) == bf_ftoa(a, 10, 0, "N", "frac")
=============================================================================

-------------------------------- MODULE Kmem --------------------------------
(***************************************************************************)
(* The pure helpers of src/mem/init.c: the capacity scheme every growable  *)
(* container uses, and the primality test that picks the length of a       *)
(* dictionary's bucket array.                                              *)
(*                                                                         *)
(* usize is 64 bits wide.  The products of my_modpow and my_witness stay   *)
(* below 2^64 as long as the modulus is below 2^32, so for the arguments   *)
(* considered here (below PRIME_BOUND) no product wraps and the operators  *)
(* are written over the naturals.                                          *)
(***************************************************************************)
EXTENDS Integers

\* Upper bound of the arguments of kmem_isprime: its square still fits the
\* 32-bit integers of TLC.
PRIME_BOUND == 46340

\* Mutant: the request is rounded up, not doubled.
kmem_nextcap_Tight(cap, sz) == IF cap >= sz THEN cap ELSE sz + 2

\* The next capacity for a request of sz, given the current one.
kmem_nextcap(cap, sz) == IF cap >= sz THEN cap ELSE (sz + 2) * 2

(***************************************************************************)
(* Primality.                                                              *)
(***************************************************************************)

\* my_modpow(a, b, m): iteration i of the loop over the bits of b, as the
\* record of the three locals.
my_modpow(a, b, m) ==
  LET loop[i \in 0..32] ==
        IF i = 0 THEN [res |-> 1, a2i |-> a, b |-> b]
        ELSE LET p == loop[i - 1]
             IN  [res |-> IF p.b % 2 = 1 THEN (p.res * p.a2i) % m ELSE p.res,
                  a2i |-> IF p.b = 0 THEN p.a2i ELSE (p.a2i * p.a2i) % m,
                  b   |-> p.b \div 2]
  IN  loop[32].res

\* n - 1 = 2^r * d with d odd.
TwoAdic(n) ==
  CHOOSE rd \in {<<r, (n - 1) \div 2^r>> : r \in 0..15} :
    rd[2] % 2 = 1 /\ 2^rd[1] * rd[2] = n - 1

\* One Miller-Rabin witness: a^d is 1 or -1, or one of its first r - 1
\* squares is -1 (modulo n).
my_witness(a, n, r, d) ==
  LET x[i \in 0..r] ==
        IF i = 0 THEN my_modpow(a, d, n) ELSE (x[i - 1] * x[i - 1]) % n
  IN  x[0] = 1 \/ \E i \in 0..(r - 1) : x[i] = n - 1

\* The witnesses the thresholds of kmem_isprime select for 4096 <= n.
Witnesses(n) ==
  IF n < 1373653 THEN {2, 3}
  ELSE IF n < 9080191 THEN {31, 73}
  ELSE IF n < 25326001 THEN {2, 3, 5}
  ELSE {2, 3, 5, 7}

\* Mutant: the trial division stops short of the square root.
kmem_isprime_Short(n) ==
  IF n < 2 THEN FALSE
  ELSE IF n % 2 = 0 THEN n = 2
  ELSE IF n < 4096
       THEN \A i \in 3..63 : i % 2 = 1 /\ i * i < n => n % i # 0
       ELSE LET rd == TwoAdic(n)
            IN  \A a \in Witnesses(n) : my_witness(a, n, rd[1], rd[2])

kmem_isprime(n) ==
  IF n < 2 THEN FALSE
  ELSE IF n % 2 = 0 THEN n = 2
  ELSE IF n < 4096
       THEN \A i \in 3..63 : i % 2 = 1 /\ i * i <= n => n % i # 0
       ELSE LET rd == TwoAdic(n)
            IN  \A a \in Witnesses(n) : my_witness(a, n, rd[1], rd[2])

\* Mutant: the search starts two odd numbers after an odd n.
kmem_nextprime_Skips(n) ==
  LET x == IF n % 2 = 0 THEN n + 1 ELSE n + 4
  IN  CHOOSE p \in x..(2 * x + 1) :
        /\ p % 2 = 1 /\ kmem_isprime(p)
        /\ \A q \in x..(p - 1) : q % 2 = 1 => ~kmem_isprime(q)

\* The first prime among the odd numbers that follow n.  Some prime lies
\* between x and 2 * x + 1, so the search set is never empty.
kmem_nextprime(n) ==
  LET x == IF n % 2 = 0 THEN n + 1 ELSE n + 2
  IN  CHOOSE p \in x..(2 * x + 1) :
        /\ p % 2 = 1 /\ kmem_isprime(p)
        /\ \A q \in x..(p - 1) : q % 2 = 1 => ~kmem_isprime(q)
=============================================================================

------------------------------ MODULE Permutation ------------------------------
(***************************************************************************)
(* Workload::Permute (environment/bench/workload.h 538-558): a Feistel     *)
(* network of four rounds over the least even number of bits that covers   *)
(* n, applied again until its result lies below n.  `mix` gives the round  *)
(* function, Mix64 of the seed in the code.                                *)
(***************************************************************************)
EXTENDS Integers, Bitwise

Bits(n) == CHOOSE b \in {2, 4, 6, 8} :
             2 ^ b >= n /\ (b = 2 \/ 2 ^ (b - 2) < n)

\* The four rounds, each of which swaps the halves.
Feistel(x, half, mix) ==
  LET hm == 2 ^ half - 1
      Round[i \in 0 .. 4] ==
        IF i = 0 THEN [l |-> x & hm, r |-> shiftR(x, half) & hm]
        ELSE LET p == Round[i - 1]
             IN  [l |-> p.r, r |-> p.l ^^ (mix[i][p.r] & hm)]
  IN  Round[4].r * 2 ^ half + Round[4].l

\* Mutant: what lies outside is brought back by a remainder.
PermuteModulo(i, n, mix) == Feistel(i, Bits(n) \div 2, mix) % n

\* The walk ends: the network permutes 0 .. 2^bits - 1, so it comes back to i.
Permute(i, n, mix) ==
  LET half == Bits(n) \div 2
      Walk[k \in 0 .. 2 ^ Bits(n)] ==
        IF k = 0 THEN i ELSE Feistel(Walk[k - 1], half, mix)
      Inside == {k \in 1 .. 2 ^ Bits(n) : Walk[k] < n}
  IN  Walk[CHOOSE k \in Inside : \A j \in Inside : k <= j]
================================================================================

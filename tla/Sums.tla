-------------------------------- MODULE Sums --------------------------------
(* The sum of f[a], ..., f[b], 0 where b is before a.                       *)
EXTENDS Integers

SumOver(f, a, b) ==
  LET sum[i \in a - 1 .. b] == IF i < a THEN 0 ELSE sum[i - 1] + f[i]
  IN sum[b]
=============================================================================

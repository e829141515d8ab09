-------------------------------- MODULE Sums --------------------------------
(***************************************************************************)
(* Sums over initial segments, for the counters and totals that the        *)
(* benchmarks and the samples check, and the powers of two they add up.    *)
(***************************************************************************)
EXTENDS Integers, Sequences

\* f[0] + ... + f[n - 1]
SumTo(f, n) ==
    LET s[k \in 0..n] == IF k = 0 THEN 0 ELSE s[k - 1] + f[k - 1]
    IN  s[n]

\* The sum of a sequence of numbers.
SumOf(s) == SumTo([i \in 0..Len(s) - 1 |-> s[i + 1]], Len(s))

\* 1 << n
TwoTo(n) ==
    LET d[k \in 0..n] == IF k = 0 THEN 1 ELSE 2 * d[k - 1]
    IN  d[n]
=============================================================================

---------------------------- MODULE MCCpuSampling ----------------------------
(***************************************************************************)
(* CpuSampling for TLC: floats of a precision so small that the totals of  *)
(* the run do not fit, rounded to the nearest, ties to even.               *)
(***************************************************************************)
EXTENDS CpuSampling

\* How far floats of the size of n are apart.
Spacing(n) ==
  CHOOSE s \in {2^k : k \in 0..n} : Precision * s > n /\ (s = 1 \/ Precision * s <= 2 * n)

FloatOf ==
  [n \in 0..MaxTime |->
     LET s == Spacing(n)
         below == n \div s
         up == \/ 2 * (n % s) > s
               \/ 2 * (n % s) = s /\ below % 2 = 1
     IN s * (IF up THEN below + 1 ELSE below)]
=============================================================================

-------------------------------- MODULE Sums --------------------------------
(***************************************************************************)
(* The sum x[1] + ... + x[n] of an integer function.                       *)
(***************************************************************************)
EXTENDS Integers

SumTo(x, n) ==
  LET s[m \in 0 .. n] == IF m = 0 THEN 0 ELSE s[m - 1] + x[m]
  IN  s[n]

=============================================================================

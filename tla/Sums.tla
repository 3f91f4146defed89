-------------------------------- MODULE Sums --------------------------------
(***************************************************************************)
(* Totals of finite sequences of integers, as the sums that PostgreSQL and *)
(* the Python code form over rows.  A recursive function, so that the      *)
(* modules that use it can be proved about.                                *)
(***************************************************************************)
EXTENDS Integers, Sequences

\* The function of running totals of s: 0, s[1], s[1] + s[2], ...
RunningTotals(s) ==
  LET t[n \in 0..Len(s)] == IF n = 0 THEN 0 ELSE t[n - 1] + s[n]
  IN  t

Total(s) == RunningTotals(s)[Len(s)]

Least(a, b) == IF a <= b THEN a ELSE b

\* What is left of an amount that is drawn from the first n of the stocks s,
\* each as far as it goes.
Left(s, amount) ==
  LET left[n \in 0..Len(s)] ==
        IF n = 0 THEN amount ELSE left[n - 1] - Least(left[n - 1], s[n])
  IN  left
=============================================================================

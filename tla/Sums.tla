--------------------------------- MODULE Sums ---------------------------------
(***************************************************************************)
(* The sum of a column over the rows 1..n of a table, as SQL's             *)
(* coalesce(sum(...), 0) takes it.                                         *)
(***************************************************************************)
EXTENDS Integers

Total(n, column) ==
    LET run[i \in 0..n] == IF i = 0 THEN 0 ELSE run[i - 1] + column[i]
    IN  run[n]
=============================================================================

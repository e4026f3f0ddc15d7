-------------------------------- MODULE Sums --------------------------------
(* A sum over positions (money.js), as a recursive function: what the       *)
(* prices of a cart and the takings of a report are added up by.           *)
EXTENDS Integers, Sequences

SumOf(amounts) ==
    LET total[n \in 0..Len(amounts)] == IF n = 0 THEN 0 ELSE total[n - 1] + amounts[n]
    IN  total[Len(amounts)]
=============================================================================

------------------------------- MODULE Lists --------------------------------
(***************************************************************************)
(* What the loops of the library compute from a list, as recursive         *)
(* functions of how far the loop has come.                                 *)
(***************************************************************************)
EXTENDS Integers, Sequences

\* The entries of the list that lie in S, in their order.
Selected(list, S) ==
  LET first[n \in 0..Len(list)] ==
        IF n = 0 THEN <<>>
        ELSE IF list[n] \in S THEN Append(first[n - 1], list[n]) ELSE first[n - 1]
  IN  first[Len(list)]

\* The sum of a list of numbers.
Total(list) ==
  LET sum[n \in 0..Len(list)] == IF n = 0 THEN 0 ELSE sum[n - 1] + list[n]
  IN  sum[Len(list)]
=============================================================================

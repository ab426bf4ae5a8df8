------------------------------- MODULE Selection -------------------------------
(***************************************************************************)
(* What retain, filter and the removals of an event stream leave of a      *)
(* sequence: the elements at some of its positions, in order.              *)
(***************************************************************************)
EXTENDS Naturals, Sequences

Pick(s, S) ==
  LET n == Len(s)
      upto[i \in 0..n] ==   \* what is picked of the first i
        IF i = 0 THEN <<>>
        ELSE IF i \in S THEN Append(upto[i - 1], s[i])
        ELSE upto[i - 1]
  IN  upto[n]
=============================================================================

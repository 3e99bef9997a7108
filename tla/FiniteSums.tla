----------------------------- MODULE FiniteSums -----------------------------
(* Sums over finite sets: what a wallet must hold is the sum of the amounts   *)
(* of the documents behind it.                                                *)
EXTENDS Integers

\* The element a sum takes first: any, but always the same one of a set.
First(S) == CHOOSE x \in S : TRUE

\* The sums of value over all the subsets of its domain.
Sums(value) ==
    LET sum[S \in SUBSET DOMAIN value] ==
            IF S = {} THEN 0 ELSE value[First(S)] + sum[S \ {First(S)}]
    IN  sum

SumOf(value, S) == Sums(value)[S]
=============================================================================

-------------------------------- MODULE Lists --------------------------------
(* What the code does with lists: filters, sums and elements in an order.  *)
EXTENDS Naturals, Sequences, FiniteSets

(* The n-th least of a set of numbers.                                     *)
Nth(set, n) == CHOOSE i \in set : Cardinality({j \in set : j <= i}) = n

(* The elements of a sequence at some of its places, in their order.       *)
Places(s, set) == [n \in 1..Cardinality(set) |-> s[Nth(set, n)]]

Filter(s, Test(_)) == Places(s, {i \in DOMAIN s : Test(s[i])})

(* The sum of a sequence of numbers.                                       *)
Total(s) ==
    LET Sum[k \in 0..Len(s)] == IF k = 0 THEN 0 ELSE Sum[k - 1] + s[k]
    IN  Sum[Len(s)]
=============================================================================

------------------------------ MODULE Ordering ------------------------------
(* Lists that a query or a sort returns: ORDER BY and sorted(key=...).     *)
EXTENDS Lists

(* An element that none is before.                                         *)
Least(set, before) == CHOOSE x \in set : \A y \in set : <<y, x>> \notin before

(* The elements of a finite set, each behind those that are before it;     *)
(* elements that are equal for the order come in any.                      *)
Sorted(set, before) ==
    LET List[n \in 0..Cardinality(set)] ==
            IF n = 0 THEN <<>>
            ELSE LET list == List[n - 1]
                 IN  Append(list, Least(set \ {list[i] : i \in DOMAIN list}, before))
    IN  List[Cardinality(set)]

InOrder(set, Before(_, _)) == Sorted(set, {p \in set \X set : Before(p[1], p[2])})
=============================================================================

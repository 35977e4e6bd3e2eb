----------------------------- MODULE WorkLease ------------------------------
(***************************************************************************)
(* What the job queue promises on a single-worker backend, with no loop,   *)
(* no polling, no clock and no separate bookkeeping transaction: an item   *)
(* is leased to at most one worker at a time; a finished lease ends the    *)
(* item or gives it back, a given-back item is buried after MaxAttempts    *)
(* failures, and a lost lease costs no attempt and can be recovered.       *)
(* Specification only: JobQueue is shown to implement it.                  *)
(***************************************************************************)
EXTENDS Naturals, Sequences

CONSTANTS Holders,      \* those who may hold a lease
          MaxAttempts   \* failed attempts after which an item is buried

VARIABLES item,         \* sequence of [state, attempts]
          lease         \* the item each holder has leased (0: none)

leaseVars == <<item, lease>>

Items == DOMAIN item
Is(i, state) == item[i].state = state

Move(i, state) == IF Is(i, "gone") THEN item
                  ELSE [item EXCEPT ![i].state = state]

Missed(entry) ==
    [state    |-> IF entry.attempts + 1 >= MaxAttempts THEN "buried" ELSE "waiting",
     attempts |-> entry.attempts + 1]

Init == item = <<>> /\ lease = [h \in Holders |-> 0]

(* Withdraw waiting items and submit n new ones.                           *)
Submit(withdrawn, n) ==
    /\ \A i \in withdrawn : Is(i, "waiting")
    /\ item' = [i \in Items |-> IF i \in withdrawn
                                THEN [item[i] EXCEPT !.state = "gone"]
                                ELSE item[i]]
               \o [k \in 1..n |-> [state |-> "waiting", attempts |-> 0]]
    /\ UNCHANGED lease

Remove(removed) ==
    /\ item' = [i \in Items |-> IF i \in removed
                                THEN [item[i] EXCEPT !.state = "gone"]
                                ELSE item[i]]
    /\ UNCHANGED lease

Lease(h, i) ==
    /\ lease[h] = 0
    /\ Is(i, "waiting")
    /\ item' = [item EXCEPT ![i].state = "leased"]
    /\ lease' = [lease EXCEPT ![h] = i]

(* An item nobody can work on loses an attempt without being leased.       *)
Refuse(i) ==
    /\ Is(i, "waiting")
    /\ item' = [item EXCEPT ![i] = Missed(@)]
    /\ UNCHANGED lease

Finish(h) ==
    /\ lease[h] # 0
    /\ item' = Move(lease[h], "done")
    /\ lease' = [lease EXCEPT ![h] = 0]

GiveBack(h) ==
    /\ lease[h] # 0
    /\ item' = IF Is(lease[h], "gone") THEN item
               ELSE [item EXCEPT ![lease[h]] = Missed(@)]
    /\ lease' = [lease EXCEPT ![h] = 0]

Lose(h) ==
    /\ lease[h] # 0
    /\ item' = Move(lease[h], "lost")
    /\ lease' = [lease EXCEPT ![h] = 0]

Recover(found) ==
    /\ \A i \in found : Is(i, "lost")
    /\ item' = [i \in Items |-> IF i \in found
                                THEN [item[i] EXCEPT !.state = "waiting"]
                                ELSE item[i]]
    /\ UNCHANGED lease

Next ==
    \/ \E h \in Holders :
         \/ \E i \in Items : Lease(h, i)
         \/ Finish(h) \/ GiveBack(h) \/ Lose(h)
    \/ \E i \in Items : Refuse(i)
    \/ \E some \in SUBSET Items : Remove(some) \/ Recover(some)
    \/ \E withdrawn \in SUBSET Items, n \in 0..(Len(item') - Len(item)) :
         Submit(withdrawn, n)

Spec == Init /\ [][Next]_leaseVars

=============================================================================

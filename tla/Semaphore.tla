----------------------------- MODULE Semaphore -------------------------------
(***************************************************************************)
(* What waitlock promises: a descriptor has at most Limit holders, they    *)
(* come one at a time, and a holder leaves by releasing or by dying.       *)
(***************************************************************************)
EXTENDS Integers, FiniteSets

CONSTANTS Process, Name, Limit

VARIABLE holders   \* the processes that hold each name

Init == holders = [d \in Name |-> {}]

Acquire(p, d) ==
    /\ p \notin holders[d]
    /\ Cardinality(holders[d]) < Limit
    /\ holders' = [holders EXCEPT ![d] = @ \cup {p}]

Leave(p, d) ==
    /\ p \in holders[d]
    /\ holders' = [holders EXCEPT ![d] = @ \ {p}]

Next == \E p \in Process, d \in Name : Acquire(p, d) \/ Leave(p, d)

Spec == Init /\ [][Next]_holders
=============================================================================

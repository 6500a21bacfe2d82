--------------------------- MODULE BarrierService ---------------------------
(***************************************************************************)
(* What a barrier promises the tasks it synchronises (app/stdio.c:828-829):*)
(* a task that arrived for the k-th time leaves only after every task has  *)
(* arrived k times.                                                        *)
(***************************************************************************)
EXTENDS Naturals

CONSTANT Task

VARIABLES
    arrived,   \* how many times each task has reached the barrier
    left       \* how many times it has left it

vars == <<arrived, left>>

Init ==
    /\ arrived = [t \in Task |-> 0]
    /\ left = [t \in Task |-> 0]

Arrive(t) ==
    /\ arrived[t] = left[t]
    /\ arrived' = [arrived EXCEPT ![t] = @ + 1]
    /\ UNCHANGED left

Leave(t) ==
    /\ left[t] < arrived[t]
    /\ \A u \in Task : arrived[u] >= arrived[t]
    /\ left' = [left EXCEPT ![t] = arrived[t]]
    /\ UNCHANGED arrived

Next == \E t \in Task : Arrive(t) \/ Leave(t)

Spec == Init /\ [][Next]_vars
=============================================================================

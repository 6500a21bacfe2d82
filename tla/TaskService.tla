----------------------------- MODULE TaskService -----------------------------
(***************************************************************************)
(* What time sharing promises the tasks of one processor: they run in      *)
(* turn, and the state of a task changes only by its own execution.        *)
(***************************************************************************)
EXTENDS Naturals

CONSTANTS NTasks,       \* number of tasks
          Steps         \* the state of a task is counted modulo this

VARIABLES running,      \* the task that has the processor
          progress      \* progress[t]: the state of task t

vars == <<running, progress>>

Init == running = 0 /\ progress = [t \in 0 .. NTasks - 1 |-> 0]

Run == /\ progress' = [progress EXCEPT ![running] = (@ + 1) % Steps]
       /\ UNCHANGED running

Switch == /\ running' = (running + 1) % NTasks
          /\ UNCHANGED progress

Next == Run \/ Switch

Spec == Init /\ [][Next]_vars

=============================================================================

----------------------------- MODULE IocService -----------------------------
(***************************************************************************)
(* What the block device driver promises its callers (drivers.c:394-413):  *)
(* the device serves one task at a time, a transfer is started, ended and  *)
(* reported once, and the report is the outcome of the caller's transfer.  *)
(***************************************************************************)
EXTENDS Naturals

CONSTANTS Task, Status, Success

VARIABLES
    holders,   \* the task that has the device, if any
    phase,     \* progress of its transfer
    outcome,   \* how the device ended the transfer of each task
    answer     \* what each task was told: 0 for success, 1 for an error

vars == <<holders, phase, outcome, answer>>

Init ==
    /\ holders = {}
    /\ phase = "none"
    /\ outcome = [t \in Task |-> "IDLE"]
    /\ answer = [t \in Task |-> 0]

Acquire(t) ==
    /\ holders = {}
    /\ holders' = {t}
    /\ UNCHANGED <<phase, outcome, answer>>

Start(t) ==
    /\ holders = {t}
    /\ phase = "none"
    /\ phase' = "running"
    /\ answer' = [answer EXCEPT ![t] = 0]
    /\ UNCHANGED <<holders, outcome>>

End(t) ==
    /\ holders = {t}
    /\ phase = "running"
    /\ phase' = "ended"
    /\ \E s \in Status : outcome' = [outcome EXCEPT ![t] = s]
    /\ UNCHANGED <<holders, answer>>

Report(t) ==
    /\ holders = {t}
    /\ phase = "ended"
    /\ phase' = "reported"
    /\ answer' = [answer EXCEPT ![t] = IF outcome[t] \in Success THEN 0 ELSE 1]
    /\ UNCHANGED <<holders, outcome>>

Release(t) ==
    /\ holders = {t}
    /\ phase = "reported"
    /\ holders' = {}
    /\ phase' = "none"
    /\ outcome' = [outcome EXCEPT ![t] = "IDLE"]
    /\ UNCHANGED answer

Next == \E t \in Task :
    Acquire(t) \/ Start(t) \/ End(t) \/ Report(t) \/ Release(t)

Spec == Init /\ [][Next]_vars
=============================================================================

---------------------------- MODULE GietBarrier ----------------------------
(***************************************************************************)
(* The barriers of the GIET kernel: _barrier_init and _barrier_wait of     *)
(* giet_2011/sys/common.c, for one barrier index.  Barriers of different   *)
(* indices share nothing, and an index out of range returns 1 at once.     *)
(*                                                                         *)
(* Every task calls barrier_init with the number of tasks and then calls   *)
(* barrier_wait up to Rounds times.  One step is one access to a shared    *)
(* (uncached) variable; the tasks may run on one or several processors.    *)
(***************************************************************************)
EXTENDS Naturals, FiniteSets

CONSTANTS
    Task,      \* the synchronised tasks
    Rounds,    \* bound on the calls of barrier_wait by one task
    Phased,    \* the application calls barrier_wait only after every task has
               \* returned from barrier_init
    WordSize   \* number of values of an unsigned int: counters wrap there

ASSUME BarrierAssumption ==
    /\ IsFiniteSet(Task)
    /\ Task # {}
    /\ Rounds \in Nat
    /\ Phased \in BOOLEAN
    /\ WordSize \in Nat
    /\ Cardinality(Task) < WordSize

VARIABLES
    pc,        \* where each task is
    initial,   \* _barrier_initial_value[index]
    count,     \* _barrier_count[index]
    link,      \* tasks whose LL reservation is still valid
    max,       \* local maxcount of _barrier_wait
    old,       \* local count of _barrier_wait: the value read by ll
    arrived,   \* history: how many times each task has decremented the counter
    left       \* how many calls of barrier_wait each task has returned from

vars == <<pc, initial, count, link, max, old, arrived, left>>

N == Cardinality(Task)

\* addi -1 on an unsigned int.
Decrement(v) == IF v = 0 THEN WordSize - 1 ELSE v - 1

InInit == {"init_ll", "init_sc", "init_sw"}
InWait == {"ll", "sc", "test", "reset", "spin"}
Pc == {"ready"} \cup InInit \cup InWait
----------------------------------------------------------------------------
\* The barrier variables are zero at boot and every task first calls
\* barrier_init.
Init ==
    /\ pc = [t \in Task |-> "init_ll"]
    /\ initial = 0
    /\ count = 0
    /\ link = {}
    /\ max = [t \in Task |-> 0]
    /\ old = [t \in Task |-> 0]
    /\ arrived = [t \in Task |-> 0]
    /\ left = [t \in Task |-> 0]

Goto(t, from, to) ==
    /\ pc[t] = from
    /\ pc' = [pc EXCEPT ![t] = to]
----------------------------------------------------------------------------
(* _barrier_init *)

\* ll: initialised already, return; or take a reservation and try.
InitLL(t) ==
    /\ Goto(t, "init_ll", IF initial # 0 THEN "ready" ELSE "init_sc")
    /\ link' = link \cup {t}
    /\ UNCHANGED <<initial, count, max, old, arrived, left>>

\* Faulty variant: the counter is left to zero.
InitWithoutCount(t) ==
    /\ Goto(t, "init_sc", "ready")
    /\ t \in link
    /\ initial' = N
    /\ link' = {}
    /\ UNCHANGED <<count, max, old, arrived, left>>

InitSC(t) ==
    /\ Goto(t, "init_sc", "init_sw")
    /\ t \in link
    /\ initial' = N
    /\ link' = {}
    /\ UNCHANGED <<count, max, old, arrived, left>>

InitSCFail(t) ==
    /\ Goto(t, "init_sc", "init_ll")
    /\ t \notin link
    /\ UNCHANGED <<initial, count, link, max, old, arrived, left>>

\* sw: the counter is written after, and apart from, the initial value.
InitSW(t) ==
    /\ Goto(t, "init_sw", "ready")
    /\ count' = N
    /\ link' = {}
    /\ UNCHANGED <<initial, max, old, arrived, left>>
----------------------------------------------------------------------------
(* _barrier_wait *)

WaitCall(t) ==
    /\ left[t] < Rounds
    /\ Phased => \A u \in Task : pc[u] \notin InInit
    /\ Goto(t, "ready", "ll")
    /\ max' = [max EXCEPT ![t] = initial]
    /\ UNCHANGED <<initial, count, link, old, arrived, left>>

WaitLL(t) ==
    /\ Goto(t, "ll", "sc")
    /\ old' = [old EXCEPT ![t] = count]
    /\ link' = link \cup {t}
    /\ UNCHANGED <<initial, count, max, arrived, left>>

\* Faulty variant: the decrement is not atomic.
WaitPlainStore(t) ==
    /\ Goto(t, "sc", "test")
    /\ count' = Decrement(old[t])
    /\ link' = {}
    /\ arrived' = [arrived EXCEPT ![t] = @ + 1]
    /\ UNCHANGED <<initial, max, old, left>>

WaitSC(t) ==
    /\ Goto(t, "sc", "test")
    /\ t \in link
    /\ count' = Decrement(old[t])
    /\ link' = {}
    /\ arrived' = [arrived EXCEPT ![t] = @ + 1]
    /\ UNCHANGED <<initial, max, old, left>>

WaitSCFail(t) ==
    /\ Goto(t, "sc", "ll")
    /\ t \notin link
    /\ UNCHANGED <<initial, count, link, max, old, arrived, left>>

\* Faulty variant: the task before the last takes itself for the last.
WaitTestOffByOne(t) ==
    /\ Goto(t, "test", IF old[t] = 2 THEN "reset" ELSE "spin")
    /\ UNCHANGED <<initial, count, link, max, old, arrived, left>>

WaitTest(t) ==
    /\ Goto(t, "test", IF old[t] = 1 THEN "reset" ELSE "spin")
    /\ UNCHANGED <<initial, count, link, max, old, arrived, left>>

\* The last task sets the counter again and returns.
WaitReset(t) ==
    /\ Goto(t, "reset", "ready")
    /\ count' = max[t]
    /\ link' = {}
    /\ left' = [left EXCEPT ![t] = @ + 1]
    /\ UNCHANGED <<initial, max, old, arrived>>

\* The others poll the counter and return when they read the initial value.
WaitSpin(t) ==
    /\ Goto(t, "spin", "ready")
    /\ count = max[t]
    /\ left' = [left EXCEPT ![t] = @ + 1]
    /\ UNCHANGED <<initial, count, link, max, old, arrived>>

\* The eret of an interrupt taken between ll and sc breaks the reservation.
Interrupt(t) ==
    /\ t \in link
    /\ link' = link \ {t}
    /\ UNCHANGED <<pc, initial, count, max, old, arrived, left>>
----------------------------------------------------------------------------
Step(t) ==
    \/ InitLL(t) \/ InitSC(t) \/ InitSCFail(t) \/ InitSW(t)
    \/ WaitCall(t) \/ WaitLL(t) \/ WaitSC(t) \/ WaitSCFail(t)
    \/ WaitTest(t) \/ WaitReset(t) \/ WaitSpin(t)

\* Every task has made its calls and returned.
Finished ==
    /\ \A t \in Task : pc[t] = "ready" /\ left[t] = Rounds
    /\ UNCHANGED vars

Next == (\E t \in Task : Step(t) \/ Interrupt(t)) \/ Finished

Spec == Init /\ [][Next]_vars

\* A task that can always execute does (round-robin time sharing), and
\* interrupts are far apart: not every ll/sc pair is hit by one.
Fairness == \A t \in Task : WF_vars(Step(t)) /\ SF_vars(WaitSC(t)) /\ SF_vars(InitSC(t))

FairSpec == Spec /\ Fairness
----------------------------------------------------------------------------
\* Type invariant of the barrier and of the locals of its callers.
TypeOK ==
    /\ pc \in [Task -> Pc]
    /\ initial \in 0..(WordSize - 1)
    /\ count \in 0..(WordSize - 1)
    /\ link \in SUBSET Task
    /\ max \in [Task -> 0..(WordSize - 1)]
    /\ old \in [Task -> 0..(WordSize - 1)]
    /\ arrived \in [Task -> Nat]
    /\ left \in [Task -> Nat]

\* "returns only when all synchonized asks have reached the barrier"
\* (app/stdio.c:828-829): a task that has left the barrier k times sees
\* every task arrived at least k times.
NobodyLeavesEarly == \A t, u \in Task : left[t] <= arrived[u]

\* Once every barrier_init has returned the counter is the number of tasks
\* that have still to arrive in the round that is being gathered: the
\* cooperative initialisation (common.c:128-130) leaves a barrier that is
\* ready, no decrement is lost, and no reset comes too early or too late.
Arrivals(k) == Cardinality({t \in Task : arrived[t] >= k})
CounterCountsMissing ==
    (\A t \in Task : pc[t] \notin InInit) =>
        /\ initial = N
        /\ \E k \in 1..(Rounds + 1) :
            /\ \A t \in Task : arrived[t] \in {k - 1, k}
            /\ count = N - Arrivals(k)

\* Cooperative initialisation (common.c:128-130): one task at most goes on
\* from the sc to the store of the counter.
OneInitialiser == \A t, u \in Task : pc[t] = "init_sw" /\ pc[u] = "init_sw" => t = u

\* The barrier implements the abstract barrier.
Service == INSTANCE BarrierService
ImplementsService == Service!Spec

\* "waking up all other waiting tasks" (common.c:189-190): a task that has
\* arrived at the barrier returns from it, all tasks calling it as often.
WaitersWakeUp == \A t \in Task : pc[t] = "spin" ~> pc[t] = "ready"
\* The same, as long as no task overtakes another: leaves the barrier, comes
\* back and decrements the counter (common.c:182) before the other, still
\* polling for its initial value (common.c:198), has read it.
Overtaken(t) == pc[t] = "spin" /\ \E u \in Task : arrived[u] > arrived[t]
WakeUpUnlessOvertaken ==
    \A t \in Task : pc[t] = "spin" ~> (pc[t] = "ready" \/ \E u \in Task : Overtaken(u))
=============================================================================

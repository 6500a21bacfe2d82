-------------------------- MODULE GietKernelProofs --------------------------
(***************************************************************************)
(* Theorems about three parts of the GIET: the barriers, time sharing and  *)
(* the DMA driver.                                                         *)
(*                                                                         *)
(* Barriers: for every finite set of tasks and any number of rounds, when  *)
(* initialisation and use are separated (Phased).                          *)
(*                                                                         *)
(* Time sharing: for any number of tasks, when the processor is switched   *)
(* by the timer alone or by system calls alone (OneWay).  The invariant    *)
(* says which task _current_task_array names at each point of _ctx_switch, *)
(* and that the slot of the caller is up to date between the two halves of *)
(* _task_switch.                                                           *)
(*                                                                         *)
(* DMA driver: for any set of tasks, switched between any two accesses, as *)
(* long as no two of them have passed the test of _dma_busy, which is not  *)
(* an atomic lock, before either has set it (raced).                       *)
(***************************************************************************)
EXTENDS GietBarrier, GietTask, GietDma, FiniteSetTheorems, TLAPS

-----------------------------------------------------------------------------
(* The barriers *)

\* The task that found the counter at one and has not reset it yet.
Last(t) == pc[t] = "reset" \/ (pc[t] = "test" /\ old[t] = 1)

\* The tasks that have arrived in generation g, g being the number of times
\* the counter has been reset.
Arrived(g) == {t \in Task : arrived[t] = g + 1}

Generation(g) ==
    /\ \A t \in Task : arrived[t] \in {g, g + 1} /\ left[t] <= g
    /\ count = N - Cardinality(Arrived(g))

\* Locals and reservations agree with the shared counter.
LocalInv ==
    /\ initial = N
    /\ \A t \in Task :
        /\ pc[t] \notin InInit
        /\ pc[t] \in InWait => max[t] = N
        /\ left[t] <= Rounds /\ (pc[t] \in InWait => left[t] < Rounds)
        /\ t \in link /\ pc[t] = "sc" => old[t] = count
        /\ pc[t] \in {"ready", "ll", "sc"} => arrived[t] = left[t]
        /\ pc[t] \in {"test", "reset", "spin"} => arrived[t] = left[t] + 1
        /\ Last(t) => count = 0
    /\ \A t, u \in Task : Last(t) /\ Last(u) => t = u

\* In use: every barrier_init has returned.
UseInv == TypeOK /\ LocalInv /\ \E g \in Nat : Generation(g)

\* Being initialised: nobody waits, and the counter is zero until the task
\* whose sc succeeded has stored it.
StartInv ==
    /\ TypeOK
    /\ \A t \in Task : pc[t] \in InInit \cup {"ready"} /\ arrived[t] = 0 /\ left[t] = 0
    /\ initial \in {0, N}
    /\ initial = 0 => \A t \in Task : pc[t] \in {"init_ll", "init_sc"}
    /\ initial = N => \A t \in Task : pc[t] = "init_sc" => t \notin link
    /\ initial = N => count = N \/ \E t \in Task : pc[t] = "init_sw"
    /\ \A t, u \in Task : pc[t] = "init_sw" /\ pc[u] = "init_sw" => t = u

IInv == UseInv \/ StartInv
----------------------------------------------------------------------------
USE BarrierAssumption DEF N, InInit, InWait, Pc

\* The number of tasks is a positive number that fits an unsigned int.
LEMMA TaskCount == N \in Nat /\ N > 0 /\ N < WordSize
    BY FS_CardinalityType, FS_EmptySet

\* The counter of a generation: bounds, and what its extreme values mean.
LEMMA ArrivedCount ==
    ASSUME NEW g \in Nat
    PROVE  /\ IsFiniteSet(Arrived(g))
           /\ Cardinality(Arrived(g)) \in 0..N
           /\ Cardinality(Arrived(g)) = 0 => Arrived(g) = {}
           /\ Cardinality(Arrived(g)) = N => Arrived(g) = Task
<1>1. Arrived(g) \subseteq Task
    BY DEF Arrived
<1>2. IsFiniteSet(Arrived(g)) /\ Cardinality(Arrived(g)) <= N
    BY <1>1, FS_Subset
<1>3. Cardinality(Arrived(g)) \in Nat
    BY <1>2, FS_CardinalityType
<1>4. Cardinality(Arrived(g)) = 0 => Arrived(g) = {}
    BY <1>2, FS_EmptySet
<1>5. Cardinality(Arrived(g)) = N => Arrived(g) = Task
    BY <1>1, FS_Subset
<1> QED
    BY <1>2, <1>3, <1>4, <1>5, TaskCount

\* When every barrier_init has returned the barrier is ready for use.
LEMMA StartDone ==
    ASSUME StartInv, \A t \in Task : pc[t] \notin InInit PROVE UseInv
<1>1. \A t \in Task : pc[t] = "ready"
    BY DEF StartInv
<1>2. initial = N /\ count = N
    BY <1>1, TaskCount DEF StartInv
<1>3. LocalInv
    BY <1>1, <1>2 DEF StartInv, LocalInv, Last, TypeOK
<1>4. Generation(0)
  <2>1. Arrived(0) = {}
    BY DEF StartInv, Arrived
  <2> QED
    BY <1>2, <2>1, TaskCount, FS_EmptySet DEF StartInv, Generation
<1> QED
    BY <1>3, <1>4 DEF UseInv, StartInv

\* The steps of barrier_init.
LEMMA BeginInv ==
    ASSUME NEW t \in Task, StartInv,
           InitLL(t) \/ InitSC(t) \/ InitSCFail(t) \/ InitSW(t) \/ Interrupt(t)
    PROVE  StartInv'
<1> USE TaskCount DEF Goto, StartInv, TypeOK
<1>1. CASE InitLL(t)
    BY <1>1 DEF InitLL
<1>2. CASE InitSC(t)
  <2>1. initial = 0
    BY <1>2 DEF InitSC
  <2> QED
    BY <1>2, <2>1 DEF InitSC
<1>3. CASE InitSCFail(t)
    BY <1>3 DEF InitSCFail
<1>4. CASE InitSW(t)
    BY <1>4 DEF InitSW
<1>5. CASE Interrupt(t)
    BY <1>5 DEF Interrupt
<1> QED
    BY <1>1, <1>2, <1>3, <1>4, <1>5

\* Arriving: a task not yet counted in the generation is counted.
LEMMA ArriveInv ==
    ASSUME NEW t \in Task, UseInv, WaitSC(t) PROVE UseInv'
<1> USE DEF WaitSC, Goto
<1>1. PICK g \in Nat : Generation(g)
    BY DEF UseInv
<1>2. arrived[t] = g /\ old[t] = count
    BY <1>1 DEF UseInv, TypeOK, LocalInv, Generation
<1>3. t \notin Arrived(g) /\ Arrived(g)' = Arrived(g) \cup {t}
    BY <1>2 DEF UseInv, TypeOK, Arrived
<1>4. Cardinality(Arrived(g)') = Cardinality(Arrived(g)) + 1
    BY Zenon, <1>3, ArrivedCount, FS_AddElement
<1>5. Cardinality(Arrived(g)) # N
    BY <1>3, ArrivedCount
<1>6. count > 0 /\ count' = count - 1 /\ count' = N - Cardinality(Arrived(g)')
    BY <1>1, <1>2, <1>4, <1>5, ArrivedCount, TaskCount DEF Generation, Decrement
<1>7. TypeOK'
    BY <1>6 DEF UseInv, TypeOK
<1>8. Generation(g)'
    BY <1>1, <1>2, <1>6 DEF UseInv, TypeOK, Generation
<1>9. LocalInv'
  <2>1. \A u \in Task : ~Last(u)
    BY <1>6 DEF UseInv, LocalInv
  <2>2. \A u \in Task : Last(u)' => u = t /\ old[t] = 1
    BY <2>1 DEF UseInv, TypeOK, Last
  <2>3. \A u \in Task : Last(u)' => count' = 0
    BY <2>2, <1>2, <1>6
  <2> QED
    BY <2>2, <2>3, <1>6 DEF UseInv, TypeOK, LocalInv
<1> QED
    BY <1>7, <1>8, <1>9 DEF UseInv

\* The last task of a generation resets the counter and opens the next one.
LEMMA ResetInv ==
    ASSUME NEW t \in Task, UseInv, WaitReset(t) PROVE UseInv'
<1> USE DEF WaitReset, Goto
<1>1. PICK g \in Nat : Generation(g)
    BY DEF UseInv
<1>2. Last(t) /\ count = 0 /\ max[t] = N
    BY DEF UseInv, LocalInv, Last
<1>3. Arrived(g) = Task
    BY <1>1, <1>2, ArrivedCount, TaskCount DEF Generation
<1>4. \A u \in Task : arrived[u] = g + 1
    BY <1>3 DEF Arrived
<1>5. Arrived(g + 1)' = {}
    BY <1>4 DEF Arrived
<1>6. Generation(g + 1)'
  <2>0. Cardinality(Arrived(g + 1)') = 0
    BY <1>5, FS_EmptySet
  <2>1. count' = N - Cardinality(Arrived(g + 1)')
    BY <1>2, <2>0, TaskCount
  <2>2. \A u \in Task : left'[u] <= g + 1
    BY <1>1, <1>4 DEF UseInv, TypeOK, LocalInv, Generation
  <2> QED
    BY <1>4, <2>1, <2>2 DEF Generation
<1>7. TypeOK'
    BY <1>2, TaskCount DEF UseInv, TypeOK
<1>8. LocalInv'
  <2>1. \A u \in Task : ~Last(u)'
    BY <1>2 DEF UseInv, TypeOK, LocalInv, Last
  <2> QED
    BY <2>1 DEF UseInv, TypeOK, LocalInv
<1> QED
    BY <1>6, <1>7, <1>8 DEF UseInv

\* A polling task leaves only in a generation in which nobody has arrived.
LEMMA SpinInv ==
    ASSUME NEW t \in Task, UseInv, WaitSpin(t) PROVE UseInv'
<1> USE DEF WaitSpin, Goto
<1>1. PICK g \in Nat : Generation(g)
    BY DEF UseInv
<1>2. Arrived(g) = {}
  <2>1. count = N
    BY DEF UseInv, LocalInv
  <2>2. Cardinality(Arrived(g)) = 0
    BY <1>1, <2>1, ArrivedCount, TaskCount DEF Generation
  <2> QED
    BY <2>2, ArrivedCount
<1>3. \A u \in Task : arrived[u] = g
    BY <1>1, <1>2 DEF Arrived, Generation
<1>4. Generation(g)'
  <2>1. Arrived(g)' = Arrived(g)
    BY DEF Arrived
  <2> QED
    BY <1>1, <1>3, <2>1 DEF UseInv, TypeOK, LocalInv, Generation
<1>5. TypeOK' /\ LocalInv'
    BY DEF UseInv, TypeOK, LocalInv, Last
<1> QED
    BY <1>4, <1>5 DEF UseInv

\* The steps that do not touch the counter.
LEMMA OtherInv ==
    ASSUME NEW t \in Task, UseInv,
           \/ InitLL(t) \/ InitSC(t) \/ InitSCFail(t) \/ InitSW(t)
           \/ WaitCall(t) \/ WaitLL(t) \/ WaitSCFail(t) \/ WaitTest(t) \/ Interrupt(t)
    PROVE  UseInv'
<1> USE DEF Goto
<1>1. ~(InitLL(t) \/ InitSC(t) \/ InitSCFail(t) \/ InitSW(t))
    BY DEF InitLL, InitSC, InitSCFail, InitSW, UseInv, LocalInv
<1>2. TypeOK' /\ LocalInv'
  <2>1. CASE WaitCall(t)
    BY <2>1 DEF WaitCall, UseInv, TypeOK, LocalInv, Last
  <2>2. CASE WaitLL(t)
    BY <2>2 DEF WaitLL, UseInv, TypeOK, LocalInv, Last
  <2>3. CASE WaitSCFail(t) \/ WaitTest(t) \/ Interrupt(t)
    BY <2>3 DEF WaitSCFail, WaitTest, Interrupt, UseInv, TypeOK, LocalInv, Last
  <2> QED
    BY <1>1, <2>1, <2>2, <2>3
<1>3. ASSUME NEW g \in Nat, Generation(g) PROVE Generation(g)'
  <2>1. arrived' = arrived /\ left' = left /\ count' = count
    BY <1>1 DEF WaitCall, WaitLL, WaitSCFail, WaitTest, Interrupt
  <2> QED
    BY <1>3, <2>1 DEF Generation, Arrived
<1> QED
    BY <1>2, <1>3 DEF UseInv

\* A barrier in use stays in use.
LEMMA UseStep == UseInv /\ [Next]_vars => UseInv'
<1> SUFFICES ASSUME UseInv, [Next]_vars PROVE UseInv'
    OBVIOUS
<1>1. CASE \E t \in Task : Step(t) \/ Interrupt(t)
    BY <1>1, ArriveInv, ResetInv, SpinInv, OtherInv DEF Step
<1>2. CASE UNCHANGED vars
  <2>1. TypeOK' /\ LocalInv'
    BY <1>2 DEF vars, UseInv, TypeOK, LocalInv, Last
  <2>2. ASSUME NEW g \in Nat, Generation(g) PROVE Generation(g)'
    BY <1>2, <2>2 DEF vars, Generation, Arrived
  <2> QED
    BY <2>1, <2>2 DEF UseInv
<1> QED
    BY <1>1, <1>2 DEF Next, Finished

\* A barrier being initialised: the first call of barrier_wait finds it ready.
LEMMA StartStep == Phased /\ StartInv /\ [Next]_vars => IInv'
<1> SUFFICES ASSUME Phased, StartInv, [Next]_vars PROVE IInv'
    OBVIOUS
<1>1. CASE \E t \in Task : Step(t) \/ Interrupt(t)
  <2>1. PICK t \in Task : Step(t) \/ Interrupt(t)
    BY <1>1
  <2>2. CASE WaitCall(t)
    BY Zenon, <2>2, StartDone, OtherInv DEF WaitCall, IInv
  <2>3. CASE InitLL(t) \/ InitSC(t) \/ InitSCFail(t) \/ InitSW(t) \/ Interrupt(t)
    BY <2>3, BeginInv DEF IInv
  <2>4. ~(\/ WaitLL(t) \/ WaitSC(t) \/ WaitSCFail(t) \/ WaitTest(t)
          \/ WaitReset(t) \/ WaitSpin(t))
    BY DEF StartInv, WaitLL, WaitSC, WaitSCFail, WaitTest, WaitReset, WaitSpin, Goto
  <2> QED
    BY <2>1, <2>2, <2>3, <2>4 DEF Step
<1>2. CASE UNCHANGED vars
    BY <1>2 DEF vars, IInv, StartInv, TypeOK
<1> QED
    BY <1>1, <1>2 DEF Next, Finished

\* The invariant of a barrier used only once every barrier_init has returned.
THEOREM Invariance == Phased => (Spec => []IInv)
<1> SUFFICES ASSUME Phased PROVE Spec => []IInv
    OBVIOUS
<1>1. Init => IInv
    BY TaskCount DEF Init, IInv, StartInv, TypeOK
<1>2. IInv /\ [Next]_vars => IInv'
    BY UseStep, StartStep DEF IInv
<1> QED
    BY <1>1, <1>2, PTL DEF Spec

\* All variables keep their types; in particular the counter never wraps.
THEOREM TypeCorrect == Phased => (Spec => []TypeOK)
<1> SUFFICES ASSUME Phased PROVE Spec => []TypeOK
    OBVIOUS
<1>1. IInv => TypeOK
    BY DEF IInv, UseInv, StartInv
<1> QED
    BY <1>1, Invariance, PTL

\* No task leaves the barrier for the k-th time before every task has
\* arrived k times, however often the barrier is used again.
THEOREM BarrierSafety == Phased => (Spec => []NobodyLeavesEarly)
<1> SUFFICES ASSUME Phased PROVE Spec => []NobodyLeavesEarly
    OBVIOUS
<1>1. UseInv => NobodyLeavesEarly
    BY DEF UseInv, TypeOK, Generation, NobodyLeavesEarly
<1>2. StartInv => NobodyLeavesEarly
    BY DEF StartInv, NobodyLeavesEarly
<1> QED
    BY <1>1, <1>2, Invariance, PTL DEF IInv

\* The cooperative initialisation has one initialiser, and from then on the
\* counter counts the tasks that have still to arrive.
THEOREM CounterCorrect ==
    Phased => (Spec => []OneInitialiser /\ []CounterCountsMissing)
<1> SUFFICES ASSUME Phased PROVE Spec => []OneInitialiser /\ []CounterCountsMissing
    OBVIOUS
<1>1. IInv => OneInitialiser
    BY DEF IInv, UseInv, LocalInv, StartInv, OneInitialiser
<1>2. UseInv => CounterCountsMissing
  <2> SUFFICES ASSUME UseInv PROVE CounterCountsMissing
    OBVIOUS
  <2>1. PICK g \in Nat : Generation(g)
    BY DEF UseInv
  <2>2. g + 1 \in 1..(Rounds + 1)
    <3>1. PICK t \in Task : TRUE
      OBVIOUS
    <3>2. arrived[t] <= Rounds
      BY <3>1 DEF UseInv, TypeOK, LocalInv
    <3> QED
      BY <2>1, <3>1, <3>2 DEF Generation
  <2>3. Arrivals(g + 1) = Cardinality(Arrived(g))
    <3>1. {t \in Task : arrived[t] >= g + 1} = Arrived(g)
      BY <2>1 DEF Generation, Arrived
    <3> QED
      BY <3>1 DEF Arrivals
  <2>4. \A t \in Task : arrived[t] \in {(g + 1) - 1, g + 1}
    BY <2>1 DEF Generation
  <2>5. count = N - Arrivals(g + 1) /\ initial = N
    BY <2>1, <2>3 DEF Generation, UseInv, LocalInv
  <2> QED
    BY <2>2, <2>4, <2>5 DEF CounterCountsMissing
<1>3. StartInv => CounterCountsMissing
    BY <1>2, StartDone DEF CounterCountsMissing
<1> QED
    BY <1>1, <1>2, <1>3, Invariance, PTL DEF IInv

\* The barrier implements the abstract barrier: a step is an arrival, a
\* departure that BarrierService allows, or invisible.
THEOREM Refinement == Phased => (Spec => ImplementsService)
<1> SUFFICES ASSUME Phased PROVE Spec => ImplementsService
    OBVIOUS
<1>1. Init => Service!Init
    BY DEF Init, Service!Init
<1>2. UseInv /\ [Next]_vars => [Service!Next]_(Service!vars)
  <2> SUFFICES ASSUME UseInv, [Next]_vars PROVE [Service!Next]_(Service!vars)
    OBVIOUS
  <2>1. ASSUME NEW t \in Task, WaitSC(t) PROVE Service!Arrive(t)
    BY <2>1 DEF WaitSC, Goto, UseInv, TypeOK, LocalInv, Service!Arrive
  <2>2. ASSUME NEW t \in Task, WaitReset(t) PROVE Service!Leave(t)
    <3>1. PICK g \in Nat : Generation(g)
      BY DEF UseInv
    <3>2. Arrived(g) = Task
      BY <2>2, <3>1, ArrivedCount, TaskCount
         DEF WaitReset, Goto, UseInv, LocalInv, Last, Generation
    <3>3. \A u \in Task : arrived[u] = g + 1
      BY <3>2 DEF Arrived
    <3>4. arrived[t] = left[t] + 1
      BY <2>2 DEF WaitReset, Goto, UseInv, LocalInv
    <3> QED
      BY <2>2, <3>3, <3>4 DEF WaitReset, UseInv, TypeOK, Service!Leave
  <2>3. ASSUME NEW t \in Task, WaitSpin(t) PROVE Service!Leave(t)
    <3>1. PICK g \in Nat : Generation(g)
      BY DEF UseInv
    <3>2. Arrived(g) = {}
      <4>1. count = N
        BY <2>3 DEF WaitSpin, Goto, UseInv, LocalInv
      <4>2. Cardinality(Arrived(g)) = 0
        BY <3>1, <4>1, ArrivedCount, TaskCount DEF Generation
      <4> QED
        BY <4>2, ArrivedCount
    <3>3. \A u \in Task : arrived[u] = g
      BY <3>1, <3>2 DEF Arrived, Generation
    <3>4. arrived[t] = left[t] + 1
      BY <2>3 DEF WaitSpin, Goto, UseInv, LocalInv
    <3> QED
      BY <2>3, <3>3, <3>4 DEF WaitSpin, UseInv, TypeOK, Service!Leave
  <2>4. ASSUME NEW t \in Task,
               \/ InitLL(t) \/ InitSC(t) \/ InitSCFail(t) \/ InitSW(t) \/ WaitCall(t)
               \/ WaitLL(t) \/ WaitSCFail(t) \/ WaitTest(t) \/ Interrupt(t)
        PROVE  UNCHANGED Service!vars
    BY <2>4 DEF InitLL, InitSC, InitSCFail, InitSW, WaitCall, WaitLL, WaitSCFail,
                WaitTest, Interrupt, Service!vars
  <2>5. CASE UNCHANGED vars
    BY <2>5 DEF vars, Service!vars
  <2> QED
    BY <2>1, <2>2, <2>3, <2>4, <2>5 DEF Next, Step, Finished, Service!Next
<1>3. StartInv /\ [Next]_vars => UNCHANGED Service!vars
    BY DEF StartInv, Next, Finished, Step, Goto, InitLL, InitSC, InitSCFail, InitSW,
           WaitCall, WaitLL, WaitSC, WaitSCFail, WaitTest, WaitReset, WaitSpin,
           Interrupt, vars, Service!vars
<1> QED
    BY <1>1, <1>2, <1>3, Invariance, PTL DEF IInv, Spec, Service!Spec, ImplementsService

HIDE BarrierAssumption DEF N, InInit, InWait, Pc

-----------------------------------------------------------------------------
(* Time sharing *)

\* No system has both a timer and tasks that call ctx_switch().
OneWay == {"timer", "yield"} \notin Ways

Slot(t) == ctx[t].task = t /\ ctx[t].at = "user"

TaskInv ==
    /\ TaskTypeOK
    /\ cpu.at \in {"user", "test", "load", "store"} => current = cpu.task
    /\ cpu.at \in {"save", "restore"} => current = NextIndex(cpu.curr)
    /\ cpu.at \in {"store", "save", "restore"} => cpu.curr = cpu.task
    /\ cpu.at \in {"load", "store", "save", "restore"} => NTasks > 1
    /\ \A t \in Index : t # cpu.task => Slot(t)
    /\ cpu.at = "restore" => Slot(cpu.task) /\ ctx[cpu.task].step = cpu.step
    /\ ~ Yields => cpu.at = "user"
    /\ ~ Timer => ~ irq

\* A system has the timer or the calls, not both.
LEMMA OneWayOnly == OneWay /\ TaskTypeOK => ~ (Timer /\ Yields)
  <1> SUFFICES ASSUME OneWay, TaskTypeOK, Timer, Yields PROVE FALSE
    OBVIOUS
  <1>1. ways \in SUBSET {"timer", "yield"} /\ "timer" \in ways /\ "yield" \in ways
    BY TaskAssumption DEF TaskTypeOK, Timer, Yields
  <1>2. ways = {"timer", "yield"}
    BY Zenon, <1>1
  <1> QED
    BY <1>2 DEF OneWay, TaskTypeOK

\* The modulo of _ctx_switch: the next index is an index, and another one.
LEMMA NextIndexIsIndex ==
    ASSUME NEW i \in Index
    PROVE  NextIndex(i) \in Index /\ (NTasks > 1 => NextIndex(i) # i)
  <1>1. NTasks \in Nat /\ NTasks > 0 /\ i \in Nat /\ i < NTasks
    BY TaskAssumption DEF Index
  <1>2. CASE i + 1 < NTasks
    <2>1. (i + 1) % NTasks = i + 1
      BY <1>1, <1>2
    <2> QED
      BY <1>1, <1>2, <2>1 DEF NextIndex, Index
  <1>3. CASE i + 1 = NTasks
    <2>1. NTasks % NTasks = 0
      BY <1>1
    <2> QED
      BY <1>1, <1>3, <2>1 DEF NextIndex, Index
  <1> QED
    BY <1>1, <1>2, <1>3

\* The boot state satisfies the invariant.
LEMMA TaskInitInv == TaskInit => TaskInv
  <1>1. 0 \in Index /\ 0 \in 0 .. Steps - 1
    BY TaskAssumption DEF Index
  <1>2. ASSUME NEW t \in Index
        PROVE  Fresh(t) \in Context /\ Fresh(t).task = t /\ Fresh(t).at = "user"
    BY <1>1 DEF Fresh, Context, At
  <1>3. TaskInit => TaskTypeOK /\ cpu.at = "user" /\ current = cpu.task /\ ~ irq
    BY Zenon, <1>1, <1>2 DEF TaskInit, TaskTypeOK
  <1>4. TaskInit => \A t \in Index : Slot(t)
    BY <1>2 DEF TaskInit, Slot
  <1> QED
    BY <1>3, <1>4 DEF TaskInv

\* A task computes.
LEMMA ComputeInv == TaskInv /\ Compute => TaskInv'
  <1> SUFFICES ASSUME TaskInv, Compute PROVE TaskInv'
    OBVIOUS
  <1>1. (cpu.step + 1) % Steps \in 0 .. Steps - 1
    BY TaskAssumption DEF TaskInv, TaskTypeOK, Context
  <1> QED
    BY <1>1 DEF Compute, TaskInv, TaskTypeOK, Context, Slot, NextIndex, Timer, Yields

\* The timer interrupt switches tasks; no system call is under way then.
LEMMA IsrInv == OneWay /\ TaskInv /\ IsrSwitch => TaskInv'
  <1> SUFFICES ASSUME OneWay, TaskInv, IsrSwitch PROVE TaskInv'
    OBVIOUS
  <1>1. cpu.at = "user" /\ current = cpu.task /\ Timer
    BY OneWayOnly DEF IsrSwitch, Acknowledge, TaskInv
  <1>2. CASE NTasks =< 1
    BY Zenon, <1>1, <1>2 DEF IsrSwitch, Acknowledge, TaskInv, TaskTypeOK, Slot, NextIndex, Timer, Yields
  <1>3. CASE ~ (NTasks =< 1)
    <2>1. /\ current \in Index /\ NextIndex(current) \in Index /\ NextIndex(current) # current
          /\ cpu \in Context /\ ctx \in [Index -> Context]
      BY <1>3, NextIndexIsIndex, TaskAssumption DEF TaskInv, TaskTypeOK
    <2>2. /\ ctx' = [ctx EXCEPT ![current] = cpu] /\ cpu' = ctx[NextIndex(current)]
          /\ current' = NextIndex(current) /\ irq' = FALSE /\ ways' = ways
      BY <1>3 DEF IsrSwitch, Acknowledge
    <2>3. Slot(NextIndex(current))
      BY <1>1, <2>1 DEF TaskInv
    <2>4. cpu'.task = NextIndex(current) /\ cpu'.at = "user"
      BY <2>2, <2>3 DEF Slot
    <2>5. TaskTypeOK'
      BY Zenon, <2>1, <2>2 DEF TaskInv, TaskTypeOK
    <2>6. ASSUME NEW t \in Index, t # cpu'.task PROVE Slot(t)'
      <3>1. CASE t = current
        BY <1>1, <2>1, <2>2, <3>1 DEF Slot
      <3>2. CASE t # current
        BY <1>1, <2>1, <2>2, <3>2 DEF Slot, TaskInv
      <3> QED
        BY <3>1, <3>2
    <2> QED
      BY <1>1, <2>2, <2>4, <2>5, <2>6 DEF TaskInv, Timer, Yields
  <1> QED
    BY <1>2, <1>3

\* A system call switches tasks step by step.
LEMMA SyscallInv == TaskInv /\ Syscall => TaskInv'
  <1> SUFFICES ASSUME TaskInv, Syscall PROVE TaskInv'
    OBVIOUS
  <1> USE TaskAssumption
  <1>1. CASE CallCtxSwitch
    BY <1>1 DEF CallCtxSwitch, TaskGoto, TaskInv, TaskTypeOK, Context, At, Slot, NextIndex, Timer, Yields
  <1>2. CASE TestNumber
    BY <1>2 DEF TestNumber, TaskGoto, TaskInv, TaskTypeOK, Context, At, Slot, NextIndex, Timer, Yields
  <1>3. CASE LoadCurrent
    BY Zenon, <1>3 DEF LoadCurrent, TaskInv, TaskTypeOK, Context, At, Slot, NextIndex, Timer, Yields
  <1>4. CASE StoreCurrent
    <2>1. NextIndex(cpu.curr) \in Index
      BY NextIndexIsIndex DEF TaskInv, TaskTypeOK, Context
    <2> QED
      BY <1>4, <2>1 DEF StoreCurrent, TaskGoto, TaskInv, TaskTypeOK, Context, At, Slot, Timer, Yields
  <1>5. CASE SaveContext
    <2>1. 0 \in Index
      BY DEF Index
    <2> DEFINE saved == [cpu EXCEPT !.at = "user", !.curr = 0]
    <2>2. /\ cpu \in Context /\ cpu.at = "save" /\ cpu.curr = cpu.task
          /\ cpu.task \in Index /\ ctx \in [Index -> Context]
      BY <1>5 DEF SaveContext, TaskGoto, TaskInv, TaskTypeOK, Context
    <2>3. /\ saved \in Context /\ saved.task = cpu.task
          /\ saved.at = "user" /\ saved.step = cpu.step
      BY Zenon, <2>1, <2>2 DEF Context, At
    <2>4. /\ cpu' = [cpu EXCEPT !.at = "restore"] /\ UNCHANGED <<current, irq, ways>>
          /\ ctx' = [ctx EXCEPT ![cpu.task] = saved]
      BY <1>5, <2>2 DEF SaveContext, TaskGoto
    <2> HIDE DEF saved
    <2>5. /\ cpu' \in Context /\ cpu'.at = "restore" /\ cpu'.task = cpu.task
          /\ cpu'.step = cpu.step /\ cpu'.curr = cpu.curr
      BY <2>2, <2>4 DEF Context, At
    <2>6. TaskTypeOK'
      BY <2>2, <2>3, <2>4, <2>5 DEF TaskInv, TaskTypeOK
    <2>7. \A t \in Index : Slot(t)'
      BY <2>2, <2>3, <2>4 DEF TaskInv, Slot
    <2>8. ctx'[cpu.task].step = cpu.step
      BY <2>2, <2>3, <2>4
    <2> QED
      BY <2>2, <2>4, <2>5, <2>6, <2>7, <2>8 DEF TaskInv, NextIndex, Timer, Yields
  <1>6. CASE RestoreContext
    <2> DEFINE n == NextIndex(cpu.curr)
    <2>1. n \in Index /\ n # cpu.task /\ current = n /\ cpu.curr = cpu.task
      BY <1>6, NextIndexIsIndex DEF RestoreContext, TaskInv, TaskTypeOK, Context
    <2>2. Slot(n) /\ Slot(cpu.task)
      BY <1>6, <2>1 DEF RestoreContext, TaskInv
    <2>3. cpu' = ctx[n] /\ cpu'.task = n /\ cpu'.at = "user" /\ UNCHANGED <<ctx, current, irq, ways>>
      BY <1>6, <2>2 DEF RestoreContext, Slot
    <2> HIDE DEF n
    <2>4. TaskTypeOK'
      BY <2>1, <2>3 DEF TaskInv, TaskTypeOK
    <2>5. ASSUME NEW t \in Index, t # cpu'.task PROVE Slot(t)'
      BY <2>2, <2>3, <2>5 DEF TaskInv, Slot
    <2>6. cpu.at # "user"
      BY <1>6 DEF RestoreContext
    <2> QED
      BY <2>1, <2>3, <2>4, <2>5, <2>6 DEF TaskInv, Timer, Yields
  <1> QED
    BY <1>1, <1>2, <1>3, <1>4, <1>5, <1>6 DEF Syscall

\* The invariant holds in every behaviour with one way to switch.
THEOREM TaskInvariance == OneWay /\ TaskSpec => []TaskInv
  <1> SUFFICES ASSUME OneWay PROVE TaskSpec => []TaskInv
    OBVIOUS
  <1>1. TaskInv /\ UNCHANGED taskvars => TaskInv'
    BY DEF TaskInv, TaskTypeOK, taskvars, Slot, NextIndex, Timer, Yields
  <1>2. TaskInv /\ Expire => TaskInv'
    BY DEF TaskInv, TaskTypeOK, Expire, Slot, NextIndex, Timer, Yields
  <1>3. TaskInv /\ [TaskNext]_taskvars => TaskInv'
    BY <1>1, <1>2, ComputeInv, IsrInv, SyscallInv DEF TaskNext
  <1> QED
    BY <1>3, TaskInitInv, PTL DEF TaskSpec

\* The types, in particular of the indices _ctx_switch computes.
THEOREM TaskTypeCorrect == OneWay /\ TaskSpec => []TaskTypeOK
  <1>1. TaskInv => TaskTypeOK
    BY DEF TaskInv
  <1> QED
    BY <1>1, TaskInvariance, PTL

\* The code of a task runs only while _current_task_array names it.
THEOREM CurrentCorrect == OneWay /\ TaskSpec => []CurrentIsRunning
  <1>1. TaskInv => CurrentIsRunning
    BY DEF TaskInv, CurrentIsRunning
  <1> QED
    BY <1>1, TaskInvariance, PTL

\* No task's context is ever overwritten by that of another.
THEOREM ContextsCorrect == OneWay /\ TaskSpec => []ContextsAreOwn
  <1>1. TaskInv => ContextsAreOwn
    BY DEF TaskInv, ContextsAreOwn, Slot
  <1> QED
    BY <1>1, TaskInvariance, PTL

\* A computation is a step of the running task in the service.
LEMMA ComputeRuns == TaskInv /\ Compute => TimeSharing!Run
  <1> SUFFICES ASSUME TaskInv, Compute PROVE TimeSharing!Run
    OBVIOUS
  <1>1. /\ cpu \in Context /\ cpu.task \in Index /\ cpu'.task = cpu.task
        /\ cpu'.step = (cpu.step + 1) % Steps /\ ctx' = ctx
    BY DEF TaskInv, TaskTypeOK, Context, Compute
  <1>2. progress' = [progress EXCEPT ![cpu.task] = (@ + 1) % Steps]
    BY <1>1 DEF progress
  <1> QED
    BY <1>1, <1>2 DEF TimeSharing!Run

\* A step that loads the saved context of the next task is a switch of the
\* service when the slot of the task it leaves is up to date after the step.
LEMMA LoadSwitches ==
    ASSUME TaskInv, NEW n \in Index, n # cpu.task, n = NextIndex(cpu.task),
           cpu' = ctx[n], Slot(n),
           ctx'[cpu.task].step = cpu.step,
           \A t \in Index : t # cpu.task => ctx'[t] = ctx[t]
    PROVE  TimeSharing!Switch
  <1>1. cpu.task \in Index /\ cpu'.task = n /\ cpu'.step = ctx[n].step
    BY DEF TaskInv, TaskTypeOK, Context, Slot
  <1>2. progress' = progress
    BY <1>1 DEF progress
  <1>3. cpu'.task = (cpu.task + 1) % NTasks
    BY <1>1 DEF NextIndex
  <1> QED
    BY <1>2, <1>3 DEF TimeSharing!Switch

\* The interrupt is a switch, or changes nothing when there is one task.
LEMMA IsrSwitches ==
    OneWay /\ TaskInv /\ IsrSwitch => TimeSharing!Switch \/ UNCHANGED <<cpu.task, progress>>
  <1> SUFFICES ASSUME OneWay, TaskInv, IsrSwitch
               PROVE  TimeSharing!Switch \/ UNCHANGED <<cpu.task, progress>>
    OBVIOUS
  <1>1. cpu.at = "user" /\ current = cpu.task /\ cpu.task \in Index
    BY OneWayOnly DEF IsrSwitch, Acknowledge, TaskInv, TaskTypeOK, Context
  <1>2. CASE NTasks =< 1
    BY <1>2 DEF IsrSwitch, progress
  <1>3. CASE ~ (NTasks =< 1)
    <2> DEFINE n == NextIndex(cpu.task)
    <2>1. n \in Index /\ n # cpu.task /\ ctx \in [Index -> Context]
      BY <1>1, <1>3, NextIndexIsIndex, TaskAssumption DEF TaskInv, TaskTypeOK
    <2>2. ctx' = [ctx EXCEPT ![cpu.task] = cpu] /\ cpu' = ctx[n]
      BY <1>1, <1>3 DEF IsrSwitch
    <2>3. Slot(n)
      BY <2>1 DEF TaskInv
    <2>4. n = NextIndex(cpu.task)
      OBVIOUS
    <2> HIDE DEF n
    <2> QED
      BY <1>1, <2>1, <2>2, <2>3, <2>4, LoadSwitches
  <1> QED
    BY <1>2, <1>3

\* The system call switches where it restores; its other steps are hidden.
LEMMA SyscallSwitches ==
    TaskInv /\ Syscall => TimeSharing!Switch \/ UNCHANGED <<cpu.task, progress>>
  <1> SUFFICES ASSUME TaskInv, Syscall
               PROVE  TimeSharing!Switch \/ UNCHANGED <<cpu.task, progress>>
    OBVIOUS
  <1>1. CASE RestoreContext
    <2> DEFINE n == NextIndex(cpu.task)
    <2>1. cpu.curr = cpu.task /\ cpu.task \in Index /\ NTasks > 1
      BY <1>1 DEF RestoreContext, TaskInv, TaskTypeOK, Context
    <2>2. n \in Index /\ n # cpu.task
      BY <2>1, NextIndexIsIndex
    <2>3. cpu' = ctx[n] /\ ctx' = ctx
      BY <1>1, <2>1 DEF RestoreContext
    <2>4. Slot(n) /\ ctx[cpu.task].step = cpu.step
      BY <1>1, <2>2 DEF RestoreContext, TaskInv
    <2>5. n = NextIndex(cpu.task)
      OBVIOUS
    <2> HIDE DEF n
    <2> QED
      BY <2>2, <2>3, <2>4, <2>5, LoadSwitches
  <1>2. CASE SaveContext
    <2>1. /\ cpu'.task = cpu.task /\ cpu'.step = cpu.step /\ ctx \in [Index -> Context]
          /\ \A t \in Index : t # cpu.task => ctx'[t] = ctx[t]
      BY <1>2 DEF SaveContext, TaskGoto, TaskInv, TaskTypeOK, Context
    <2> QED
      BY <2>1 DEF progress
  <1>3. CASE CallCtxSwitch \/ TestNumber \/ LoadCurrent \/ StoreCurrent
    <2>1. cpu'.task = cpu.task /\ cpu'.step = cpu.step /\ ctx' = ctx
      BY Zenon, <1>3 DEF CallCtxSwitch, TestNumber, LoadCurrent, StoreCurrent, TaskGoto,
                  TaskInv, TaskTypeOK, Context
    <2> QED
      BY <2>1 DEF progress
  <1> QED
    BY <1>1, <1>2, <1>3 DEF Syscall

\* Time sharing implements the service: the tasks run in turn, and the state
\* in which a task resumes is the one it was left in.
THEOREM TaskRefinement == OneWay /\ TaskSpec => ImplementsTaskService
  <1> SUFFICES ASSUME OneWay PROVE TaskSpec => ImplementsTaskService
    OBVIOUS
  <1>1. TaskInit => TimeSharing!Init
    <2>1. 0 \in Index
      BY TaskAssumption DEF Index
    <2> QED
      BY <2>1 DEF TaskInit, Fresh, progress, Index, TimeSharing!Init
  <1>2. TaskInv /\ [TaskNext]_taskvars => [TimeSharing!Next]_TimeSharing!vars
    <2> SUFFICES ASSUME TaskInv, [TaskNext]_taskvars PROVE [TimeSharing!Next]_TimeSharing!vars
      OBVIOUS
    <2>1. CASE Expire \/ UNCHANGED taskvars
      BY <2>1 DEF Expire, taskvars, progress, TimeSharing!vars
    <2> QED
      BY <2>1, ComputeRuns, IsrSwitches, SyscallSwitches
         DEF TaskNext, TimeSharing!Next, TimeSharing!vars
  <1>3. TaskSpec => []TaskInv
    BY TaskInvariance
  <1> QED
    BY <1>1, <1>2, <1>3, PTL DEF TaskSpec, ImplementsTaskService, TimeSharing!Spec

-----------------------------------------------------------------------------
(* The DMA driver *)

\* _dma_busy is clear only when no task programs the DMA and it is idle; a
\* task that is about to set it has found it clear, and still would; one task
\* at a time programs the DMA.
BusyInv ==
    /\ busy = 0 => dev.state = "IDLE" /\ \A t \in Client : place[t] \notin Config
    /\ \A t, u \in Client : place[t] \in Config /\ place[u] \in Config => t = u
    /\ \A t \in Client : /\ place[t] = "set" => busy = 0
                         /\ place[t] \in Config => dev.state = "IDLE"
                         /\ place[t] = "dst" => dev.src = t
                         /\ place[t] = "len" => dev.src = t /\ dev.dst = t

\* A transfer that is not over is the one the DMA works on.
PendingInv == \A t \in Client :
    /\ place[t] \in {"user", "status"} => outcome[t] # "pending"
    /\ place[t] \in {"started", "poll"} /\ outcome[t] = "pending" =>
           busy = 1 /\ dev.state = "BUSY" /\ dev.len = t

\* They hold as long as two tasks have not taken the DMA together.
DmaInv == DmaTypeOK /\ TransferIsOneCall /\ (~ raced => BusyInv /\ PendingInv)

USE DmaAssumption DEF Places, Config, Tag

\* The initial state satisfies the invariant.
LEMMA DmaInitInv == DmaInit => DmaInv
  <1> SUFFICES ASSUME DmaInit PROVE DmaInv
    OBVIOUS
  <1>1. DmaTypeOK
    BY Zenon DEF DmaInit, DmaTypeOK
  <1>2. BusyInv /\ TransferIsOneCall /\ PendingInv
    BY DEF DmaInit, BusyInv, TransferIsOneCall, PendingInv
  <1> QED
    BY <1>1, <1>2 DEF DmaInv

\* Every step keeps the types.
LEMMA NextType == DmaTypeOK /\ [DmaNext]_dmavars => DmaTypeOK'
  <1> SUFFICES ASSUME DmaTypeOK, [DmaNext]_dmavars PROVE DmaTypeOK'
    OBVIOUS
  <1> USE DEF DmaTypeOK
  <1>1. ASSUME NEW t \in Client, Instruction(t) PROVE DmaTypeOK'
    <2>1. CASE WaitAvailable(t) \/ SetBusy(t) \/ PollBusy(t) \/ ReturnStatus(t)
      BY Zenon, <2>1 DEF WaitAvailable, SetBusy, PollBusy, ReturnStatus, Move
    <2>2. CASE EnableIrq(t)
      BY Zenon, <2>2 DEF EnableIrq, Move
    <2>3. CASE WriteRegister(t, "src", "dst")
      BY <2>3 DEF WriteRegister, Move
    <2>4. CASE WriteRegister(t, "dst", "len")
      BY <2>4 DEF WriteRegister, Move
    <2>5. CASE StartTransfer(t)
      BY Zenon, <2>5 DEF StartTransfer, Move
    <2> QED
      BY <1>1, <2>1, <2>2, <2>3, <2>4, <2>5 DEF Instruction
  <1>2. ASSUME NEW t \in Client, User(t) PROVE DmaTypeOK'
    BY <1>2 DEF User, FbCall, CallCompleted, Move
  <1>3. ASSUME NEW t \in Client, Switch(t) PROVE DmaTypeOK'
    BY <1>3 DEF Switch
  <1>4. CASE Device
    <2>1. PICK e \in {0, 1} : DeviceEnds(e)
      BY <1>4 DEF Device
    <2>2. UNCHANGED <<place, ret, cur, busy, status, raced>>
      BY <2>1 DEF DeviceEnds
    <2>3. dev' \in [src : Tag, dst : Tag, len : Tag, irq_disable : BOOLEAN,
                    state : {"IDLE", "BUSY", "ENDED"}, error : {0, 1}]
      BY Zenon, <2>1 DEF DeviceEnds
    <2>4. outcome' \in [Client -> {"none", "pending", "ok", "error"}]
      BY <2>1 DEF DeviceEnds
    <2> QED
      BY <2>2, <2>3, <2>4
  <1>5. CASE IsrDma
    BY Zenon, <1>5 DEF IsrDma
  <1>6. CASE UNCHANGED dmavars
    BY <1>6 DEF dmavars
  <1> QED
    BY <1>1, <1>2, <1>3, <1>4, <1>5, <1>6 DEF DmaNext, Spin

\* Nothing undoes that two tasks have taken the DMA together.
LEMMA RacedStays == [DmaNext]_dmavars /\ raced => raced'
  BY Zenon DEF DmaNext, Instruction, WaitAvailable, SetBusy, EnableIrq, WriteRegister,
     StartTransfer, PollBusy, ReturnStatus, Spin, User, FbCall, CallCompleted, Switch,
     Device, DeviceEnds, IsrDma, dmavars

\* Every step keeps the rest, wherever the tasks are preempted.
LEMMA NextInv == DmaInv /\ [DmaNext]_dmavars => DmaInv'
  <1> SUFFICES ASSUME DmaInv, [DmaNext]_dmavars, ~ raced, ~ raced'
               PROVE  BusyInv' /\ TransferIsOneCall' /\ PendingInv'
    BY NextType, RacedStays DEF DmaInv, TransferIsOneCall
  <1> USE DEF DmaInv, DmaTypeOK, BusyInv, TransferIsOneCall, PendingInv
  <1>1. ASSUME NEW t \in Client, Instruction(t)
        PROVE  BusyInv' /\ TransferIsOneCall' /\ PendingInv'
    <2>1. CASE WaitAvailable(t)
      BY <2>1 DEF WaitAvailable, Move
    <2>2. CASE SetBusy(t)
      <3>1. \A u \in Client : place[u] = "set" => u = t
        BY Zenon, <2>2 DEF SetBusy
      <3> QED
        BY <2>2, <3>1 DEF SetBusy, Move
    <2>3. CASE EnableIrq(t)
      BY <2>3 DEF EnableIrq, Move
    <2>4. CASE WriteRegister(t, "src", "dst")
      BY <2>4 DEF WriteRegister, Move
    <2>5. CASE WriteRegister(t, "dst", "len")
      BY <2>5 DEF WriteRegister, Move
    <2>6. CASE StartTransfer(t)
      BY <2>6 DEF StartTransfer, Move
    <2>7. CASE PollBusy(t)
      BY <2>7 DEF PollBusy, Move
    <2>8. CASE ReturnStatus(t)
      BY <2>8 DEF ReturnStatus, Move
    <2> QED
      BY Zenon, <1>1, <2>1, <2>2, <2>3, <2>4, <2>5, <2>6, <2>7, <2>8 DEF Instruction
  <1>2. ASSUME NEW t \in Client, User(t)
        PROVE  BusyInv' /\ TransferIsOneCall' /\ PendingInv'
    BY <1>2 DEF User, FbCall, CallCompleted, Move
  <1>3. ASSUME NEW t \in Client, Switch(t)
        PROVE  BusyInv' /\ TransferIsOneCall' /\ PendingInv'
    BY <1>3 DEF Switch
  <1>4. CASE Device
    BY <1>4 DEF Device, DeviceEnds
  <1>5. CASE IsrDma
    BY <1>5 DEF IsrDma
  <1>6. CASE UNCHANGED dmavars
    BY <1>6 DEF dmavars
  <1> QED
    BY Zenon, <1>1, <1>2, <1>3, <1>4, <1>5, <1>6 DEF DmaNext, Spin

\* The invariant holds wherever the timer preempts the tasks.
THEOREM DmaInvariance == DmaSpec => []DmaInv
  <1> QED
    BY NextInv, DmaInitInv, PTL DEF DmaSpec

\* Type correctness.
THEOREM DmaTypeCorrect == DmaSpec => []DmaTypeOK
  <1>1. DmaInit => DmaTypeOK
    BY DmaInitInv DEF DmaInv
  <1> QED
    BY <1>1, NextType, PTL DEF DmaSpec

\* The DMA works on the arguments of one call at a time until two tasks have
\* found _dma_busy clear before either has set it: wherever else the timer
\* switches tasks, calls are not mixed.
THEOREM OneCall == DmaSpec => []TransferIsOneCall
  <1>1. DmaInv => TransferIsOneCall
    BY DEF DmaInv
  <1> QED
    BY <1>1, DmaInvariance, PTL

\* _fb_completed returns after the transfer of its caller is over, under any
\* preemption that does not let two tasks take the DMA together.
THEOREM CompletedCorrect == DmaSpec => []CompletedMeansOver
  <1>1. DmaInv => CompletedMeansOver
    BY DEF DmaInv, PendingInv, CompletedMeansOver
  <1> QED
    BY <1>1, DmaInvariance, PTL

\* No step reprograms a working DMA, under the same preemptions.
THEOREM StableRegisters == DmaSpec => RegistersStable
  <1> DEFINE Stable == ~ raced /\ dev.state = "BUSY" => /\ dev'.src = dev.src
                                             /\ dev'.dst = dev.dst
                                             /\ dev'.len = dev.len
  <1>1. DmaInv /\ [DmaNext]_dmavars => [Stable]_dmavars
    <2> SUFFICES ASSUME DmaInv, [DmaNext]_dmavars, ~ raced, dev.state = "BUSY"
                 PROVE  dev'.src = dev.src /\ dev'.dst = dev.dst /\ dev'.len = dev.len
      OBVIOUS
    <2> USE DEF DmaInv, DmaTypeOK, BusyInv
    <2>1. ASSUME NEW t \in Client, Instruction(t)
          PROVE  dev'.src = dev.src /\ dev'.dst = dev.dst /\ dev'.len = dev.len
      BY <2>1 DEF Instruction, WaitAvailable, SetBusy, EnableIrq, WriteRegister,
                  StartTransfer, PollBusy, ReturnStatus, Move
    <2>2. ASSUME NEW t \in Client, User(t) \/ Switch(t)
          PROVE  dev'.src = dev.src /\ dev'.dst = dev.dst /\ dev'.len = dev.len
      BY <2>2 DEF User, FbCall, CallCompleted, Move, Switch
    <2>3. CASE Device
      <3>1. PICK e \in {0, 1} : dev' = [dev EXCEPT !.state = "ENDED", !.error = e]
        BY Zenon, <2>3 DEF Device, DeviceEnds
      <3> QED
        BY <3>1
    <2>4. ~ IsrDma
      BY DEF IsrDma
    <2> QED
      BY <2>1, <2>2, <2>3, <2>4 DEF DmaNext, Spin, dmavars
  <1> QED
    BY <1>1, DmaInvariance, PTL DEF DmaSpec, RegistersStable

----------------------------------------------------------------------------
\* The status of the last transfer started on its way to its caller.
Tells(e, t) == (outcome[t] = "ok" => e = 0) /\ (outcome[t] = "error" => e = 1)

StatusInv == ~ raced => \A t \in Client :
    /\ place[t] \in Config \cup {"wait", "set"} => outcome[t] = "pending"
    /\ dev.len = t => /\ dev.state = "ENDED" => Tells(dev.error, t)
                      /\ place[t] \in {"started", "poll", "status"} /\ dev.state = "IDLE" =>
                             Tells(status, t)
                      /\ place[t] = "user" => Tells(ret[t], t)

\* It is preserved by every step.
LEMMA NextStatus == DmaInv /\ StatusInv /\ [DmaNext]_dmavars => StatusInv'
  <1> SUFFICES ASSUME DmaInv, StatusInv, [DmaNext]_dmavars, ~ raced, ~ raced'
               PROVE  StatusInv'
    BY RacedStays DEF StatusInv
  <1> USE DEF DmaInv, DmaTypeOK, BusyInv, TransferIsOneCall, StatusInv, Tells
  <1>1. ASSUME NEW t \in Client, Instruction(t) PROVE StatusInv'
    <2>1. CASE WaitAvailable(t) \/ SetBusy(t) \/ PollBusy(t)
      BY <2>1 DEF WaitAvailable, SetBusy, PollBusy, Move
    <2>2. CASE EnableIrq(t)
      BY <2>2 DEF EnableIrq, Move
    <2>3. CASE WriteRegister(t, "src", "dst") \/ WriteRegister(t, "dst", "len")
      BY <2>3 DEF WriteRegister, Move
    <2>4. CASE StartTransfer(t)
      BY <2>4 DEF StartTransfer, Move
    <2>5. CASE ReturnStatus(t)
      BY <2>5 DEF ReturnStatus, Move
    <2> QED
      BY Zenon, <1>1, <2>1, <2>2, <2>3, <2>4, <2>5 DEF Instruction
  <1>2. ASSUME NEW t \in Client, User(t) PROVE StatusInv'
    BY <1>2 DEF User, FbCall, CallCompleted, Move
  <1>3. ASSUME NEW t \in Client, Switch(t) PROVE StatusInv'
    BY <1>3 DEF Switch
  <1>4. CASE Device
    <2>1. PICK e \in {0, 1} : DeviceEnds(e)
      BY <1>4 DEF Device
    <2>2. /\ dev.state = "BUSY" /\ dev'.state = "ENDED" /\ dev'.error = e
          /\ dev'.len = dev.len /\ UNCHANGED <<place, ret, cur, status>>
      BY <2>1 DEF DeviceEnds
    <2>3. \A t \in Client : t # dev.len => outcome'[t] = outcome[t]
      BY <2>1 DEF DeviceEnds
    <2>4. PICK t \in Client : place[t] \in {"started", "poll"} /\ dev.len = t
      BY <2>2
    <2>5. outcome'[t] = IF e = 0 THEN "ok" ELSE "error"
      BY <2>1, <2>4 DEF DeviceEnds
    <2> QED
      BY <2>2, <2>3, <2>4, <2>5
  <1>5. CASE IsrDma
    <2>1. /\ dev.state = "ENDED" /\ dev'.state = "IDLE" /\ status' = dev.error
          /\ dev'.len = dev.len /\ UNCHANGED <<place, ret, cur, outcome>>
      BY <1>5 DEF IsrDma
    <2> QED
      BY <2>1
  <1>6. CASE UNCHANGED dmavars
    BY <1>6 DEF dmavars
  <1> QED
    BY Zenon, <1>1, <1>2, <1>3, <1>4, <1>5, <1>6 DEF DmaNext, Spin

\* _fb_completed returns the result of the caller's own transfer when no
\* other task of the processor has started one since, under the same
\* preemptions.
THEOREM OwnResult == DmaSpec => []ResultIsOwn
  <1>1. DmaInit => StatusInv
    <2> SUFFICES ASSUME DmaInit PROVE StatusInv
      OBVIOUS
    <2>1. \A t \in Client : place[t] = "user" /\ dev.len # t
      BY DEF DmaInit
    <2> QED
      BY <2>1 DEF StatusInv
  <1>2. DmaInv /\ StatusInv /\ [DmaNext]_dmavars => StatusInv'
    BY NextStatus
  <1>3. StatusInv => ResultIsOwn
    BY DEF StatusInv, Tells, ResultIsOwn
  <1> QED
    BY <1>1, <1>2, <1>3, DmaInvariance, PTL DEF DmaSpec

=============================================================================

--------------------------- MODULE GietIocProofs ---------------------------
(***************************************************************************)
(* Proofs about the block device driver, for every set of tasks and of     *)
(* processors, every allocation of tasks and either cache configuration.   *)
(***************************************************************************)
EXTENDS GietIoc, TLAPS

\* A reservation that an sc may use was taken while the lock was free, and
\* any store to the lock breaks it.
LinkInv == \A t \in link : pc[t] = "sc" /\ lock = 0

\* The progress of the device, of the interrupt routine and of _ioc_done at
\* each point of the task that holds the lock.
Quiet == dev.state = "IDLE" /\ isr = "none"
Transferring == dev.state = "BUSY" /\ isr = "none" /\ done = 0
Ended == dev.state = "ENDED" /\ isr \in {"none", "status"} /\ done = 0
Saved == dev.state = "IDLE" /\ isr = "done" /\ done = 0
Signalled == Quiet /\ done = 1

PhaseInv ==
    /\ lock = 0 => Quiet /\ done = 0
    /\ \A t \in Task :
        /\ pc[t] \in Config \cup {"reset_lock"} => Quiet /\ done = 0
        /\ pc[t] \in Waiting => Transferring \/ Ended \/ Saved \/ Signalled
        /\ pc[t] \in {"test", "reset_done"} => Signalled

\* The registers written so far by the holder of the lock.
RegisterInv == \A t \in Task :
    /\ pc[t] \in {"count", "lba", "irq_enable", "op"} \cup Waiting => dev.buffer = t
    /\ pc[t] \in {"lba", "irq_enable", "op"} \cup Waiting => dev.count = t
    /\ pc[t] \in {"irq_enable", "op"} \cup Waiting => dev.lba = t
    /\ pc[t] \in Waiting => dev.op = op[t]

\* The outcome of a transfer travels from the device to _ioc_status and from
\* there to the value returned.
OutcomeInv == \A t \in Task :
    /\ pc[t] \in Waiting /\ dev.state # "BUSY" => outcome[t] \in StatusOf(op[t])
    /\ pc[t] \in Waiting /\ dev.state = "ENDED" => dev.status = outcome[t]
    /\ pc[t] \in Waiting /\ dev.state = "IDLE" => status = outcome[t]
    /\ pc[t] \in {"test", "reset_done", "reset_lock"} => outcome[t] \in StatusOf(op[t])
    /\ pc[t] = "test" => status = outcome[t]
    /\ pc[t] \in {"reset_done", "reset_lock"} =>
           ret[t] = IF outcome[t] \in Success THEN 0 ELSE 1

\* After the invalidation the buffer of a read stays out of the cache until
\* the device has filled it, unless the program loads it too early.
CacheInv == \A t \in Task :
    /\ cache[t] = "stale" => t \in early
    /\ NO_HARD_CC /\ op[t] = "READ" /\ pc[t] \in Config \ {"inval"} => cache[t] = "none"
    /\ NO_HARD_CC /\ op[t] = "READ" /\ pc[t] \in Waiting /\ dev.state = "BUSY"
           => cache[t] = "none" \/ t \in early

IInv ==
    /\ TypeOK
    /\ MutualExclusion
    /\ LinkInv
    /\ PhaseInv
    /\ RegisterInv
    /\ OutcomeInv
    /\ CacheInv
----------------------------------------------------------------------------
USE IocAssumption DEF Ops, Status, StatusOf, Success, Config, Waiting, Held, Pc,
                      Quiet, Transferring, Ended, Saved, Signalled

\* The invariant holds when the kernel has booted.
LEMMA InitInv == Init => IInv
<1> SUFFICES ASSUME Init PROVE IInv
    OBVIOUS
<1>1. TypeOK
    BY DEF Init, TypeOK
<1>2. MutualExclusion /\ LinkInv /\ PhaseInv /\ RegisterInv /\ OutcomeInv /\ CacheInv
    BY DEF Init, MutualExclusion, LinkInv, PhaseInv, RegisterInv, OutcomeInv, CacheInv
<1> QED
    BY <1>1, <1>2 DEF IInv

\* Taking the lock with LL/SC keeps the invariant.
LEMMA AcquireInv == ASSUME NEW t \in Task, IInv, Acquire(t) PROVE IInv'
<1> USE DEF IInv, Goto, Runs
<1>1. CASE LockLL(t)
  <2>1. TypeOK'
    BY <1>1 DEF LockLL, TypeOK
  <2>2. MutualExclusion' /\ LinkInv' /\ PhaseInv'
    BY <1>1 DEF LockLL, TypeOK, MutualExclusion, LinkInv, PhaseInv
  <2>3. RegisterInv'
    BY <1>1 DEF LockLL, TypeOK, MutualExclusion, PhaseInv, RegisterInv
  <2>4. OutcomeInv'
    BY <1>1 DEF LockLL, TypeOK, MutualExclusion, PhaseInv, RegisterInv, OutcomeInv
  <2>5. CacheInv'
    BY <1>1 DEF LockLL, TypeOK, MutualExclusion, RegisterInv, CacheInv
  <2> QED
    BY <2>1, <2>2, <2>3, <2>4, <2>5
<1>2. CASE LockSC(t)
  <2>1. TypeOK'
    BY <1>2 DEF LockSC, TypeOK
  <2>2. MutualExclusion' /\ LinkInv' /\ PhaseInv'
    BY <1>2 DEF LockSC, TypeOK, MutualExclusion, LinkInv, PhaseInv
  <2>3. RegisterInv'
    BY <1>2 DEF LockSC, TypeOK, MutualExclusion, PhaseInv, RegisterInv
  <2>4. OutcomeInv'
    BY <1>2 DEF LockSC, TypeOK, MutualExclusion, PhaseInv, RegisterInv, OutcomeInv
  <2>5. CacheInv'
    BY <1>2 DEF LockSC, TypeOK, MutualExclusion, RegisterInv, CacheInv
  <2> QED
    BY <2>1, <2>2, <2>3, <2>4, <2>5
<1> QED
    BY <1>1, <1>2 DEF Acquire

\* Every other instruction of a system call keeps the invariant.
LEMMA InstructionInv == ASSUME NEW t \in Task, IInv, Instruction(t) PROVE IInv'
<1> USE DEF IInv, Goto, Runs
<1>1. CASE LockSCFail(t)
  <2>1. TypeOK'
    BY <1>1 DEF LockSCFail, TypeOK
  <2>2. MutualExclusion' /\ LinkInv' /\ PhaseInv'
    BY <1>1 DEF LockSCFail, TypeOK, MutualExclusion, LinkInv, PhaseInv
  <2>3. RegisterInv'
    BY <1>1 DEF LockSCFail, TypeOK, MutualExclusion, PhaseInv, RegisterInv
  <2>4. OutcomeInv'
    BY <1>1 DEF LockSCFail, TypeOK, MutualExclusion, PhaseInv, RegisterInv, OutcomeInv
  <2>5. CacheInv'
    BY <1>1 DEF LockSCFail, TypeOK, MutualExclusion, RegisterInv, CacheInv
  <2> QED
    BY <2>1, <2>2, <2>3, <2>4, <2>5
<1>2. CASE Invalidate(t)
  <2>1. TypeOK'
    BY <1>2 DEF Invalidate, TypeOK
  <2>2. MutualExclusion' /\ LinkInv' /\ PhaseInv'
    BY <1>2 DEF Invalidate, TypeOK, MutualExclusion, LinkInv, PhaseInv
  <2>3. RegisterInv'
    BY <1>2 DEF Invalidate, TypeOK, MutualExclusion, PhaseInv, RegisterInv
  <2>4. OutcomeInv'
    BY <1>2 DEF Invalidate, TypeOK, MutualExclusion, PhaseInv, RegisterInv, OutcomeInv
  <2>5. CacheInv'
    BY <1>2 DEF Invalidate, TypeOK, MutualExclusion, RegisterInv, CacheInv
  <2> QED
    BY <2>1, <2>2, <2>3, <2>4, <2>5
<1>3. CASE WriteRegister(t, "buffer", "count")
  <2>1. TypeOK'
    BY <1>3 DEF WriteRegister, TypeOK
  <2>2. MutualExclusion' /\ LinkInv' /\ PhaseInv'
    BY <1>3 DEF WriteRegister, TypeOK, MutualExclusion, LinkInv, PhaseInv
  <2>3. RegisterInv'
    BY <1>3 DEF WriteRegister, TypeOK, MutualExclusion, PhaseInv, RegisterInv
  <2>4. OutcomeInv'
    BY <1>3 DEF WriteRegister, TypeOK, MutualExclusion, PhaseInv, RegisterInv, OutcomeInv
  <2>5. CacheInv'
    BY <1>3 DEF WriteRegister, TypeOK, MutualExclusion, RegisterInv, CacheInv
  <2> QED
    BY <2>1, <2>2, <2>3, <2>4, <2>5
<1>4. CASE WriteRegister(t, "count", "lba")
  <2>1. TypeOK'
    BY <1>4 DEF WriteRegister, TypeOK
  <2>2. MutualExclusion' /\ LinkInv' /\ PhaseInv'
    BY <1>4 DEF WriteRegister, TypeOK, MutualExclusion, LinkInv, PhaseInv
  <2>3. RegisterInv'
    BY <1>4 DEF WriteRegister, TypeOK, MutualExclusion, PhaseInv, RegisterInv
  <2>4. OutcomeInv'
    BY <1>4 DEF WriteRegister, TypeOK, MutualExclusion, PhaseInv, RegisterInv, OutcomeInv
  <2>5. CacheInv'
    BY <1>4 DEF WriteRegister, TypeOK, MutualExclusion, RegisterInv, CacheInv
  <2> QED
    BY <2>1, <2>2, <2>3, <2>4, <2>5
<1>5. CASE WriteRegister(t, "lba", "irq_enable")
  <2>1. TypeOK'
    BY <1>5 DEF WriteRegister, TypeOK
  <2>2. MutualExclusion' /\ LinkInv' /\ PhaseInv'
    BY <1>5 DEF WriteRegister, TypeOK, MutualExclusion, LinkInv, PhaseInv
  <2>3. RegisterInv'
    BY <1>5 DEF WriteRegister, TypeOK, MutualExclusion, PhaseInv, RegisterInv
  <2>4. OutcomeInv'
    BY <1>5 DEF WriteRegister, TypeOK, MutualExclusion, PhaseInv, RegisterInv, OutcomeInv
  <2>5. CacheInv'
    BY <1>5 DEF WriteRegister, TypeOK, MutualExclusion, RegisterInv, CacheInv
  <2> QED
    BY <2>1, <2>2, <2>3, <2>4, <2>5
<1>6. CASE EnableIrq(t)
  <2>1. TypeOK'
    BY Zenon, <1>6 DEF EnableIrq, TypeOK
  <2>2. MutualExclusion' /\ LinkInv' /\ PhaseInv'
    BY <1>6 DEF EnableIrq, TypeOK, MutualExclusion, LinkInv, PhaseInv
  <2>3. RegisterInv'
    BY <1>6 DEF EnableIrq, TypeOK, MutualExclusion, PhaseInv, RegisterInv
  <2>4. OutcomeInv'
    BY <1>6 DEF EnableIrq, TypeOK, MutualExclusion, PhaseInv, RegisterInv, OutcomeInv
  <2>5. CacheInv'
    BY <1>6 DEF EnableIrq, TypeOK, MutualExclusion, RegisterInv, CacheInv
  <2> QED
    BY <2>1, <2>2, <2>3, <2>4, <2>5
<1>7. CASE StartTransfer(t)
  <2>1. TypeOK'
    BY Zenon, <1>7 DEF StartTransfer, TypeOK
  <2>2. MutualExclusion' /\ LinkInv' /\ PhaseInv'
    BY <1>7 DEF StartTransfer, TypeOK, MutualExclusion, LinkInv, PhaseInv
  <2>3. RegisterInv'
    BY <1>7 DEF StartTransfer, TypeOK, MutualExclusion, PhaseInv, RegisterInv
  <2>4. OutcomeInv'
    BY <1>7 DEF StartTransfer, TypeOK, MutualExclusion, PhaseInv, RegisterInv, OutcomeInv
  <2>5. CacheInv'
    BY <1>7 DEF StartTransfer, TypeOK, MutualExclusion, RegisterInv, CacheInv
  <2> QED
    BY <2>1, <2>2, <2>3, <2>4, <2>5
<1>8. CASE PollDone(t)
  <2>1. TypeOK'
    BY <1>8 DEF PollDone, TypeOK
  <2>2. MutualExclusion' /\ LinkInv' /\ PhaseInv'
    BY <1>8 DEF PollDone, TypeOK, MutualExclusion, LinkInv, PhaseInv
  <2>3. RegisterInv'
    BY <1>8 DEF PollDone, TypeOK, MutualExclusion, PhaseInv, RegisterInv
  <2>4. OutcomeInv'
    BY <1>8 DEF PollDone, TypeOK, MutualExclusion, PhaseInv, RegisterInv, OutcomeInv
  <2>5. CacheInv'
    BY <1>8 DEF PollDone, TypeOK, MutualExclusion, RegisterInv, CacheInv
  <2> QED
    BY <2>1, <2>2, <2>3, <2>4, <2>5
<1>9. CASE TestStatus(t)
  <2>1. TypeOK'
    BY <1>9 DEF TestStatus, TypeOK
  <2>2. MutualExclusion' /\ LinkInv' /\ PhaseInv'
    BY <1>9 DEF TestStatus, TypeOK, MutualExclusion, LinkInv, PhaseInv
  <2>3. RegisterInv'
    BY <1>9 DEF TestStatus, TypeOK, MutualExclusion, PhaseInv, RegisterInv
  <2>4. OutcomeInv'
    BY <1>9 DEF TestStatus, TypeOK, MutualExclusion, PhaseInv, RegisterInv, OutcomeInv
  <2>5. CacheInv'
    BY <1>9 DEF TestStatus, TypeOK, MutualExclusion, RegisterInv, CacheInv
  <2> QED
    BY <2>1, <2>2, <2>3, <2>4, <2>5
<1>10. CASE ResetDone(t)
  <2>1. TypeOK'
    BY <1>10 DEF ResetDone, TypeOK
  <2>2. MutualExclusion' /\ LinkInv' /\ PhaseInv'
    BY <1>10 DEF ResetDone, TypeOK, MutualExclusion, LinkInv, PhaseInv
  <2>3. RegisterInv'
    BY <1>10 DEF ResetDone, TypeOK, MutualExclusion, PhaseInv, RegisterInv
  <2>4. OutcomeInv'
    BY <1>10 DEF ResetDone, TypeOK, MutualExclusion, PhaseInv, RegisterInv, OutcomeInv
  <2>5. CacheInv'
    BY <1>10 DEF ResetDone, TypeOK, MutualExclusion, RegisterInv, CacheInv
  <2> QED
    BY <2>1, <2>2, <2>3, <2>4, <2>5
<1>11. CASE ResetLock(t)
  <2>1. TypeOK'
    BY <1>11 DEF ResetLock, TypeOK
  <2>2. MutualExclusion' /\ LinkInv' /\ PhaseInv'
    BY <1>11 DEF ResetLock, TypeOK, MutualExclusion, LinkInv, PhaseInv
  <2>3. RegisterInv'
    BY <1>11 DEF ResetLock, TypeOK, MutualExclusion, PhaseInv, RegisterInv
  <2>4. OutcomeInv'
    BY <1>11 DEF ResetLock, TypeOK, MutualExclusion, PhaseInv, RegisterInv, OutcomeInv
  <2>5. CacheInv'
    BY <1>11 DEF ResetLock, TypeOK, MutualExclusion, RegisterInv, CacheInv
  <2> QED
    BY <2>1, <2>2, <2>3, <2>4, <2>5
<1> QED
    BY <1>1, <1>2, <1>3, <1>4, <1>5, <1>6, <1>7, <1>8, <1>9, <1>10, <1>11 DEF Instruction

\* User code, the scheduler, the device and the interrupt routine keep it.
LEMMA EnvironmentInv == ASSUME IInv, (\E t \in Task : User(t) \/ Switch(t)) \/ Device \/ Isr PROVE IInv'
<1> USE DEF IInv, Goto, Runs
<1>1. CASE \E t \in Task : UserAccess(t)
  <2>1. TypeOK'
    BY <1>1 DEF UserAccess, TypeOK
  <2>2. MutualExclusion' /\ LinkInv' /\ PhaseInv'
    BY <1>1 DEF UserAccess, TypeOK, MutualExclusion, LinkInv, PhaseInv
  <2>3. RegisterInv'
    BY <1>1 DEF UserAccess, TypeOK, MutualExclusion, PhaseInv, RegisterInv
  <2>4. OutcomeInv'
    BY <1>1 DEF UserAccess, TypeOK, MutualExclusion, PhaseInv, RegisterInv, OutcomeInv
  <2>5. CacheInv'
    BY <1>1 DEF UserAccess, TypeOK, MutualExclusion, RegisterInv, CacheInv
  <2> QED
    BY <2>1, <2>2, <2>3, <2>4, <2>5
<1>2. CASE \E t \in Task, o \in Ops : IocCall(t, o)
  <2>1. TypeOK'
    BY <1>2 DEF IocCall, TypeOK
  <2>2. MutualExclusion' /\ LinkInv' /\ PhaseInv'
    BY <1>2 DEF IocCall, TypeOK, MutualExclusion, LinkInv, PhaseInv
  <2>3. RegisterInv'
    BY <1>2 DEF IocCall, TypeOK, MutualExclusion, PhaseInv, RegisterInv
  <2>4. OutcomeInv'
    BY <1>2 DEF IocCall, TypeOK, MutualExclusion, PhaseInv, RegisterInv, OutcomeInv
  <2>5. CacheInv'
    BY <1>2 DEF IocCall, TypeOK, MutualExclusion, RegisterInv, CacheInv
  <2> QED
    BY <2>1, <2>2, <2>3, <2>4, <2>5
<1>3. CASE \E t \in Task : Switch(t)
  <2>1. TypeOK'
    BY <1>3 DEF Switch, TypeOK
  <2>2. MutualExclusion' /\ LinkInv' /\ PhaseInv'
    BY <1>3 DEF Switch, TypeOK, MutualExclusion, LinkInv, PhaseInv
  <2>3. RegisterInv'
    BY <1>3 DEF Switch, TypeOK, MutualExclusion, PhaseInv, RegisterInv
  <2>4. OutcomeInv'
    BY <1>3 DEF Switch, TypeOK, MutualExclusion, PhaseInv, RegisterInv, OutcomeInv
  <2>5. CacheInv'
    BY <1>3 DEF Switch, TypeOK, MutualExclusion, RegisterInv, CacheInv
  <2> QED
    BY <2>1, <2>2, <2>3, <2>4, <2>5
<1>4. CASE \E s \in Status : DeviceEnds(s)
  <2> PICK s \in Status : DeviceEnds(s)
    BY <1>4
  <2>0. PICK u \in Task : pc[u] \in Waiting /\ dev.buffer = u /\ dev.op = op[u]
    BY DEF DeviceEnds, TypeOK, MutualExclusion, PhaseInv, RegisterInv
  <2>1. TypeOK'
    <3>1. dev' \in [buffer : Task \cup {NoTask}, count : Task \cup {NoTask},
                    lba : Task \cup {NoTask}, irq_enable : BOOLEAN, op : Ops,
                    state : {"IDLE", "BUSY", "ENDED"}, status : Status]
      BY Zenon DEF DeviceEnds, TypeOK
    <3>2. outcome' \in [Task -> Status]
      BY DEF DeviceEnds, TypeOK
    <3>3. cache' \in [Task -> {"none", "fresh", "stale"}]
      BY DEF DeviceEnds, TypeOK
    <3> QED
      BY <3>1, <3>2, <3>3 DEF DeviceEnds, TypeOK
  <2>2. MutualExclusion' /\ LinkInv' /\ PhaseInv'
    BY DEF DeviceEnds, TypeOK, MutualExclusion, LinkInv, PhaseInv
  <2>3. RegisterInv'
    BY DEF DeviceEnds, TypeOK, MutualExclusion, PhaseInv, RegisterInv
  <2>4. OutcomeInv'
    BY <2>0 DEF DeviceEnds, TypeOK, MutualExclusion, PhaseInv, RegisterInv, OutcomeInv
  <2>5. CacheInv'
    <3>1. NO_HARD_CC /\ dev.op = "READ" => cache[u] = "none" \/ u \in early
      BY Zenon, <2>0 DEF CacheInv, DeviceEnds
    <3> QED
      BY <2>0, <3>1 DEF DeviceEnds, TypeOK, CacheInv
  <2> QED
    BY <2>1, <2>2, <2>3, <2>4, <2>5
<1>5. CASE IsrEnter
  <2>1. TypeOK'
    BY <1>5 DEF IsrEnter, TypeOK
  <2>2. MutualExclusion' /\ LinkInv' /\ PhaseInv'
    BY <1>5 DEF IsrEnter, TypeOK, MutualExclusion, LinkInv, PhaseInv
  <2>3. RegisterInv'
    BY <1>5 DEF IsrEnter, TypeOK, MutualExclusion, PhaseInv, RegisterInv
  <2>4. OutcomeInv'
    BY <1>5 DEF IsrEnter, TypeOK, MutualExclusion, PhaseInv, RegisterInv, OutcomeInv
  <2>5. CacheInv'
    BY <1>5 DEF IsrEnter, TypeOK, MutualExclusion, RegisterInv, CacheInv
  <2> QED
    BY <2>1, <2>2, <2>3, <2>4, <2>5
<1>6. CASE IsrStatus
  <2>1. TypeOK'
    BY <1>6 DEF IsrStatus, TypeOK
  <2>2. MutualExclusion' /\ LinkInv' /\ PhaseInv'
    BY <1>6 DEF IsrStatus, TypeOK, MutualExclusion, LinkInv, PhaseInv
  <2>3. RegisterInv'
    BY <1>6 DEF IsrStatus, TypeOK, MutualExclusion, PhaseInv, RegisterInv
  <2>4. OutcomeInv'
    BY <1>6 DEF IsrStatus, TypeOK, MutualExclusion, PhaseInv, RegisterInv, OutcomeInv
  <2>5. CacheInv'
    BY <1>6 DEF IsrStatus, TypeOK, MutualExclusion, RegisterInv, CacheInv
  <2> QED
    BY <2>1, <2>2, <2>3, <2>4, <2>5
<1>7. CASE IsrDone
  <2>1. TypeOK'
    BY <1>7 DEF IsrDone, TypeOK
  <2>2. MutualExclusion' /\ LinkInv' /\ PhaseInv'
    BY <1>7 DEF IsrDone, TypeOK, MutualExclusion, LinkInv, PhaseInv
  <2>3. RegisterInv'
    BY <1>7 DEF IsrDone, TypeOK, MutualExclusion, PhaseInv, RegisterInv
  <2>4. OutcomeInv'
    BY <1>7 DEF IsrDone, TypeOK, MutualExclusion, PhaseInv, RegisterInv, OutcomeInv
  <2>5. CacheInv'
    BY <1>7 DEF IsrDone, TypeOK, MutualExclusion, RegisterInv, CacheInv
  <2> QED
    BY <2>1, <2>2, <2>3, <2>4, <2>5
<1>8. CASE \E t \in Task : CallCompleted(t)
  <2>1. TypeOK'
    BY <1>8 DEF CallCompleted, TypeOK
  <2>2. MutualExclusion' /\ LinkInv' /\ PhaseInv'
    BY <1>8 DEF CallCompleted, TypeOK, MutualExclusion, LinkInv, PhaseInv
  <2>3. RegisterInv'
    BY <1>8 DEF CallCompleted, TypeOK, MutualExclusion, PhaseInv, RegisterInv
  <2>4. OutcomeInv'
    BY <1>8 DEF CallCompleted, TypeOK, MutualExclusion, PhaseInv, RegisterInv, OutcomeInv
  <2>5. CacheInv'
    BY <1>8 DEF CallCompleted, TypeOK, MutualExclusion, RegisterInv, CacheInv
  <2> QED
    BY <2>1, <2>2, <2>3, <2>4, <2>5
<1> QED
    BY <1>1, <1>2, <1>3, <1>4, <1>5, <1>6, <1>7, <1>8 DEF User, Device, Isr

\* One step of the system keeps the invariant.
LEMMA StepInv == IInv /\ [Next]_vars => IInv'
<1> SUFFICES ASSUME IInv, [Next]_vars PROVE IInv'
    OBVIOUS
<1>1. CASE \E t \in Task : Acquire(t)
    BY <1>1, AcquireInv
<1>2. CASE \E t \in Task : Instruction(t)
    BY <1>2, InstructionInv
<1>3. CASE (\E t \in Task : User(t) \/ Switch(t)) \/ Device \/ Isr
    BY <1>3, EnvironmentInv
<1>4. CASE UNCHANGED vars
    BY <1>4 DEF vars, IInv, TypeOK, MutualExclusion, LinkInv, PhaseInv,
                RegisterInv, OutcomeInv, CacheInv
<1> QED
    BY <1>1, <1>2, <1>3, <1>4 DEF Next

\* The invariant the other theorems rest on.
THEOREM Invariance == Spec => []IInv
<1> QED
    BY InitInv, StepInv, PTL DEF Spec
----------------------------------------------------------------------------
\* Two tasks never hold the block device at once, whatever the number of
\* tasks and processors: _ioc_get_lock and _ioc_completed are a sound lock.
THEOREM Exclusion == Spec => []MutualExclusion
<1> QED
    BY Invariance, PTL DEF IInv

\* All variables keep their types.
THEOREM TypeCorrect == Spec => []TypeOK
<1> QED
    BY Invariance, PTL DEF IInv

\* The device only works on the arguments of one call of _ioc_read or
\* _ioc_write, made by a task that still waits for the result.
THEOREM OneCall == Spec => []TransferIsOneCall
<1>1. IInv => TransferIsOneCall
  <2> SUFFICES ASSUME IInv, dev.state # "IDLE"
               PROVE  \E t \in Task : /\ pc[t] \in Waiting
                                      /\ dev.buffer = t /\ dev.count = t /\ dev.lba = t
                                      /\ dev.op = op[t]
    BY DEF TransferIsOneCall
  <2>1. PICK t \in Task : pc[t] \in Held
    BY DEF IInv, TypeOK, MutualExclusion, PhaseInv
  <2>2. pc[t] \in Waiting
    BY <2>1 DEF IInv, PhaseInv
  <2> QED
    BY <2>2 DEF IInv, RegisterInv
<1> QED
    BY <1>1, Invariance, PTL

\* _ioc_completed reports the caller's own transfer, after it has ended.
THEOREM OwnResult == Spec => []ResultIsOwn
<1>1. IInv => ResultIsOwn
    BY DEF IInv, OutcomeInv, ResultIsOwn
<1> QED
    BY <1>1, Invariance, PTL

\* The invalidation of _ioc_read answers for every copy but one: a stale copy
\* was loaded by the caller itself, while the device was filling the buffer.
THEOREM FreshCopies == Spec => []NoStaleCopy
<1>1. IInv => NoStaleCopy
    BY Zenon DEF IInv, CacheInv, NoStaleCopy
<1> QED
    BY <1>1, Invariance, PTL

\* No step of any task reprograms a device that is working.
THEOREM StableRegisters == Spec => RegistersStable
<1>1. IInv /\ [Next]_vars =>
        [dev.state = "BUSY" =>
           /\ dev'.buffer = dev.buffer /\ dev'.count = dev.count
           /\ dev'.lba = dev.lba /\ dev'.op = dev.op]_vars
  <2> SUFFICES ASSUME IInv, Next, dev.state = "BUSY"
               PROVE  /\ dev'.buffer = dev.buffer /\ dev'.count = dev.count
                      /\ dev'.lba = dev.lba /\ dev'.op = dev.op
    OBVIOUS
  <2>1. \A t \in Task : pc[t] \notin Config
    BY Zenon DEF IInv, PhaseInv
  <2>2. ASSUME NEW t \in Task, Acquire(t) \/ Instruction(t) \/ User(t) \/ Switch(t)
        PROVE  dev' = dev
    BY <2>1, <2>2 DEF Acquire, LockLL, LockSC, Instruction, LockSCFail, Invalidate,
          WriteRegister, EnableIrq, StartTransfer, CallCompleted, PollDone, TestStatus,
          ResetDone, ResetLock, User, UserAccess, IocCall, Switch, Goto
  <2>3. CASE Device
    BY <2>3 DEF Device, DeviceEnds, IInv, TypeOK
  <2>4. CASE Isr
    BY <2>4 DEF Isr, IsrEnter, IsrStatus, IsrDone, IInv, TypeOK
  <2> QED
    BY <2>2, <2>3, <2>4 DEF Next
<1> QED
    BY <1>1, Invariance, PTL DEF Spec, RegistersStable
----------------------------------------------------------------------------
(* The refinement.  PhaseFacts gives the abstract state as a function of   *)
(* the one task that holds the lock.                                       *)

Holders == {t \in Task : pc[t] \in Held}

PhaseAt(t) ==
    IF pc[t] \in Config THEN "none"
    ELSE IF pc[t] \in {"reset_done", "reset_lock"} THEN "reported"
    ELSE IF dev.state = "BUSY" THEN "running" ELSE "ended"

PhaseFacts ==
    /\ Holders = {} => Phase = "none"
    /\ \A t \in Task : pc[t] \in Held => Holders = {t} /\ Phase = PhaseAt(t)

\* The abstract state is that of the holder of the lock.
LEMMA PhaseLemma == IInv => PhaseFacts
<1> SUFFICES ASSUME IInv PROVE PhaseFacts
    OBVIOUS
<1>1. ASSUME Holders = {} PROVE Phase = "none"
    BY <1>1 DEF Holders, Phase, IInv, TypeOK, MutualExclusion, PhaseInv
<1>2. ASSUME NEW t \in Task, pc[t] \in Held
      PROVE  Holders = {t} /\ Phase = PhaseAt(t)
  <2>1. \A u \in Task : pc[u] \in Held => u = t
    BY <1>2 DEF IInv, MutualExclusion
  <2>2. Holders = {t}
    BY <1>2, <2>1 DEF Holders
  <2>3. Phase = PhaseAt(t)
    BY <1>2, <2>1 DEF Phase, PhaseAt, IInv, PhaseInv
  <2> QED
    BY <2>2, <2>3
<1> QED
    BY <1>1, <1>2 DEF PhaseFacts

\* A step of a task that neither takes nor releases the lock, and does not
\* move its transfer to another phase, is invisible to the service.
LEMMA StutterStep ==
    ASSUME Holders' = Holders, Phase' = Phase, ret' = ret, outcome' = outcome
    PROVE  UNCHANGED Service!vars
    BY DEF Service!vars, Holders

\* The instructions of a task map to steps of the service.
LEMMA TaskRefines ==
    ASSUME NEW t \in Task, IInv, PhaseFacts, PhaseFacts',
           Acquire(t) \/ Instruction(t)
    PROVE  [Service!Next]_(Service!vars)
<1> USE DEF Goto
<1>1. CASE LockSC(t)
  <2>1. Holders = {} /\ Holders' = {t}
    BY <1>1 DEF LockSC, IInv, TypeOK, LinkInv, MutualExclusion, Holders
  <2>2. Phase = "none" /\ Phase' = "none"
    BY <1>1, <2>1 DEF LockSC, IInv, TypeOK, PhaseFacts, PhaseAt
  <2> QED
    BY <1>1, <2>1, <2>2 DEF LockSC, Service!Next, Service!Acquire, Holders
<1>2. CASE StartTransfer(t)
  <2>1. Holders = {t} /\ Holders' = {t} /\ Phase = "none" /\ Phase' = "running"
    BY <1>2 DEF StartTransfer, IInv, TypeOK, PhaseFacts, PhaseAt
  <2> QED
    BY Zenon, <1>2, <2>1 DEF StartTransfer, Service!Next, Service!Start, Holders
<1>3. CASE TestStatus(t)
  <2>1. Holders = {t} /\ Holders' = {t}
    BY <1>3 DEF TestStatus, IInv, TypeOK, PhaseFacts
  <2>2. Phase = "ended" /\ Phase' = "reported"
    BY <1>3 DEF TestStatus, IInv, TypeOK, PhaseInv, PhaseFacts, PhaseAt
  <2>3. ret' = [ret EXCEPT ![t] = IF outcome[t] \in Success THEN 0 ELSE 1]
    BY Zenon, <1>3 DEF TestStatus, IInv, OutcomeInv
  <2> QED
    BY Zenon, <1>3, <2>1, <2>2, <2>3 DEF TestStatus, Service!Next, Service!Report, Holders
<1>4. CASE ResetLock(t)
  <2>1. Holders = {t} /\ Holders' = {} /\ Phase = "reported" /\ Phase' = "none"
    BY <1>4 DEF ResetLock, IInv, TypeOK, PhaseFacts, PhaseAt, Holders
  <2> QED
    BY Zenon, <1>4, <2>1 DEF ResetLock, Service!Next, Service!Release, Holders
<1>5. CASE LockLL(t) \/ LockSCFail(t)
  <2>1. Holders' = Holders
    BY <1>5 DEF LockLL, LockSCFail, IInv, TypeOK, Holders
  <2>2. Phase' = Phase
    BY <1>5 DEF LockLL, LockSCFail, IInv, TypeOK, Phase
  <2> QED
    BY <1>5, <2>1, <2>2, StutterStep DEF LockLL, LockSCFail
<1>6. CASE \/ Invalidate(t) \/ EnableIrq(t) \/ PollDone(t) \/ ResetDone(t)
           \/ WriteRegister(t, "buffer", "count")
           \/ WriteRegister(t, "count", "lba")
           \/ WriteRegister(t, "lba", "irq_enable")
  <2> USE DEF Invalidate, EnableIrq, PollDone, ResetDone, WriteRegister
  <2>1. Holders' = {t} /\ Holders = {t} /\ Phase = PhaseAt(t) /\ Phase' = PhaseAt(t)'
    BY <1>6 DEF IInv, TypeOK, PhaseFacts
  <2>2. PhaseAt(t)' = PhaseAt(t)
    BY <1>6 DEF IInv, TypeOK, PhaseInv, PhaseAt
  <2> QED
    BY <1>6, <2>1, <2>2, StutterStep
<1> QED
    BY <1>1, <1>2, <1>3, <1>4, <1>5, <1>6 DEF Acquire, Instruction

\* User code, the scheduler, the device and the interrupt routine map to
\* steps of the service: only the end of the transfer is visible.
LEMMA EnvironmentRefines ==
    ASSUME IInv, PhaseFacts, PhaseFacts',
           (\E t \in Task : User(t) \/ Switch(t)) \/ Device \/ Isr
    PROVE  [Service!Next]_(Service!vars)
<1>1. CASE \E t \in Task : User(t) \/ Switch(t)
  <2>1. Holders' = Holders /\ Phase' = Phase
    BY <1>1 DEF User, UserAccess, IocCall, CallCompleted, Switch, Goto, IInv, TypeOK,
                Holders, Phase
  <2> QED
    BY <1>1, <2>1, StutterStep DEF User, UserAccess, IocCall, CallCompleted, Switch
<1>2. CASE Device
  <2>1. PICK s \in Status : DeviceEnds(s)
    BY <1>2 DEF Device
  <2>2. PICK u \in Task : pc[u] \in Waiting /\ dev.buffer = u
    BY <2>1 DEF DeviceEnds, IInv, TypeOK, MutualExclusion, PhaseInv, RegisterInv
  <2>3. Holders = {u} /\ Holders' = {u} /\ Phase = "running" /\ Phase' = "ended"
    BY <2>1, <2>2 DEF DeviceEnds, IInv, TypeOK, PhaseFacts, PhaseAt
  <2>4. outcome' = [outcome EXCEPT ![u] = s]
    BY Zenon, <2>1, <2>2 DEF DeviceEnds, IInv, TypeOK
  <2>5. Service!End(u)
    BY Zenon, <2>1, <2>3, <2>4 DEF DeviceEnds, Service!End, Holders
  <2> QED
    BY <2>5 DEF Service!Next
<1>3. CASE Isr
  <2>1. Holders' = Holders /\ (dev'.state = "BUSY" <=> dev.state = "BUSY")
    BY <1>3 DEF Isr, IsrEnter, IsrStatus, IsrDone, IInv, TypeOK, MutualExclusion,
                PhaseInv, Holders
  <2>2. Phase' = Phase
    BY <1>3, <2>1 DEF Isr, IsrEnter, IsrStatus, IsrDone, Phase
  <2> QED
    BY <1>3, <2>1, <2>2, StutterStep DEF Isr, IsrEnter, IsrStatus, IsrDone
<1> QED
    BY <1>1, <1>2, <1>3

\* The driver implements the abstract service of IocService.
THEOREM Refinement == Spec => ImplementsService
<1>1. Init => Service!Init
    BY DEF Init, Service!Init, Phase
<1>2. IInv /\ PhaseFacts /\ PhaseFacts' /\ [Next]_vars => [Service!Next]_(Service!vars)
  <2> SUFFICES ASSUME IInv, PhaseFacts, PhaseFacts', [Next]_vars
               PROVE  [Service!Next]_(Service!vars)
    OBVIOUS
  <2>1. CASE \E t \in Task : Acquire(t) \/ Instruction(t)
    BY <2>1, TaskRefines
  <2>2. CASE (\E t \in Task : User(t) \/ Switch(t)) \/ Device \/ Isr
    BY <2>2, EnvironmentRefines
  <2>3. CASE UNCHANGED vars
    BY <2>3 DEF vars, Service!vars, Phase
  <2> QED
    BY <2>1, <2>2, <2>3 DEF Next
<1> QED
    BY <1>1, <1>2, Invariance, PhaseLemma, PTL DEF Spec, Service!Spec, ImplementsService
=============================================================================

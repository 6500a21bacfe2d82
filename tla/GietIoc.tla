------------------------------ MODULE GietIoc ------------------------------
(***************************************************************************)
(* The block device (IOC) driver of the GIET kernel: the system calls      *)
(* _ioc_read, _ioc_write and _ioc_completed of giet_2011/sys/drivers.c,    *)
(* the interrupt routine _isr_ioc of irq_handler.c, and what they share:   *)
(* _ioc_lock, _ioc_done, _ioc_status and the registers of the device.      *)
(*                                                                         *)
(* Tasks are statically allocated to processors and time-share them.  One  *)
(* step is one access to a shared variable or to a device register; a      *)
(* polling loop is a step whose guard is the exit condition of the loop.   *)
(* System calls run with interrupts enabled (giet.s:70-73), so the timer   *)
(* and the device may interrupt them anywhere; an interrupt routine is not *)
(* interruptible, but runs beside the tasks of the other processors.       *)
(***************************************************************************)
EXTENDS Naturals

CONSTANTS
    Task,        \* tasks that use the block device
    Proc,        \* processors
    ProcOf,      \* the processor each task is allocated to
    IocProc,     \* the processor the IRQ of the block device is routed to
    NoTask,      \* tag of a device register nobody has written
    NO_HARD_CC   \* no hardware cache coherence (config.h)

ASSUME IocAssumption ==
    /\ ProcOf \in [Task -> Proc]
    /\ IocProc \in Proc
    /\ NoTask \notin Task
    /\ NO_HARD_CC \in BOOLEAN

VARIABLES
    pc,          \* where each task is in its system call
    op,          \* the transfer each task asked for, "READ" when it has none
    ret,         \* value returned by the last driver call of each task
    link,        \* tasks whose LL reservation on _ioc_lock is still valid
    cur,         \* task running on each processor
    isr,         \* progress of _isr_ioc on IocProc
    lock,        \* _ioc_lock
    done,        \* _ioc_done
    status,      \* _ioc_status
    dev,         \* registers and state of the block device
    cache,       \* what the data cache of its processor holds of a buffer
    outcome,     \* history: how the device ended the transfer in progress of a task
    early        \* history: tasks that loaded their buffer while the device was filling it

vars == <<pc, op, ret, link, cur, isr, lock, done, status, dev, cache, outcome, early>>

\* A status is the operation and whether it succeeded; "IDLE" is the zero
\* the status variable starts with.
Ops == {"READ", "WRITE"}
Status == {"IDLE", "READ_SUCCESS", "WRITE_SUCCESS", "READ_ERROR", "WRITE_ERROR"}
StatusOf(o) == IF o = "READ" THEN {"READ_SUCCESS", "READ_ERROR"}
                             ELSE {"WRITE_SUCCESS", "WRITE_ERROR"}

\* Program points.  "user" is outside the driver, "started" between the
\* return of _ioc_read or _ioc_write and the call of _ioc_completed.
Config == {"inval", "buffer", "count", "lba", "irq_enable", "op"}
Waiting == {"started", "poll"}
Pc == {"user", "ll", "sc", "test", "reset_done", "reset_lock"} \cup Config \cup Waiting
----------------------------------------------------------------------------
Init ==
    /\ pc = [t \in Task |-> "user"]
    /\ op = [t \in Task |-> "READ"]
    /\ ret = [t \in Task |-> 0]
    /\ link = {}
    /\ cur \in {c \in [Proc -> Task \cup {NoTask}] :
                    \A p \in Proc : IF \E t \in Task : ProcOf[t] = p
                                    THEN c[p] # NoTask /\ ProcOf[c[p]] = p
                                    ELSE c[p] = NoTask}
    /\ isr = "none"
    /\ lock = 0
    /\ done = 0
    /\ status = "IDLE"
    /\ dev = [buffer |-> NoTask, count |-> NoTask, lba |-> NoTask,
              irq_enable |-> FALSE, op |-> "READ", state |-> "IDLE",
              status |-> "IDLE"]
    /\ cache = [t \in Task |-> "none"]
    /\ outcome = [t \in Task |-> "IDLE"]
    /\ early = {}

\* A task executes an instruction only while it is the running task of its
\* processor and no interrupt routine occupies that processor.
Runs(t) ==
    /\ cur[ProcOf[t]] = t
    /\ ProcOf[t] = IocProc => isr = "none"

Goto(t, from, to) ==
    /\ Runs(t)
    /\ pc[t] = from
    /\ pc' = [pc EXCEPT ![t] = to]

\* The program reads its buffer, which enters the cache.  _ioc_read does not
\* wait for the device, so it may do so before the transfer is over as well.
UserAccess(t) ==
    /\ Runs(t)
    /\ pc[t] \in {"user", "started"}
    /\ cache[t] = "none"
    /\ cache' = [cache EXCEPT ![t] = "fresh"]
    /\ early' = early \cup {u \in {t} : pc[u] = "started" /\ op[u] = "READ" /\ dev.state = "BUSY"}
    /\ UNCHANGED <<pc, op, ret, link, cur, isr, lock, done, status, dev, outcome>>
----------------------------------------------------------------------------
(* _ioc_read, _ioc_write: the check of the buffer, the lock, the registers *)

\* A call whose buffer is in user space; any other returns 1 at once and
\* touches nothing: it is no step of the driver.
IocCall(t, o) ==
    /\ Goto(t, "user", "ll")
    /\ op' = [op EXCEPT ![t] = o]
    /\ UNCHANGED <<ret, link, cur, isr, lock, done, status, dev, cache, outcome, early>>

LockLL(t) ==
    /\ Goto(t, "ll", "sc")
    /\ lock = 0
    /\ link' = link \cup {t}
    /\ UNCHANGED <<op, ret, cur, isr, lock, done, status, dev, cache, outcome, early>>

\* Faulty variant: _ioc_read does not invalidate the data cache.
LockNoInvalidate(t) ==
    /\ Goto(t, "sc", "buffer")
    /\ t \in link
    /\ lock' = 1
    /\ link' = {}
    /\ UNCHANGED <<op, ret, cur, isr, done, status, dev, cache, outcome, early>>

LockSC(t) ==
    /\ Goto(t, "sc", IF op[t] = "READ" /\ NO_HARD_CC THEN "inval" ELSE "buffer")
    /\ t \in link
    /\ lock' = 1
    /\ link' = {}
    /\ UNCHANGED <<op, ret, cur, isr, done, status, dev, cache, outcome, early>>

\* Faulty variant: the beqz branches to the sc instead of the ll.
LockSCFailNoLL(t) ==
    /\ Goto(t, "sc", "sc")
    /\ t \notin link
    /\ UNCHANGED <<op, ret, link, cur, isr, lock, done, status, dev, cache, outcome, early>>

LockSCFail(t) ==
    /\ Goto(t, "sc", "ll")
    /\ t \notin link
    /\ UNCHANGED <<op, ret, link, cur, isr, lock, done, status, dev, cache, outcome, early>>

Invalidate(t) ==
    /\ Goto(t, "inval", "buffer")
    /\ cache' = [cache EXCEPT ![t] = "none"]
    /\ early' = early \ {t}
    /\ UNCHANGED <<op, ret, link, cur, isr, lock, done, status, dev, outcome>>

\* The stores to the registers; the tag tells whose argument was stored.
WriteRegister(t, reg, to) ==
    /\ Goto(t, reg, to)
    /\ dev' = [dev EXCEPT ![reg] = t]
    /\ UNCHANGED <<op, ret, link, cur, isr, lock, done, status, cache, outcome, early>>

EnableIrq(t) ==
    /\ Goto(t, "irq_enable", "op")
    /\ dev' = [dev EXCEPT !.irq_enable = TRUE]
    /\ UNCHANGED <<op, ret, link, cur, isr, lock, done, status, cache, outcome, early>>

\* Storing the operation starts the device, and the call returns 0.
StartTransfer(t) ==
    /\ Goto(t, "op", "started")
    /\ dev' = [dev EXCEPT !.op = op[t], !.state = "BUSY"]
    /\ ret' = [ret EXCEPT ![t] = 0]
    /\ UNCHANGED <<op, link, cur, isr, lock, done, status, cache, outcome, early>>
----------------------------------------------------------------------------
(* _ioc_completed *)

CallCompleted(t) ==
    /\ Goto(t, "started", "poll")
    /\ UNCHANGED <<op, ret, link, cur, isr, lock, done, status, dev, cache, outcome, early>>

PollDone(t) ==
    /\ Goto(t, "poll", "test")
    /\ done # 0
    /\ UNCHANGED <<op, ret, link, cur, isr, lock, done, status, dev, cache, outcome, early>>

TestStatus(t) ==
    /\ Goto(t, "test", "reset_done")
    /\ ret' = [ret EXCEPT ![t] =
                 IF status # "READ_SUCCESS" /\ status # "WRITE_SUCCESS" THEN 1 ELSE 0]
    /\ UNCHANGED <<op, link, cur, isr, lock, done, status, dev, cache, outcome, early>>

\* Faulty variant: the lock is released first.
ReleaseFirst(t) ==
    /\ Goto(t, "reset_done", "reset_lock")
    /\ lock' = 0
    /\ link' = {}
    /\ UNCHANGED <<op, ret, cur, isr, done, status, dev, cache, outcome, early>>

ResetDone(t) ==
    /\ Goto(t, "reset_done", "reset_lock")
    /\ done' = 0
    /\ UNCHANGED <<op, ret, link, cur, isr, lock, status, dev, cache, outcome, early>>

ResetLock(t) ==
    /\ Goto(t, "reset_lock", "user")
    /\ lock' = 0
    /\ link' = {}
    /\ outcome' = [outcome EXCEPT ![t] = "IDLE"]
    /\ op' = [op EXCEPT ![t] = "READ"]
    /\ UNCHANGED <<ret, cur, isr, done, status, dev, cache, early>>
----------------------------------------------------------------------------
(* The device, the interrupts and the scheduler *)

\* The device ends its transfer with success or an error.  A read fills the
\* buffer in memory: without hardware coherence a cached copy becomes stale,
\* with it the copy is invalidated.
DeviceEnds(s) ==
    /\ dev.state = "BUSY"
    /\ s \in StatusOf(dev.op)
    /\ dev' = [dev EXCEPT !.state = "ENDED", !.status = s]
    /\ outcome' = [t \in Task |-> IF t = dev.buffer THEN s ELSE outcome[t]]
    /\ cache' = IF dev.op = "READ" /\ dev.buffer \in Task /\ cache[dev.buffer] # "none"
                THEN [cache EXCEPT ![dev.buffer] = IF NO_HARD_CC THEN "stale" ELSE "none"]
                ELSE cache
    /\ UNCHANGED <<pc, op, ret, link, cur, isr, lock, done, status, early>>

\* Faulty variant: system calls run with interrupts masked.
IsrEnterUserOnly ==
    /\ isr = "none"
    /\ dev.state = "ENDED"
    /\ dev.irq_enable
    /\ \A t \in Task : cur[IocProc] = t => pc[t] \in {"user", "started"}
    /\ isr' = "status"
    /\ UNCHANGED <<pc, op, ret, link, cur, lock, done, status, dev, cache, outcome, early>>

\* The IRQ is raised while the ended transfer is not acknowledged: _giet,
\* _int_handler and _int_demux bring IocProc to _isr_ioc.
IsrEnter ==
    /\ isr = "none"
    /\ dev.state = "ENDED"
    /\ dev.irq_enable
    /\ isr' = "status"
    /\ UNCHANGED <<pc, op, ret, link, cur, lock, done, status, dev, cache, outcome, early>>

\* Faulty variant: the IRQ is acknowledged but the status is not saved.
IsrForgetsStatus ==
    /\ isr = "status"
    /\ dev' = [dev EXCEPT !.state = "IDLE"]
    /\ isr' = "done"
    /\ UNCHANGED <<pc, op, ret, link, cur, lock, done, status, cache, outcome, early>>

\* Reading the status register acknowledges the IRQ.
IsrStatus ==
    /\ isr = "status"
    /\ status' = dev.status
    /\ dev' = [dev EXCEPT !.state = "IDLE"]
    /\ isr' = "done"
    /\ UNCHANGED <<pc, op, ret, link, cur, lock, done, cache, outcome, early>>

\* The eret that ends the routine breaks the reservation of its processor.
IsrDone ==
    /\ isr = "done"
    /\ done' = 1
    /\ isr' = "none"
    /\ link' = {t \in link : ProcOf[t] # IocProc}
    /\ UNCHANGED <<pc, op, ret, cur, lock, status, dev, cache, outcome, early>>

\* The timer interrupt gives the processor to another of its tasks.
Switch(t) ==
    LET p == ProcOf[t] IN
    /\ cur[p] # t
    /\ p = IocProc => isr = "none"
    /\ cur' = [cur EXCEPT ![p] = t]
    /\ link' = {u \in link : ProcOf[u] # p}
    /\ UNCHANGED <<pc, op, ret, isr, lock, done, status, dev, cache, outcome, early>>
----------------------------------------------------------------------------
Acquire(t) == LockLL(t) \/ LockSC(t)

Instruction(t) ==
    \/ LockSCFail(t) \/ Invalidate(t)
    \/ WriteRegister(t, "buffer", "count")
    \/ WriteRegister(t, "count", "lba")
    \/ WriteRegister(t, "lba", "irq_enable")
    \/ EnableIrq(t) \/ StartTransfer(t) \/ PollDone(t)
    \/ TestStatus(t) \/ ResetDone(t) \/ ResetLock(t)

User(t) ==
    \/ UserAccess(t) \/ CallCompleted(t)
    \/ \E o \in Ops : IocCall(t, o)

Device == \E s \in Status : DeviceEnds(s)
Isr == IsrEnter \/ IsrStatus \/ IsrDone

Next ==
    \/ \E t \in Task : Acquire(t) \/ Instruction(t) \/ User(t) \/ Switch(t)
    \/ Device
    \/ Isr

Spec == Init /\ [][Next]_vars

\* The device ends every transfer, an interrupt routine runs to its end, the
\* timer keeps switching tasks, and a time slice is longer than an
\* instruction: a task that is scheduled again and again executes.  Of the
\* tasks that compete for the lock only some task is sure to advance: LL/SC
\* promises nothing to a particular one.  The program makes the calls it likes,
\* _ioc_completed included.
Fairness ==
    /\ WF_vars(Device)
    /\ WF_vars(Isr)
    /\ \A t \in Task : SF_vars(Switch(t)) /\ SF_vars(Instruction(t))
    /\ SF_vars(\E t \in Task : LockLL(t))
    /\ SF_vars(\E t \in Task : LockSC(t))

FairSpec == Spec /\ Fairness
----------------------------------------------------------------------------
Held == Config \cup Waiting \cup {"test", "reset_done", "reset_lock"}
Success == {"READ_SUCCESS", "WRITE_SUCCESS"}

\* Type invariant of the driver, the interrupt routine and the device.
TypeOK ==
    /\ pc \in [Task -> Pc]
    /\ op \in [Task -> Ops]
    /\ ret \in [Task -> {0, 1}]
    /\ link \in SUBSET Task
    /\ cur \in [Proc -> Task \cup {NoTask}]
    /\ isr \in {"none", "status", "done"}
    /\ lock \in {0, 1}
    /\ done \in {0, 1}
    /\ status \in Status
    /\ dev \in [buffer : Task \cup {NoTask}, count : Task \cup {NoTask},
                lba : Task \cup {NoTask}, irq_enable : BOOLEAN, op : Ops,
                state : {"IDLE", "BUSY", "ENDED"}, status : Status]
    /\ cache \in [Task -> {"none", "fresh", "stale"}]
    /\ outcome \in [Task -> Status]
    /\ early \in SUBSET Task

\* _ioc_lock gives exclusive access to the device (drivers.c:396-399): two
\* tasks are never both between the sc that takes the lock and the store
\* that releases it, and the lock is set exactly while one of them is there.
MutualExclusion ==
    /\ \A t, u \in Task : pc[t] \in Held /\ pc[u] \in Held => t = u
    /\ lock = 1 <=> \E t \in Task : pc[t] \in Held

\* A transfer the device is doing, or has ended and not yet reported, is the
\* one a single waiting task asked for: buffer, count, block and operation
\* all come from its call.
TransferIsOneCall ==
    dev.state # "IDLE" =>
        \E t \in Task : /\ pc[t] \in Waiting
                        /\ dev.buffer = t /\ dev.count = t /\ dev.lba = t
                        /\ dev.op = op[t]

\* _ioc_completed returns only after the device has ended the transfer of
\* the caller, and returns 0 exactly when that transfer, and not an earlier
\* one or one of another task, succeeded.
ResultIsOwn ==
    \A t \in Task : pc[t] \in {"reset_done", "reset_lock"} =>
        /\ outcome[t] \in StatusOf(op[t])
        /\ ret[t] = IF outcome[t] \in Success THEN 0 ELSE 1

\* The cache of a task holds a copy of its buffer that is older than what the
\* device wrote only when its own program loaded that copy while the transfer
\* was under way: no copy from before the call of _ioc_read survives it, and
\* whoever waits for _ioc_completed before reading the buffer reads the blocks.
NoStaleCopy == \A t \in Task : cache[t] = "stale" => t \in early

\* While the device works no register that describes the transfer changes.
RegistersStable ==
    [][dev.state = "BUSY" =>
         /\ dev'.buffer = dev.buffer /\ dev'.count = dev.count
         /\ dev'.lba = dev.lba /\ dev'.op = dev.op]_vars

\* The phase of the transfer in progress, read off the device, the interrupt
\* routine and the task that holds the lock.
Phase ==
    IF \E t \in Task : pc[t] \in {"reset_done", "reset_lock"} THEN "reported"
    ELSE IF dev.state = "BUSY" THEN "running"
    ELSE IF \E t \in Task : pc[t] \in Waiting \cup {"test"} THEN "ended"
    ELSE "none"

Service == INSTANCE IocService WITH
    holders <- {t \in Task : pc[t] \in Held}, phase <- Phase, answer <- ret

\* The driver, its interrupt routine and the device implement the service of
\* IocService: one task at a time, each transfer ended and reported once,
\* each report the outcome of the caller's own transfer.
ImplementsService == Service!Spec

\* _ioc_completed returns: the completion that the interrupt routine signals
\* is never lost, however long the program waits before it calls, and whatever
\* transfers the other tasks ask for.
TransferCompletes == \A t \in Task : pc[t] = "poll" ~> pc[t] = "user"

\* When the lock is free and some task wants it, some task gets it.
LockProgress ==
    (lock = 0 /\ \E t \in Task : pc[t] \in {"ll", "sc"}) ~> (lock = 1)
=============================================================================

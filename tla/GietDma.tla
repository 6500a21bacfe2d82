------------------------------ MODULE GietDma ------------------------------
(***************************************************************************)
(* The frame buffer driver that uses the DMA coprocessor: _fb_write,       *)
(* _fb_read and _fb_completed of giet_2011/sys/drivers.c, and _isr_dma of  *)
(* irq_handler.c.  Every processor has its own DMA, _dma_busy and          *)
(* _dma_status, so that one processor and the tasks that share it are the  *)
(* whole system.                                                           *)
(*                                                                         *)
(* One step is one access to a shared variable or a register.  _isr_dma    *)
(* runs with interrupts masked on the only processor concerned, and is one *)
(* step.  The timer may give the processor to another task between any two *)
(* steps.  _dma_busy is tested and set by two of them: two tasks may both  *)
(* find the DMA available before either has taken it.  raced records that  *)
(* this has happened, and is what the properties except.                   *)
(***************************************************************************)
EXTENDS Naturals

CONSTANTS Client,       \* tasks of the processor
          NoTask        \* tag of a register nobody has written

\* "started" is between the return of _fb_read or _fb_write and the call of
\* _fb_completed.
Config == {"irq_disable", "src", "dst", "len"}
Places == {"user", "wait", "set", "started", "poll", "status"} \cup Config

ASSUME DmaAssumption == NoTask \notin Client

VARIABLES place,        \* where each task is in its system call
          ret,          \* value returned by the last driver call of each task
          cur,          \* the running task
          busy,         \* _dma_busy
          status,       \* _dma_status: 0 is success
          dev,          \* registers and state of the DMA
          outcome,      \* history: how the last transfer of each task ended
          raced         \* history: a task took the DMA while another one,
                        \* which had found it available, was about to

dmavars == <<place, ret, cur, busy, status, dev, outcome, raced>>

Tag == Client \cup {NoTask}

DmaInit ==
    /\ place = [t \in Client |-> "user"]
    /\ ret = [t \in Client |-> 0]
    /\ cur \in Client
    /\ busy = 0
    /\ status \in {0, 1}
    /\ dev \in [src : {NoTask}, dst : {NoTask}, len : {NoTask},
                irq_disable : BOOLEAN, state : {"IDLE"}, error : {0}]
    /\ outcome = [t \in Client |-> "none"]
    /\ raced = FALSE

Move(t, from, to) ==
    /\ cur = t
    /\ place[t] = from
    /\ place' = [place EXCEPT ![t] = to]
----------------------------------------------------------------------------
(* _fb_write and _fb_read *)

\* A call whose buffer is in user space; any other returns 1 at once and
\* touches nothing: it is no step of the driver.  The two functions differ in
\* which of their arguments is the source.
FbCall(t) ==
    /\ Move(t, "user", "wait")
    /\ outcome' = [outcome EXCEPT ![t] = "pending"]
    /\ UNCHANGED <<ret, cur, busy, status, dev, raced>>

WaitAvailable(t) ==
    /\ Move(t, "wait", "set")
    /\ busy = 0
    /\ UNCHANGED <<ret, cur, busy, status, dev, outcome, raced>>

\* A turn of one of the two polling loops, with its delay.
Spin(t) ==
    /\ cur = t
    /\ place[t] \in {"wait", "poll"}
    /\ busy # 0
    /\ UNCHANGED dmavars

SetBusy(t) ==
    /\ Move(t, "set", "irq_disable")
    /\ busy' = 1
    /\ raced' = (raced \/ \E u \in Client \ {t} : place[u] = "set")
    /\ UNCHANGED <<ret, cur, status, dev, outcome>>

\* Faulty variant: the interrupt is left as it was.
KeepIrq(t) ==
    /\ Move(t, "irq_disable", "src")
    /\ UNCHANGED <<ret, cur, busy, status, dev, outcome, raced>>

EnableIrq(t) ==
    /\ Move(t, "irq_disable", "src")
    /\ dev' = [dev EXCEPT !.irq_disable = FALSE]
    /\ UNCHANGED <<ret, cur, busy, status, outcome, raced>>

\* The stores to the registers; the tag tells whose argument was stored.
WriteRegister(t, reg, to) ==
    /\ Move(t, reg, to)
    /\ dev' = [dev EXCEPT ![reg] = t]
    /\ UNCHANGED <<ret, cur, busy, status, outcome, raced>>

\* Storing the length starts the DMA, and the call returns 0.  _fb_read does
\* not invalidate the buffer: the call that would is commented out.
StartTransfer(t) ==
    /\ Move(t, "len", "started")
    /\ dev' = [dev EXCEPT !.len = t, !.state = "BUSY"]
    /\ ret' = [ret EXCEPT ![t] = 0]
    /\ UNCHANGED <<cur, busy, status, outcome, raced>>
----------------------------------------------------------------------------
(* _fb_completed *)

CallCompleted(t) ==
    /\ Move(t, "started", "poll")
    /\ UNCHANGED <<ret, cur, busy, status, dev, outcome, raced>>

\* Faulty variant: the flag is not polled.
PollNothing(t) ==
    /\ Move(t, "poll", "status")
    /\ UNCHANGED <<ret, cur, busy, status, dev, outcome, raced>>

PollBusy(t) ==
    /\ Move(t, "poll", "status")
    /\ busy = 0
    /\ UNCHANGED <<ret, cur, busy, status, dev, outcome, raced>>

ReturnStatus(t) ==
    /\ Move(t, "status", "user")
    /\ ret' = [ret EXCEPT ![t] = IF status # 0 THEN 1 ELSE 0]
    /\ UNCHANGED <<cur, busy, status, dev, outcome, raced>>
----------------------------------------------------------------------------
(* The DMA, its interrupt and the scheduler *)

\* The transfer ends; e is the status the length register then gives.
DeviceEnds(e) ==
    /\ dev.state = "BUSY"
    /\ dev' = [dev EXCEPT !.state = "ENDED", !.error = e]
    /\ outcome' = [t \in Client |->
                     IF t # dev.len THEN outcome[t] ELSE IF e = 0 THEN "ok" ELSE "error"]
    /\ UNCHANGED <<place, ret, cur, busy, status, raced>>

\* Faulty variants: the IRQ is not reset, the status is not saved.
IsrDmaNoReset ==
    /\ dev.state = "ENDED"
    /\ ~ dev.irq_disable
    /\ status' = dev.error
    /\ busy' = 0
    /\ UNCHANGED <<place, ret, cur, dev, outcome, raced>>

IsrDmaNoStatus ==
    /\ dev.state = "ENDED"
    /\ ~ dev.irq_disable
    /\ busy' = 0
    /\ dev' = [dev EXCEPT !.state = "IDLE", !.error = 0]
    /\ UNCHANGED <<place, ret, cur, status, outcome, raced>>

\* The IRQ is raised while an ended transfer is not reset.
IsrDma ==
    /\ dev.state = "ENDED"
    /\ ~ dev.irq_disable
    /\ status' = dev.error
    /\ busy' = 0
    /\ dev' = [dev EXCEPT !.state = "IDLE", !.error = 0]
    /\ UNCHANGED <<place, ret, cur, outcome, raced>>

\* The timer interrupt gives the processor to another task.
Switch(t) ==
    /\ t # cur
    /\ cur' = t
    /\ UNCHANGED <<place, ret, busy, status, dev, outcome, raced>>
----------------------------------------------------------------------------
Instruction(t) ==
    \/ WaitAvailable(t) \/ SetBusy(t) \/ EnableIrq(t)
    \/ WriteRegister(t, "src", "dst") \/ WriteRegister(t, "dst", "len")
    \/ StartTransfer(t) \/ PollBusy(t) \/ ReturnStatus(t)

User(t) ==
    \/ FbCall(t)
    \/ CallCompleted(t)

Device == \E e \in {0, 1} : DeviceEnds(e)

DmaNext ==
    \/ \E t \in Client : Instruction(t) \/ Spin(t) \/ User(t) \/ Switch(t)
    \/ Device
    \/ IsrDma

DmaSpec == DmaInit /\ [][DmaNext]_dmavars

\* The DMA ends every transfer, its interrupt is taken, the timer keeps
\* switching tasks, and a time slice is longer than an instruction.
DmaFairSpec ==
    /\ DmaSpec
    /\ WF_dmavars(Device)
    /\ WF_dmavars(IsrDma)
    /\ \A t \in Client : SF_dmavars(Switch(t)) /\ SF_dmavars(Instruction(t))
----------------------------------------------------------------------------
\* Type invariant of the driver, the interrupt routine and the DMA.
DmaTypeOK ==
    /\ place \in [Client -> Places]
    /\ ret \in [Client -> {0, 1}]
    /\ cur \in Client
    /\ busy \in {0, 1}
    /\ status \in {0, 1}
    /\ dev \in [src : Tag, dst : Tag, len : Tag, irq_disable : BOOLEAN,
                state : {"IDLE", "BUSY", "ENDED"}, error : {0, 1}]
    /\ outcome \in [Client -> {"none", "pending", "ok", "error"}]
    /\ raced \in BOOLEAN

\* "waiting until DMA device is available": a transfer the DMA is doing, or
\* has ended and not yet signalled, has source, destination and length from
\* the call of one task, which has not been told that it is over.  Wherever
\* tasks are preempted, calls are mixed only by two tasks that have both left
\* the waiting loop before either has set _dma_busy.
TransferIsOneCall ==
    ~ raced /\ dev.state # "IDLE" =>
        \E t \in Client : /\ place[t] \in {"started", "poll"}
                          /\ dev.src = t /\ dev.dst = t /\ dev.len = t

\* _fb_completed returns only after the transfer of the caller has ended,
\* whatever the other tasks of the processor have asked for meanwhile, unless
\* two tasks have taken the DMA together.
CompletedMeansOver ==
    ~ raced => \A t \in Client : place[t] = "user" => outcome[t] # "pending"

\* _fb_completed "Returns 0 if success, > 0 if error" (drivers.c:738): of
\* the transfer of the caller, provided no other task of the processor has
\* started one since (the length register still holds the caller's argument)
\* and no two tasks have taken the DMA together.
ResultIsOwn ==
    ~ raced => \A t \in Client : place[t] = "user" /\ dev.len = t =>
                  /\ outcome[t] = "ok" => ret[t] = 0
                  /\ outcome[t] = "error" => ret[t] = 1

\* No store of the driver changes a register of the DMA while it works, unless
\* two tasks have taken the DMA together.
RegistersStable ==
    [][~ raced /\ dev.state = "BUSY" => /\ dev'.src = dev.src
                                       /\ dev'.dst = dev.dst
                                       /\ dev'.len = dev.len]_dmavars

\* The two polling loops do not hang, even after two tasks have taken the DMA
\* together: while tasks wait for it one of them finds it available, and
\* _fb_completed returns unless another task takes the DMA again.
CallsReturn ==
    /\ (\E t \in Client : place[t] = "wait") ~> (\E t \in Client : place[t] = "set")
    /\ \A t \in Client :
          place[t] = "poll" ~> \/ place[t] = "user"
                               \/ \E u \in Client \ {t} : place[u] = "set"

=============================================================================

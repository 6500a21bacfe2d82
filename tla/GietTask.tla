------------------------------ MODULE GietTask ------------------------------
(***************************************************************************)
(* Time sharing of one processor of the GIET: _ctx_switch (ctx_handler.c), *)
(* _task_switch and the handlers that lead to it (giet.s), and _isr_switch *)
(* (irq_handler.c).  The processors are independent of each other: every   *)
(* variable is indexed by the processor.                                   *)
(*                                                                         *)
(* A context is what _task_switch saves and restores; of the registers it  *)
(* keeps whose they are, how far the task has come (step) and where it     *)
(* resumes.  An interrupt routine runs with interrupts masked and is one   *)
(* step.  A system call runs with interrupts enabled (giet.s:70-73), so    *)
(* that _ctx_switch called by one (SYSCALL_CTX_SWITCH) is a sequence of    *)
(* steps between which the timer may interrupt it.                         *)
(***************************************************************************)
EXTENDS Naturals

CONSTANTS NTasks,       \* _task_number_array[proc_id]
          Steps,        \* bound: the state of a task is counted modulo this
          Ways          \* the ways to switch of the systems considered: "timer"
                        \* if the boot code installs _isr_switch, "yield" if the
                        \* tasks call ctx_switch()

ASSUME TaskAssumption ==
    /\ NTasks \in Nat \ {0}
    /\ Steps \in Nat \ {0}
    /\ Ways \subseteq SUBSET {"timer", "yield"}

VARIABLES cpu,          \* the registers of the processor
          ctx,          \* _task_context_array, for this processor
          current,      \* _current_task_array[proc_id]
          irq,          \* the timer asks for an interrupt
          ways          \* the ways to switch of this system; never changes

taskvars == <<cpu, ctx, current, irq, ways>>

Timer == "timer" \in ways
Yields == "yield" \in ways

Index == 0 .. NTasks - 1

\* Where a task is: in its own code, or before one of the accesses that
\* _ctx_switch makes when a system call has called it.
At == {"user", "test", "load", "store", "save", "restore"}

\* curr is the local variable curr_task_index of that call.
Fresh(t) == [task |-> t, step |-> 0, at |-> "user", curr |-> 0]

\* The boot code has filled the contexts and starts task 0.
TaskInit == /\ cpu = Fresh(0)
            /\ ctx = [t \in Index |-> Fresh(t)]
            /\ current = 0
            /\ irq = FALSE
            /\ ways \in Ways

-----------------------------------------------------------------------------
Compute == /\ cpu.at = "user"
           /\ cpu' = [cpu EXCEPT !.step = (@ + 1) % Steps]
           /\ UNCHANGED <<ctx, current, irq, ways>>

\* The timer ends a period.
Expire == /\ Timer
          /\ ~ irq
          /\ irq' = TRUE
          /\ UNCHANGED <<cpu, ctx, current, ways>>

\* Faulty variant: the index is reduced too early.
NextIndexShort(i) == IF NTasks = 1 THEN 0 ELSE (i + 1) % (NTasks - 1)

NextIndex(i) == (i + 1) % NTasks

\* Faulty variant of the routine below: nothing is saved.
IsrSwitchNoSave ==
    /\ irq
    /\ irq' = FALSE
    /\ current' = NextIndex(current)
    /\ cpu' = ctx[NextIndex(current)]
    /\ UNCHANGED <<ctx, ways>>

\* _int_demux brings the processor to _isr_switch, which resets the IRQ.
Acknowledge == irq /\ irq' = FALSE

\* The whole interrupt: _giet, _int_handler, _isr_switch and _ctx_switch.
\* The context saved is that of the code the timer interrupts, wherever it is.
IsrSwitch ==
    /\ Acknowledge
    /\ IF NTasks =< 1
          THEN UNCHANGED <<cpu, ctx, current>>
          ELSE /\ ctx' = [ctx EXCEPT ![current] = cpu]
               /\ current' = NextIndex(current)
               /\ cpu' = ctx[NextIndex(current)]
    /\ UNCHANGED ways

-----------------------------------------------------------------------------
(* The system call: _sys_handler enables the interrupts and calls          *)
(* _ctx_switch.                                                            *)

TaskGoto(from, to) == cpu.at = from /\ cpu' = [cpu EXCEPT !.at = to]

CallCtxSwitch == /\ Yields
                 /\ TaskGoto("user", "test")
                 /\ UNCHANGED <<ctx, current, irq, ways>>

TestNumber == /\ TaskGoto("test", IF NTasks =< 1 THEN "user" ELSE "load")
              /\ UNCHANGED <<ctx, current, irq, ways>>

LoadCurrent == /\ cpu.at = "load"
               /\ cpu' = [cpu EXCEPT !.at = "store", !.curr = current]
               /\ UNCHANGED <<ctx, current, irq, ways>>

StoreCurrent == /\ TaskGoto("store", "save")
                /\ current' = NextIndex(cpu.curr)
                /\ UNCHANGED <<ctx, irq, ways>>

\* The saved context resumes after the call, as $31 says.
SaveContext == /\ TaskGoto("save", "restore")
               /\ ctx' = [ctx EXCEPT ![cpu.curr] = [cpu EXCEPT !.at = "user", !.curr = 0]]
               /\ UNCHANGED <<current, irq, ways>>

RestoreContext == /\ cpu.at = "restore"
                  /\ cpu' = ctx[NextIndex(cpu.curr)]
                  /\ UNCHANGED <<ctx, current, irq, ways>>

Syscall == CallCtxSwitch \/ TestNumber \/ LoadCurrent \/ StoreCurrent
           \/ SaveContext \/ RestoreContext

TaskNext == Compute \/ Expire \/ IsrSwitch \/ Syscall

TaskSpec == TaskInit /\ [][TaskNext]_taskvars

\* The timer is periodic and its interrupt is taken; the tasks need not do
\* anything for it.
TaskFairSpec == TaskSpec /\ WF_taskvars(Expire) /\ WF_taskvars(IsrSwitch)

-----------------------------------------------------------------------------
Context == [task : Index, step : 0 .. Steps - 1, at : At, curr : Index]

\* Type correctness.
TaskTypeOK == /\ cpu \in Context
              /\ ctx \in [Index -> Context]
              /\ current \in Index
              /\ irq \in BOOLEAN
              /\ ways \in Ways

\* "index of the task actually running on each processor": the code of a
\* task runs only while _current_task_array names it.
CurrentIsRunning == cpu.at = "user" => current = cpu.task

\* The slot of every task that does not run holds a context of that task,
\* which resumes in its own code.
ContextsAreOwn == \A t \in Index : t # cpu.task => ctx[t].task = t /\ ctx[t].at = "user"

\* What a task has computed, whether it runs or not.
progress == [t \in Index |-> IF t = cpu.task THEN cpu.step ELSE ctx[t].step]

TimeSharing == INSTANCE TaskService WITH running <- cpu.task

\* The tasks run in turn, and a task resumes with the state it was left in.
ImplementsTaskService == TimeSharing!Spec

\* Round robin with a periodic timer: every task runs again and again.
EveryTaskRuns == \A t \in Index : []<>(Timer => cpu.task = t)

=============================================================================

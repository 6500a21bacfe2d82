# A verification development for SMC

SMC is a course repository on multiprocessor systems on chip.  It has two
halves: hardware models in SystemC (`TP1`, `TP2`, `TP3`), cycle-accurate and
written as synchronous automata, and the GIET (`giet_2011`), a small kernel
for MIPS32 processors with drivers, interrupt routines, barriers and a task
switch.  Both halves are small and concurrent, and neither has tests.  The
repository also carries the SystemC library itself (`systemc-2.3.3`), whose
scheduler runs every simulation.

## The system's parts

| part | source | state that other parts see |
| --- | --- | --- |
| block device driver | `giet_2011/sys/drivers.c:394-545`, `_isr_ioc` | `_ioc_lock`, `_ioc_done`, `_ioc_status`, the device registers |
| frame buffer / DMA driver | `drivers.c:547-753`, `_isr_dma` | `_dma_busy`, `_dma_status`, the DMA registers |
| TTY driver | `drivers.c:160-290`, `_isr_tty_get*` | `_tty_get_buf`, `_tty_get_full`, the TTY registers |
| barriers | `giet_2011/sys/common.c:110-201` | `_barrier_initial_value`, `_barrier_count` |
| task switch | `ctx_handler.c`, `giet.s:165-292`, `_isr_switch` | `_current_task_array`, `_task_context_array` |
| entry, syscall and interrupt dispatch | `giet.s`, `sys_handler.c`, `irq_handler.c`, `exc_handler.c` | the dispatch vectors, EPC, SR |
| timer, ICU and GCD drivers | `drivers.c:99-154`, `292-387` | device registers |
| kernel messages, conversions, cache helper | `common.c:1-108`, `exc_handler.c`, `_sys_ukn` | what is shown on the terminal |
| application library | `giet_2011/app/stdio.c` | none: a system call each, `tty_printf`, `tty_gets_irq`, `tty_getw_irq` |
| FIFO GCD pair | `TP1/TP1_etudiant` | the two FIFO channels |
| VCI GCD master and coprocessor | `TP2/TP2_etudiant/vci_gcd_*.cpp` | the VCI channels |
| VCI bus | `TP2/TP2_etudiant/vci_vgsb.cpp` | the granted initiator and target |
| address decoding | `mapping_table.cpp`, `address_*_table.*`, `segment.*`, `int_tab.h` | the tables |
| processor platform | `TP3/TP3_etudiant/tp3_top.cpp` | a netlist of SoCLib components that are not in the repository |
| SystemC scheduler | `systemc-2.3.3/src/sysc/kernel` | events, waiter lists, run queues, the current time |
| SystemC channels | `systemc-2.3.3/src/sysc/communication` | `sc_signal`, `sc_fifo`, `sc_mutex`, `sc_semaphore`, `sc_event_queue`, the update list |
| rest of SystemC | `systemc-2.3.3` | data types, tracing, TLM, elaboration |

The kernel's shared variables are uncached and every processor sees them at
once.  A system call runs with interrupts enabled (`giet.s:70-73`), so a task
can be interrupted, and with the timer switched out, between any two of its
instructions; an interrupt routine itself is not interrupted on its
processor.  That, with the devices working on their own, is the concurrency
the kernel modules model: one action for each access to shared state.

In the SystemC half every component is a synchronous automaton: `transition`
computes the next registers from the registers and the input signals, the
`genMoore` and `genMealy` functions the output signals.  A step of the model is
one clock cycle of all components; signals are operators on the registers.

The SystemC scheduler is one host thread.  Its difficulty is not preemption but
the lists it changes while it walks over them: a notification wakes processes,
the end of a wait with a timeout cancels another notification, which moves
elements of the vector the notification loop is in.  Other host threads meet it
in one place, the list of asynchronous updates.

## Modules and how they correspond to the code

| module | models | state and actions |
| --- | --- | --- |
| `GietIoc` | `_ioc_get_lock`, `_ioc_write`, `_ioc_read`, `_ioc_completed`, `_isr_ioc` | one `pc` per task; an action for each access to `_ioc_lock` (ll, sc), `_ioc_done`, `_ioc_status` and each device register; the device and the interrupt routine; a data cache reduced to the state of the caller's buffer, which the caller may load before, during and after the transfer (`early` records a load while the device may still write) |
| `IocService` | what the driver promises | a task asks, its transfer runs alone, it gets its outcome |
| `GietBarrier` | `_barrier_init`, `_barrier_wait` of one barrier | an action for each ll, sc, store and poll; `link` is the set of reservations, broken by a store to the word or by an `eret` |
| `BarrierService` | what a barrier promises | tasks arrive in rounds and leave a round when all have arrived |
| `GietTask` | `_ctx_switch`, `_task_switch`, `_isr_switch`, the entry and exit of `giet.s` | the processor (`cpu`), `_current_task_array`, one context slot per task; `ways` says whether there is a timer, whether tasks call `ctx_switch()`, or both |
| `TaskService` | what time sharing promises | tasks run in turn and resume where they were left |
| `GietDma` | `_fb_write`, `_fb_read`, `_fb_completed`, `_isr_dma` on one processor | as `GietIoc`; the timer may give the processor to another task between any two accesses; `raced` records that two tasks have passed the test of `_dma_busy` before either had set it |
| `GietTty` | `_isr_tty_get_indexed`, `_tty_read_irq`, `tty_getc_irq`, `tty_gets_irq`, `tty_getw_irq`; `_tty_read`, `tty_getc` | the register, the one-place buffer and its flag; test, copy and reset are three actions, test and read of the polled `_tty_read` two; `wired` says whether the boot code enabled the interrupt, any of the four functions may be called in either case, and `mixed` records that `tty_getc` was called with the interrupt on; characters are named by their rank |
| `GietTerminal` | `_tty_write`, `tty_putc`, `tty_puts`, `tty_putw`, `tty_printf`, `_putk`, `_itoa_dec`, `_itoa_hex`, `_exit`, `_cause`, `_sys_ukn`, `_isr_timer`, `_isr_default` | extends `GietTty`; the message (`job`), the calls of `_tty_write` made, what they showed, and the return value; the conversions are operators |
| `FifoGcd` | the master and coprocessor of TP1 and their channels without storage | the registers of both automata, one action: a clock cycle |
| `VciGcdMaster`, `VciGcdCoprocessor` | the components of TP2 | operators: next registers from registers and handshakes |
| `VciPlatform` | `vci_vgsb.cpp` and `tp2_parallel_top.cpp` | the bus automaton composed with any number of master/coprocessor pairs |
| `Gcd`, `GcdService` | the greatest common divisor, and what a GCD platform promises | |
| `MappingTable` | `mapping_table.cpp` and the classes it uses | the list of segments; `add` with its three refusals, and the outcome `"hang"` when its loops do not end; the tables as operators; sums of addresses wrap as the 32-bit ones of the build do |
| `ScEvent` | `sc_event.cpp`, `sc_runnable_int.h`, the process classes | operators on the kernel record: notification, cancellation, triggering, static and dynamic sensitivity, process control; the lists are sequences that shrink the way the code's vectors do |
| `ScChannels` | `sc_prim_channel.*`, `sc_signal<bool>`, `sc_fifo.h`, `sc_mutex.cpp`, `sc_semaphore.cpp`, `sc_event_queue.cpp` | operators on the same record |
| `ScKernel` | `sc_start`, `crunch`, `simulate`, and any design | one action per call a process may make, one each for dispatching, the end of a delta cycle, and time; `loc` is the place in `simulate` |
| `ScService` | what the scheduler promises | pending notifications, one condition per process, the set of ready processes: no lists |
| `MCGietIoc`, `MCMappingTable`, `MCGietTerminal`, `MCVciPlatform`, `MCScKernel` | values of constants for TLC | |
| `*Proofs`, `Arithmetic` | the theorems, and the lemmas on numbers that several proofs use | |

Where a definition is named *Faulty variant*, it is a deliberately wrong form of
the definition that follows it; substituting it shows that a property does
notice such a mistake.  No specification uses one.

## Runs

`tlc -config <cfg> <module>` in this directory.

| run | what it shows | bounds |
| --- | --- | --- |
| `ioc` (`MCGietIoc`) | own result, no stale copy in the cache but one that the caller loads during the transfer, refinement of `IocService` (one call at a time on the device), completion and progress of the lock | two tasks on the processor the device interrupts, the case in which the interrupt routine and both tasks interleave; more tasks and processors are covered by the proofs |
| `barrier` (`GietBarrier`) | the counter is the number of missing tasks and does not wrap, refinement of `BarrierService` (nobody leaves a round early); waiting tasks wake up unless one is overtaken | three tasks, three rounds: a task may be a whole round ahead of another, and a third one in between |
| `barrier_stuck` | **violation**: a released task that comes back at once decrements the counter before a slow one has polled it, and both poll for ever | two tasks, two rounds |
| `task` (`GietTask`) | refinement of `TaskService` (a task resumes where it was left), every task runs again and again | three tasks, timer alone or calls alone |
| `task_both` | **violation**: with the timer and `ctx_switch()` calls together a context is saved over another task's, which never runs again | three tasks |
| `dma` (`GietDma`) | until two tasks have found the DMA available together: one call at a time on it, a completed call is over, the result is the caller's own; both polling loops end in any case | two tasks switched between any two accesses |
| `tty` (`MCGietTerminal`) | no character twice, none out of order unless `tty_getc` is used with the interrupt on, a character is lost only to a full buffer, line editing and conversion, typing ends a wait; what is printed, and what the printing call returns, is right | four characters of five kinds (two digits, LF, CR, DEL), lines of two characters, numbers of two digits, a word of 6 bits: a line can be filled, edited and ended, a number can be in and out of range; every value of a word is printed with every conversion, on a controller that may be busy at any character |
| `fifo_gcd` (`FifoGcd`) | refinement of `GcdService` (what is displayed is the gcd), every round displays | operands 1 to 16 |
| `vci_platform` (`MCVciPlatform`) | one transaction at a time, no operand written during a computation, refinement of `GcdService`, fairness of the arbitration | the three masters of `tp2_parallel_top.cpp`; operands 1 and 1, 1 and 8, 6 and 4: a computation may be over before STATUS is first read, or be found busy several times |
| `vci_platform_four` (`MCVciPlatform`) | **violation**: four masters on the same bus, two wait for ever | the same operands |
| `mapping_table` (`MCMappingTable`) | `add` accepts exactly the right segments, all tables agree with the segments at every address and with each other; segments at the top of the address space, whose end wraps to 0, are accepted and seen by no loop, and do not disturb the others | two segments, 8 addresses (3-bit sums), one and two levels, a cacheability mask finer than, equal to and coarser than the routing bits; segments that end at the top, and one over which the loops are endless |
| `sc_kernel` (`MCScKernel`) | refinement of `ScService`; slots and indices of delta notifications agree, a waiting process is in exactly the lists of its events; a fifo delivers in order and no thread stays blocked in a channel that could serve it; an event queue is always armed; pending notifications and asynchronous updates happen before `sc_start` returns or sleeps | two threads, a method and the method of an event queue on two events; fifteen families of designs, each with its own set of calls and 3 to 7 of them in all: enough for two waits with timeouts to end in one delta cycle, for a fifo of two places to fill and drain, for a suspension to cross a notification |

The three violations are the disagreements met with comments of the code; each
is quoted in `PROJECT.json`.  `barrier` turns the deadlock check off because
tasks stop after `Rounds` rounds (and may poll for ever, which `barrier_stuck`
is about), `mapping_table` because the list is full after `MaxSegments`
segments.

`PrintedIsRight` names, in `Known`, what the code does not print right: `%u`
from 2^31 on and `%d` of -2^31 (signed remainders index `HexaTab` below 0), the
hexadecimal digits E and F of `_itoa_hex` (`hexatab` ends at D), processor
numbers with a digit above 9 in `_exit`, and the messages of the causes CPU and
OVF (a comma is missing in `exc_message_causes`).

In `ScKernel` two behaviours of the library are part of the model and of its
specification, because the code has them.  `remove_delta_event` during the
notification loop, which goes from the last slot to the first, moves the last
event of the vector, already triggered, to a slot that the loop has yet to
visit: it is triggered a second time in the delta cycle; `ScService` allows it
(`again`).  And `cancel_all` followed by
`notify` while `fire_event` is already runnable lets it meet an entry that is
not due, which its `sc_assert` stops; `QueueIsArmed` excludes it (`rearmed`).

### Fairness

- Hardware (`FifoGcd`, `VciPlatform`): the clock runs, weak fairness of the one
  action.
- Devices and interrupt routines: a transfer ends, a pending interrupt is
  served; weak fairness.  The kernel never masks interrupts for good: system
  calls enable them, interrupt routines end.
- Tasks: a task on its own processor executes its next instruction (weak
  fairness); where tasks share a processor the timer gives it to each of them
  again and again, long enough for an instruction (strong fairness of `Switch`
  and `Instruction` in `GietIoc` and `GietDma`).
- LL/SC: an `sc` that is tried again and again is not broken by an interrupt
  every time (strong fairness of the successful `sc`).  The time between two
  interrupts is much longer than the loop.
- SystemC: the scheduler is one host thread that sleeps only in
  `async_suspend`, and the functions of processes return or block.  `Fairness`
  of `ScKernel` is weak fairness of the steps that make no new call; its enabling
  condition is written out (`CanWork`), because TLC evaluates `ENABLED` of these
  actions too slowly.  The deadlock check of the run shows that where `CanWork`
  holds there is such a step.
- Applications: a barrier is worth nothing unless its tasks come to it, so in
  `GietBarrier` a task that has rounds left does call `barrier_wait`.  No other
  call of an application is fair, `ioc_completed` and `fb_completed` included:
  the liveness properties of the drivers are about calls that were made.  Nor is
  the typing of characters.

## Proofs

TLAPS proves the safety half for every value of the constants.  Each proof
module states an inductive invariant, because none of the properties is
inductive alone.

| module | theorems | the invariant, and why it is needed | assumptions |
| --- | --- | --- | --- |
| `GietIocProofs` | `TypeCorrect`, `Exclusion`, `OneCall`, `OwnResult`, `FreshCopies`, `StableRegisters`, `Refinement` | a reservation that can still succeed was taken when the lock was free; the phase of device, routine and `_ioc_done` for each point of the lock holder; the registers written so far; the way of the outcome from the device to the return value; the buffer out of the cache since its invalidation | any sets of tasks and processors |
| `GietKernelProofs`, barrier | `TypeCorrect`, `BarrierSafety`, `CounterCorrect`, `Refinement` | a generation number exists such that every task has arrived in it or in the one before, and the counter is the number of tasks minus those arrived; at most one task has found the counter at one | `Phased`: `barrier_wait` is called once every `barrier_init` has returned |
| `GietKernelProofs`, tasks | `CurrentCorrect`, `ContextsCorrect`, `TaskRefinement` | whom `_current_task_array` names at each point of `_ctx_switch`, and that the slots of the others are their own | `OneWay`: timer or calls, not both (`task_both` shows why) |
| `GietKernelProofs`, DMA | `DmaTypeCorrect`, `OneCall`, `CompletedCorrect`, `StableRegisters`, `OwnResult` | as long as two tasks have not passed the test of `_dma_busy` together: one task at a time programs the DMA, `_dma_busy` is clear only when nobody programs it and it is idle, and a transfer that is not over is the one it works on | any tasks, switched between any two accesses; the properties claim nothing once `raced` holds, because then two tasks do program the DMA together |
| `MappingTableProofs` | `AddExact`, `Cacheability`, `Routing`, `Locality`, `Identification` | the segments in the list have the right number of levels, are disjoint where their ends do not wrap, and share no cell of the cacheability table with different attributes; the last call of `add` was answered by the segment that caused it.  Each table is the set of its writes, and a loop that ends visits exactly the cells that hold an address of the segment | any width of addresses, levels, masks and segments that fit into the address space; the properties except the addresses of a segment that ends at the top of it, and tables of which a loop is endless |
| `Arithmetic` | lemmas, `DecrementA`, `DecrementB`, `EqualIsGcd` | natural induction over a set, loops that count, powers of two, quotients; a subtraction keeps the common divisors, and equal registers hold the greatest one | |
| `FifoGcdProofs` | `WordsCorrect`, `DisplayCorrect`, `Refinement` | where the coprocessor is for each state of the master, and that its registers keep the common divisors | any bound on `rand()` |
| `VciPlatformProofs` | `TypeCorrect`, `OneTransactionCorrect`, `NoWriteCorrect`, `DisplayCorrect`, `Refinement` | a relation between a master and its coprocessor that is kept by a cycle without transfer, by a command and by a response; that relation for every pair, and which pair the bus serves | any number of masters, any values of `rand()` |
| `GietTtyProofs` | `InOrder`, `NoOtherLoss` | the ranks taken, the one in the buffer and the one in the controller are different and, unless `mixed`, in this order; only between the copy and the reset of `_tty_read_irq` may the buffer hold what was just taken, and then the flag is still set; printing is a stutter of the keyboard | any characters, bounds and sizes; the controller (external) accepts no key before the last one is read; one reader per terminal |

Only proved, and not repeated by a run: the type invariants of `GietIoc`,
`GietBarrier`, `GietTask`, `GietDma`, `FifoGcd` and `VciPlatform`,
`RegistersStable` of the two drivers, `MutualExclusion` and `TransferIsOneCall` of
`GietIoc`, `NobodyLeavesEarly`, `ContextsAreOwn`, `CurrentIsRunning`,
`OneInitialiser`, `WordsMatch`, and `DisplayedIsGcd` of both platforms.  What the
refinements of the runs already imply is not checked twice.

Only model-checked: all liveness properties (they need fairness and `ENABLED`),
the arbitration of the bus, line editing, conversions and printing, and
everything about SystemC, whose operators are recursive or fold over sequences:
a recursive operator takes a module out of the provers' reach, and what a fold
computes for every sequence would need induction over data.  The loops of
`MappingTable` are recursive functions on numbers, about which `Arithmetic` has
an induction lemma.

## Abstractions

- Shared kernel variables are uncached, an access is one atomic step; the code
  between two accesses touches only locals and belongs to the step.
- A call's arguments are the name of the calling task: that is what tells a
  mixture of two calls from one call.
- `unsigned int` counters wrap at `WordSize` (`GietBarrier`, `GietTty`), smaller
  than 2^32 so that TLC reaches it; the proofs hold for every value.
- `rand()` is any value up to `MaxRand` in `FifoGcd`, and a pair of `Draws` in
  `VciPlatform`; the code adds 1, which at the largest value of an `int` wraps;
  the model's operands do not.
- A call of the block device or DMA driver with a buffer outside the user space
  returns 1 at once and touches no shared state: it is no step of the model.
- A decoding table is built at once from the set of addresses its loops visit:
  the loops write the same cells whatever the order, and throw exactly when two
  writes differ.  The practicals are built with `-m32`, so the sums of addresses
  have the width of an address (`End`): a segment that ends at the top has the
  end 0, `isOverlapping` finds it disjoint from everything and the loops visit
  none of its cells.  For a segment from the first cell to the last one the
  address of the loop wraps before it reaches the end (`Endless`): `add` does not
  return (outcome `"hang"`), and a table that needs the loop is not built
  (`NoTable`).
- The TTY controller holds one character until it is read.  Whether it is busy
  when a character is to be shown is a free choice.
- The two directions of a terminal share no state: a message is printed from
  start to end, before anything is typed.  A read outside a table gives a value
  that is chosen freely, a NUL included where the string is searched for one.
- A SystemC design is an arbitrary program: each call of a process is a free
  choice, `fuel` of them in all.  `sc_main` makes the same calls between two
  `sc_start`, none before the first.
- A wait for one event is a wait for an or-list with one element; the order in
  which the timed events of one instant leave the heap is free.
- Appending to the list of asynchronous updates is one step: it is done under
  its mutex.
- Calls that the library reports as corner cases, and answers with an error,
  are not made: disabling a process that has a timeout, resuming a disabled one.
- A thread that is disabled before the simulation keeps its ready bit, and a
  `resume` makes it runnable later without any event; designs that do both are
  left out.

## Not modelled

- `_tty_config` (two tasks on one terminal) and the echo of the readers; the
  synchronous frame buffer calls (a check and a copy).
- Timer, ICU and GCD drivers: one register access each.
- Dispatch tables and the stack frames of the trap handler.
- The simple platform of TP2 (no bus), TP3 (a netlist of components whose source
  is elsewhere), VCI port and signal declarations, the reports of the other
  practicals.
- SystemC: `reset` and `throw_it`, which unwind the C++ stack of a process;
  spawning during the simulation, descendants, phase callbacks and cthreads;
  the writer policies of signals, resolved signals, `sc_clock`.  The data types
  (integers, fixed point, bit and logic vectors), tracing, reports, TLM and the
  coroutine packages are most of the library's lines: values without
  concurrency, output, or code for the host.

The modules cover nearly all of the state the GIET and the practicals share, and
the core of the SystemC kernel.  They cover a small share of the repository's
lines, because the vendored library is more than nine tenths of them.

## What could come next

1. EPC, SR and the stack frames of `giet.s` under nested traps, to show that the
   trap handler gives `GietTask` the atomic entry and exit it assumes.
2. Shared terminals through `_tty_config`, and runs for the disagreements with
   comments that the properties of the terminal except: numbers out of range
   (`stdio.c:287`), DEL on an empty line (`stdio.c:239`), `%u` and `_itoa_hex`.
3. `MappingTable` composed with the bus and the coprocessors.
4. The driver modules composed with `GietTask`, replacing their abstract switch
   by the real one.
5. SystemC: `sc_clock`, `reset`, and the spawning of processes.

------------------------------ MODULE ScKernel ------------------------------
(***************************************************************************)
(* The simulation kernel of SystemC at work (sc_simcontext.cpp): sc_start, *)
(* the evaluate, update and notify phases of crunch, the time steps of     *)
(* simulate, and any design whose processes call the kernel and the        *)
(* primitive channels.  A process is an arbitrary program: what it calls   *)
(* next is a nondeterministic choice from menu, the set of calls that the  *)
(* design at hand makes, with times from Delays, until it has made fuel of *)
(* them.  sc_main makes the same calls while the simulation is paused.     *)
(*                                                                         *)
(* Besides the fields of ScEvent and ScChannels the record k has           *)
(*   loc      where the kernel is: "new" (elaborated), "paused" (between   *)
(*            two calls of sc_start), "crunch", "time" (the loop that      *)
(*            looks for the next timed notification), "stopped" or         *)
(*            "aborted" (by an sc_assert)                                  *)
(*   until, once, to_time   duration and starvation policy of sc_start     *)
(*   pause, stop   m_paused and m_forced_stop                              *)
(*   pr[p].pc the blocking channel call that p is inside of                *)
(***************************************************************************)
EXTENDS ScChannels

CONSTANTS Designs,      \* sets of [calls, delays, fuel]
          Durations,    \* durations given to sc_start
          Forever       \* stands for the duration of sc_start()

VARIABLES k, fuel, design
vars == <<k, fuel, design>>
menu   == design.calls
Delays == design.delays

(***************************************************************************)
(* prepare_to_simulate: every process that is neither disabled, suspended  *)
(* nor dont_initialize is runnable at first.  early says what elaboration  *)
(* did to it.  Disabling a thread before the simulation marks it as ready, *)
(* and nothing but resume clears the mark: such threads are only in        *)
(* designs that do not call resume, see the README.                        *)
(***************************************************************************)
Early == {"normal", "suspended", "disabled", "reenabled"}

InitialProcess(p, early) ==
  [type |-> "STATIC", on |-> {}, tmo |-> FALSE, count |-> 0, cycles |-> 0,
   timed_out |-> FALSE, zombie |-> FALSE, pc |-> "run",
   suspended |-> early = "suspended", disabled |-> early = "disabled",
   ready |-> \/ early = "suspended"
             \/ early \in {"disabled", "reenabled"} /\ p \in ThreadSet]

InitialKernel(early, keep) ==
  LET Starts(p) == early[p] \in {"normal", "reenabled"} /\ p # FireEvent
      Static(e, l) == SelectSeq(l, LAMBDA p : e \in Sensitive[p])
  IN  [ev |-> [e \in Events |->
                [type |-> "NONE", index |-> 0, time |-> 0,
                 stat |-> [methods |-> Static(e, Methods),
                           threads |-> Static(e, Threads)],
                 dyn  |-> [kd \in Kinds |-> <<>>]]],
       pr |-> [p \in Procs |-> InitialProcess(p, early[p])],
       delta |-> [buf |-> <<>>, size |-> 0],
       push |-> [methods |-> SelectSeq(Methods, Starts),
                 threads |-> SelectSeq(Threads, Starts)],
       pop |-> <<>>, turn |-> "threads", cur |-> NoProc, now |-> 0,
       updates |-> <<>>, async |-> 0, keep |-> keep,
       sig |-> [cur |-> FALSE, new |-> FALSE],
       fifo |-> [buf |-> [i \in 0 .. FifoSize - 1 |-> Empty], ri |-> 0,
                 wi |-> 0, free |-> FifoSize, readable |-> 0, nread |-> 0,
                 nwritten |-> 0],
       sent |-> <<>>, got |-> <<>>, owner |-> NoProc, value |-> 1,
       ppq |-> <<>>, rearmed |-> FALSE,
       loc |-> "new", until |-> 0, once |-> FALSE, to_time |-> FALSE,
       pause |-> FALSE, stop |-> FALSE]

Init ==
  /\ design \in Designs /\ fuel = design.fuel
  /\ \E early \in [Procs -> Early], keep \in BOOLEAN :
       /\ "early" \notin menu => early = [p \in Procs |-> "normal"]
       /\ early[FireEvent] = "normal"
       /\ "resume" \in menu => \A p \in ThreadSet :
            early[p] \in {"normal", "suspended"}
       /\ keep => "async" \in menu
       /\ k = InitialKernel(early, keep)

(***************************************************************************)
(* sc_start, crunch and simulate                                           *)
(***************************************************************************)
Start(d) ==
  /\ k.loc \in {"new", "paused"} /\ fuel > 0
  /\ d # Forever => "start" \in menu
  /\ k' = [k EXCEPT !.loc = "crunch", !.pause = FALSE, !.once = d = 0,
                    !.until = IF d = Forever THEN Forever ELSE k.now + d,
                    !.to_time = d # Forever]
  /\ fuel' = fuel - 1 /\ UNCHANGED design

Kernel(K) == k' = K /\ UNCHANGED <<fuel, design>>

\* The evaluate phase takes the next process from the run queues.
Dispatch ==
  /\ k.loc = "crunch" /\ k.cur = NoProc /\ ~is_empty(k)
  /\ Kernel(pop_runnable(k))

\* The notification loop of crunch runs from the last slot of the buffer to
\* the first, whatever trigger does to the vector meanwhile.
RECURSIVE trigger_deltas(_, _)
trigger_deltas(K, i) ==
  IF i = 0 THEN K ELSE trigger_deltas(trigger(K, K.delta.buf[i]), i - 1)

notify_deltas(K) ==
  [trigger_deltas(K, K.delta.size) EXCEPT !.delta = [buf |-> <<>>, size |-> 0]]

\* No process is runnable: update, notify, and leave crunch or go round, the
\* methods first.
Delta ==
  /\ k.loc = "crunch" /\ k.cur = NoProc /\ is_empty(k)
  /\ LET U == [perform_update(k) EXCEPT !.turn = "threads"]
         N == notify_deltas(U)
     IN  Kernel(IF k.stop THEN [U EXCEPT !.loc = "stopped"]
                ELSE [N EXCEPT !.loc =
                        IF k.pause \/ k.once THEN "paused"
                        ELSE IF is_empty(N) THEN "time" ELSE "crunch"])

Timed(K)     == {e \in Events : K.ev[e].type = "TIMED"}
next_time(K) == CHOOSE t \in {K.ev[e].time : e \in Timed(K)} :
                  \A e \in Timed(K) : t <= K.ev[e].time

\* A notification that an earlier one of the same time cancelled is skipped.
RECURSIVE trigger_timed(_, _, _)
trigger_timed(K, t, l) ==
  IF l = <<>> THEN K
  ELSE trigger_timed(IF K.ev[Head(l)].time = t THEN trigger(K, Head(l)) ELSE K,
                     t, Tail(l))

Orders(S) == {l \in [1 .. Cardinality(S) -> S] : Members(l) = S}

\* sc_start returns; with SC_RUN_TO_TIME the clock moves on to its end.
Return(K) ==
  [K EXCEPT !.loc = "paused",
            !.now = IF K.to_time /\ @ < K.until THEN K.until ELSE @]

\* The next timed notifications are within the duration of sc_start.
TimeStep ==
  /\ k.loc = "time" /\ Timed(k) # {} /\ next_time(k) <= k.until
  /\ LET t == next_time(k)
     IN  \E l \in Orders({e \in Timed(k) : k.ev[e].time = t}) :
           LET M == trigger_timed([k EXCEPT !.now = t], t, l)
           IN  Kernel(IF is_empty(M) THEN M
                      ELSE IF t < k.until THEN [M EXCEPT !.loc = "crunch"]
                      ELSE Return(M))

\* Faulty variant: the timed notifications are not looked at.
TimeUpFirst ==
  /\ k.loc = "time" /\ CanSuspend(k)
  /\ Kernel(IF ~async_suspend(k) /\ k.now < k.until
              THEN [k EXCEPT !.loc = "crunch"] ELSE Return(k))

\* They are not, or there are none.
TimeUp ==
  /\ k.loc = "time"
  /\ IF Timed(k) # {}
       THEN next_time(k) > k.until /\ Kernel(Return(k))
       ELSE /\ CanSuspend(k)
            /\ Kernel(IF ~async_suspend(k) /\ k.now < k.until
                        THEN [k EXCEPT !.loc = "crunch"] ELSE Return(k))

(***************************************************************************)
(* The calls of the running process, or of sc_main while paused            *)
(***************************************************************************)
Calls(op, K) ==
  /\ op \in menu /\ fuel > 0
  /\ IF k.cur = NoProc THEN k.loc = "paused"
     ELSE k.pr[k.cur].pc = "run" /\ k.cur # FireEvent
  /\ k' = K /\ fuel' = fuel - 1 /\ UNCHANGED design

Notify(e)      == Calls("notify", notify(k, e))
NotifyAt(e, d) == Calls("notify_at", notify_at(k, e, d))
Cancel(e)      == Calls("cancel", cancel(k, e))

Lists == {S \in SUBSET UserEvents : S # {}}

\* wait blocks a thread; next_trigger replaces what a method waits for
Wait(type, S, d) ==
  /\ k.cur \in ThreadSet
  /\ Calls("wait", [expect_events(k, k.cur, type, S, d) EXCEPT !.cur = NoProc])

NextTrigger(type, S, d) ==
  /\ k.cur \in MethodSet
  /\ Calls("wait", expect_events(clear_trigger(k, k.cur), k.cur, type, S, d))

Dynamic ==
  \/ \E S \in Lists, type \in {"OR_LIST", "AND_LIST"} :
       /\ Cardinality(S) = 1 => type = "OR_LIST"
       /\ Wait(type, S, -1) \/ NextTrigger(type, S, -1)
  \/ /\ "timeout" \in menu
     /\ \E S \in Lists \cup {{}}, type \in {"OR_LIST", "AND_LIST"}, d \in Delays :
          /\ Cardinality(S) < 2 => type = "OR_LIST"
          /\ Wait(type, S, d) \/ NextTrigger(type, S, d)

WaitCycles(n) ==
  /\ k.cur \in ThreadSet
  /\ Calls("cycles", [k EXCEPT !.pr[k.cur].cycles = n - 1, !.cur = NoProc])

\* A thread waits for its static sensitivity, a method returns.
Finish ==
  /\ k.cur # NoProc
  /\ k.pr[k.cur].pc = IF k.cur = FireEvent THEN "fired" ELSE "run"
  /\ Kernel([k EXCEPT !.pr[k.cur].pc = "run", !.pr[k.cur].cycles = 0,
                      !.cur = NoProc])

\* The function of a thread returns (sc_thread_cor_fn).
Terminate ==
  /\ k.cur \in ThreadSet
  /\ Calls("kill", [disconnect_process(k, k.cur) EXCEPT !.cur = NoProc])

Targets == {p \in Procs \ {FireEvent} : ~k.pr[p].zombie}

Control ==
  \E p \in Targets :
    \/ Calls("suspend", suspend_process(k, p))
    \/ CanResume(k, p) /\ Calls("resume", resume_process(k, p))
    \/ k.loc # "paused" /\ CanDisable(k, p) /\ Calls("disable", disable_process(k, p))
    \/ Calls("enable", enable_process(k, p))
    \/ k.loc # "paused" /\ Calls("kill", kill_process(k, p))

Pause == k.cur # NoProc /\ Calls("pause", [k EXCEPT !.pause = TRUE])
Stop  == k.cur # NoProc /\ Calls("stop", [k EXCEPT !.stop = TRUE])

(***************************************************************************)
(* Channel calls; a blocking call of a thread is a loop around a wait      *)
(***************************************************************************)
Blocking(op, loop, can, e, K) ==
  LET p == k.cur
  IN  /\ p \in ThreadSet
      /\ IF can THEN \/ Calls(op, K)
                     \/ /\ k.pr[p].pc = loop
                        /\ Kernel([K EXCEPT !.pr[p].pc = "run"])
         ELSE LET B == [expect_events(k, p, "OR_LIST", {e}, -1) EXCEPT
                          !.pr[p].pc = loop, !.cur = NoProc]
              IN  Calls(op, B) \/ (k.pr[p].pc = loop /\ Kernel(B))

Write(v) == Calls("signal", sig_write(k, v))

FifoRead  == Blocking("fifo", "reading", num_available(k) # 0, data_written,
                      nb_read(k))
FifoWrite == Blocking("fifo", "writing", num_free(k) # 0, data_read,
                      nb_write(k, Len(k.sent) + 1))
TryFifo   == k.cur # NoProc /\ (\/ Calls("fifo", nb_read(k))
                               \/ Calls("fifo", nb_write(k, Len(k.sent) + 1)))

Lock    == Blocking("mutex", "locking", CanLock(k, k.cur), mutex_free,
                    mutex_take(k, k.cur))
TryLock == k.cur # NoProc /\ Calls("mutex", trylock(k, k.cur))
Unlock  == k.cur # NoProc /\ Calls("mutex", mutex_unlock(k, k.cur))

SemWait == Blocking("semaphore", "taking", k.value > 0, sem_free, sem_take(k))
TryWait == Calls("semaphore", trywait(k))
SemPost == Calls("semaphore", sem_post(k))

QueueNotify(d) == Calls("queue", queue_notify(k, d))
CancelAll      == Calls("cancel_all", cancel_all(k))

\* fire_event aborts when the entry that it takes is not due.
Fire ==
  /\ k.cur = FireEvent /\ k.pr[FireEvent].pc = "run"
  /\ Kernel(IF k.ppq # <<>> /\ Head(k.ppq) # k.now
              THEN [k EXCEPT !.loc = "aborted"]
              ELSE [fire_event(k) EXCEPT !.pr[FireEvent].pc = "fired"])

\* Another host thread asks for an update, whatever the kernel is doing.
AsyncRequest ==
  /\ "async" \in menu /\ fuel > 0 /\ k.loc \notin {"stopped", "aborted"}
  /\ k' = async_request_update(k) /\ fuel' = fuel - 1 /\ UNCHANGED design

\* sc_start runs, and does not sleep in async_suspend.
CanWork == \/ k.loc = "crunch"
           \/ k.loc = "time" /\ (Timed(k) # {} \/ CanSuspend(k))
Idle == ~CanWork /\ UNCHANGED vars

Next ==
  \/ Idle \/ (\E d \in Durations : Start(d))
  \/ Dispatch \/ Delta \/ TimeStep \/ TimeUp
  \/ \E e \in UserEvents : Notify(e) \/ Cancel(e) \/ \E d \in Delays : NotifyAt(e, d)
  \/ Dynamic \/ (\E n \in {2, 3} : WaitCycles(n)) \/ Finish \/ Terminate
  \/ Control \/ Pause \/ Stop
  \/ \E v \in BOOLEAN : Write(v)
  \/ FifoRead \/ FifoWrite \/ TryFifo \/ Lock \/ TryLock \/ Unlock
  \/ SemWait \/ TryWait \/ SemPost
  \/ (\E d \in Delays : QueueNotify(d)) \/ CancelAll \/ Fire \/ AsyncRequest

\* The kernel and the processes are one host thread that sleeps only in
\* async_suspend, and the functions of the processes return or block: weak
\* fairness of the steps that make no new call, its condition written out.
Fairness == []<>~CanWork \/ []<><<fuel' = fuel>>_vars
Spec == Init /\ [][Next]_vars /\ Fairness

-----------------------------------------------------------------------------
Waits(p, e) == p \in Members(k.ev[e].dyn[kind(p)])

\* An event with a delta notification knows its slot of m_delta_events, the
\* slots hold no other event, and a timed notification is in the future:
\* whatever notify, cancel and the end of waits with a timeout did before.
PendingIsQueued ==
  /\ k.delta.size = Cardinality({e \in Events : k.ev[e].type = "DELTA"})
  /\ \A e \in Events :
       /\ k.ev[e].type = "DELTA" => /\ k.ev[e].index \in 1 .. k.delta.size
                                   /\ k.delta.buf[k.ev[e].index] = e
       /\ k.ev[e].type = "TIMED" => k.ev[e].time > k.now

\* A process that waits is in the waiter list of every event that it still
\* waits for, once, m_event_count says how many events an and-list lacks,
\* and its timeout is pending; one that does not wait is in no list.
WaitIsRegistered ==
  \A p \in Procs :
    LET q     == k.pr[p]
        On    == {e \in Events : Waits(p, e)}
        Often == {e \in On : Cardinality({i \in DOMAIN k.ev[e].dyn[kind(p)] :
                                            k.ev[e].dyn[kind(p)][i] = p}) > 1}
        T     == IF q.tmo THEN {timeout(p)} ELSE {}
    IN  /\ Often = {}
        /\ q.tmo <=> k.ev[timeout(p)].type # "NONE"
        /\ CASE q.type = "STATIC"   -> On = {}
             [] q.type = "OR_LIST"  -> On = q.on \cup T
             [] q.type = "AND_LIST" -> /\ On \subseteq q.on \cup T /\ T \subseteq On
                                       /\ Cardinality(On \ T) = q.count
        /\ is_runnable(k, p) => q.type = "STATIC" /\ ~q.suspended

\* What a sc_fifo delivers is what was written, in order: the values read,
\* then the ring from m_ri on, are the values written; and a value is
\* available only from the delta cycle after its write.
FifoInOrder ==
  LET f      == k.fifo
      Stored == [i \in 1 .. FifoSize - f.free |->
                   f.buf[(f.ri + i - 1) % FifoSize]]
  IN  /\ k.got \o Stored = k.sent
      /\ Len(Stored) = num_available(k) + f.nwritten
      /\ num_available(k) >= 0 /\ num_free(k) >= 0

\* A thread that is blocked inside read, write, lock or wait of a channel
\* cannot go on: no wake-up of sc_fifo, sc_mutex or sc_semaphore is lost,
\* unless the thread was disabled meanwhile.
BlockedForCause ==
  \A p \in ThreadSet :
    (k.pr[p].type # "STATIC" /\ k.loc # "stopped" /\ "disable" \notin menu) =>
      CASE k.pr[p].pc = "reading" -> num_available(k) = 0
        [] k.pr[p].pc = "writing" -> num_free(k) = 0
        [] k.pr[p].pc = "locking" -> k.owner # NoProc
        [] k.pr[p].pc = "taking"  -> k.value = 0
        [] k.pr[p].pc = "run"     -> TRUE

\* The earliest entry of a sc_event_queue is notified or its fire_event is
\* due, and no entry is fired at another time (the sc_assert of fire_event),
\* unless cancel_all met a fire_event that was already runnable.
QueueIsArmed ==
  /\ k.ppq # <<>> /\ ~k.rearmed =>
       \/ k.ev[queue_event].type = "TIMED" /\ k.ev[queue_event].time = Head(k.ppq)
       \/ /\ Head(k.ppq) = k.now
          /\ \/ k.ev[queue_event].type = "DELTA" \/ is_runnable(k, FireEvent)
             \/ k.cur = FireEvent /\ k.pr[FireEvent].pc = "run"
  /\ k.loc = "aborted" => k.rearmed

\* sc_start runs; it ends before all is done when it was told to.
Simulates == k.loc \in {"crunch", "time"}
ToldToEnd == \/ k.loc \in {"stopped", "aborted"}
             \/ k.loc = "paused" /\ (k.pause \/ k.to_time)

\* While the simulation runs a pending notification is delivered or
\* cancelled: sc_start() does not return, or go to sleep, before that.
NotificationsHappen ==
  \A e \in UserEvents :
    k.ev[e].type # "NONE" /\ Simulates ~> k.ev[e].type = "NONE" \/ ToldToEnd

\* The update that another host thread requests is performed, also when the
\* kernel is about to return or to sleep in async_suspend.
AsyncIsSeen == k.async > 0 /\ Simulates ~> k.async = 0 \/ ToldToEnd

Service == INSTANCE ScService WITH
  Plain   <- UserEvents \cup ChannelEvents, 
  Timeout <- [p \in Procs |-> timeout(p)], Sens <- Sensitive,
  now  <- k.now, run <- k.cur,
  pend <- [e \in Events |-> CASE k.ev[e].type = "NONE"  -> -1
                              [] k.ev[e].type = "DELTA" -> 0
                              [] k.ev[e].type = "TIMED" -> k.ev[e].time],
  cond <- [p \in Procs |->
             [mode   |-> CASE k.pr[p].type = "STATIC"   -> "static"
                           [] k.pr[p].type = "OR_LIST"  -> "any"
                           [] k.pr[p].type = "AND_LIST" -> "all",
              left   |-> {e \in UserEvents \cup ChannelEvents : Waits(p, e)},
              tmo    |-> Waits(p, timeout(p)),
              cycles |-> k.pr[p].cycles]],
  ready <- {p \in Procs : is_runnable(k, p)},
  susp  <- {p \in Procs : k.pr[p].suspended},
  dis   <- {p \in Procs : k.pr[p].disabled},
  dead  <- {p \in Procs : k.pr[p].zombie},
  latch <- {p \in Procs : k.pr[p].ready},
  due   <- {e \in ChannelEvents : perform_update(k).ev[e].type = "DELTA"}

\* The kernel implements the scheduler of ScService: which processes run, and
\* when, depends only on the notifications and the waits of the design.
ImplementsService == Service!Spec
=============================================================================

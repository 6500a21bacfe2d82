------------------------------ MODULE ScEvent ------------------------------
(***************************************************************************)
(* Events, processes and run queues of the SystemC kernel (sc_event.cpp,   *)
(* sc_process.cpp, sc_method_process.*, sc_thread_process.*,               *)
(* sc_runnable_int.h), as operators on the record K that holds the kernel: *)
(*                                                                         *)
(*   ev[e]   m_notify_type, m_delta_event_index, the time of m_timed, and  *)
(*           the static and dynamic waiter lists (one per process kind)    *)
(*   pr[p]   m_trigger_type, the event or list waited for, whether the     *)
(*           wait has a timeout, m_event_count, m_wait_cycle_n, the bits   *)
(*           of m_state and m_timed_out                                    *)
(*   delta   m_delta_events: its buffer and its size, which pop_back       *)
(*           lowers while the popped element stays in the buffer           *)
(*   push, pop, turn   the run queues: the pop queue holds the processes   *)
(*           of kind turn that the current pass of crunch still dispatches *)
(*   cur     the process that runs, or NoProc                              *)
(*   now     m_curr_time                                                   *)
(*                                                                         *)
(* A wait for one event is a wait for an or-list of one.  A wait for time  *)
(* alone is a wait for an empty or-list with a timeout.                    *)
(***************************************************************************)
EXTENDS Integers, Sequences, FiniteSets

CONSTANTS Methods,      \* the SC_METHOD processes, in order of creation
          Threads,      \* the SC_THREAD processes, in order of creation
          UserEvents,   \* the sc_event objects of the design
          Sensitive,    \* [Procs -> SUBSET UserEvents]: static sensitivity
          NoProc

MethodSet == {Methods[i] : i \in DOMAIN Methods}
ThreadSet == {Threads[i] : i \in DOMAIN Threads}
Procs     == MethodSet \cup ThreadSet
Kinds     == {"methods", "threads"}
kind(p)   == IF p \in MethodSet THEN "methods" ELSE "threads"
other(kd) == IF kd = "methods" THEN "threads" ELSE "methods"

\* m_timeout_event_p: the event every process owns for its timeouts
timeout(p) == <<"timeout", p>>
Timeouts   == {timeout(p) : p \in Procs}

\* The events that the channels of ScChannels own
data_read     == <<"fifo", "read">>
data_written  == <<"fifo", "written">>
mutex_free    == <<"mutex", "free">>
sem_free      == <<"semaphore", "free">>
value_changed == <<"signal", "changed">>
posedge       == <<"signal", "posedge">>
negedge       == <<"signal", "negedge">>
queue_event   == <<"event_queue", "event">>
external      == <<"external", "event">>
ChannelEvents == {data_read, data_written, mutex_free, sem_free,
                  value_changed, posedge, negedge, queue_event, external}
Events == UserEvents \cup ChannelEvents \cup Timeouts

Members(s) == {s[i] : i \in DOMAIN s}

\* l[i] = l[size - 1]; resize(size - 1): how every waiter list is shortened
SwapOut(l, i) ==
  [j \in 1 .. Len(l) - 1 |-> IF j = i THEN l[Len(l)] ELSE l[j]]

Without(l, p) ==
  IF p \in Members(l)
    THEN SwapOut(l, CHOOSE i \in DOMAIN l : l[i] = p) ELSE l

(***************************************************************************)
(* sc_runnable                                                             *)
(***************************************************************************)
is_runnable(K, p) == p \in Members(K.pop) \cup Members(K.push[kind(p)])
is_empty(K) == K.pop = <<>> /\ \A kd \in Kinds : K.push[kd] = <<>>
push_runnable(K, p) == [K EXCEPT !.push[kind(p)] = Append(@, p)]
remove_runnable(K, p) ==
  LET Others(s) == SelectSeq(s, LAMBDA x : x # p)
  IN  [K EXCEPT !.pop = Others(@), !.push[kind(p)] = Others(@)]

\* toggle_methods, toggle_threads and the two pop loops of crunch: the pop
\* queue is emptied, then the other kind's push queue becomes the pop queue
pop_runnable(K) ==
  LET kd == IF K.pop # <<>> THEN K.turn
            ELSE IF K.push[other(K.turn)] # <<>> THEN other(K.turn)
            ELSE K.turn
      q  == IF K.pop # <<>> THEN K.pop ELSE K.push[kd]
  IN  [K EXCEPT !.turn = kd, !.cur = Head(q), !.pop = Tail(q),
                !.push[kd] = IF K.pop # <<>> THEN @ ELSE <<>>]

(***************************************************************************)
(* The pending notification of an event                                    *)
(***************************************************************************)
add_delta_event(K, e) ==
  [K EXCEPT !.ev[e].type = "DELTA", !.ev[e].index = K.delta.size + 1,
            !.delta.buf  = Append(SubSeq(@, 1, K.delta.size), e),
            !.delta.size = @ + 1]

\* Faulty variant: the moved event does not learn its new slot.
remove_delta_eventKeepsIndex(K, e) ==
  [K EXCEPT !.delta.buf[K.ev[e].index] = K.delta.buf[K.delta.size],
            !.delta.size = @ - 1, !.ev[e].index = 0]

\* The last element takes the place of the removed one.
remove_delta_event(K, e) ==
  LET i == K.ev[e].index
      l == K.delta.buf[K.delta.size]
      M == IF i = K.delta.size THEN K
           ELSE [K EXCEPT !.delta.buf[i] = l, !.ev[l].index = i]
  IN  [M EXCEPT !.delta.size = @ - 1, !.ev[e].index = 0]

cancel(K, e) ==
  CASE K.ev[e].type = "DELTA" ->
         [remove_delta_event(K, e) EXCEPT !.ev[e].type = "NONE"]
    [] K.ev[e].type = "TIMED" ->
         [K EXCEPT !.ev[e].type = "NONE", !.ev[e].time = 0]
    [] OTHER -> K

reset(K, e) ==
  [K EXCEPT !.ev[e].type = "NONE", !.ev[e].index = 0, !.ev[e].time = 0,
            !.ev[e].dyn = [kd \in Kinds |-> <<>>]]

add_timed_event(K, e, t) ==
  [K EXCEPT !.ev[e].type = "TIMED", !.ev[e].time = K.now + t]

\* Faulty variant: a timed notification replaces a pending delta notification.
notify_atReplaces(K, e, t) ==
  CASE K.ev[e].type = "DELTA" /\ t = 0 -> K
    [] K.ev[e].type # "DELTA" /\ t = 0 ->
         add_delta_event([K EXCEPT !.ev[e].time = 0], e)
    [] K.ev[e].type = "TIMED" /\ t > 0 /\ K.ev[e].time <= K.now + t -> K
    [] OTHER -> add_timed_event(cancel(K, e), e, t)

\* notify(t): the earlier of the pending notification and the new one stays
notify_at(K, e, t) ==
  CASE K.ev[e].type = "DELTA" -> K
    [] K.ev[e].type # "DELTA" /\ t = 0 ->
         add_delta_event([K EXCEPT !.ev[e].time = 0], e)
    [] K.ev[e].type = "TIMED" /\ t > 0 /\ K.ev[e].time <= K.now + t -> K
    [] OTHER -> add_timed_event(K, e, t)

\* notify_internal and notify_next_delta: for an event with no notification
notify_internal(K, e, t) ==
  IF t = 0 THEN add_delta_event(K, e) ELSE add_timed_event(K, e, t)

(***************************************************************************)
(* Dynamic sensitivity                                                     *)
(***************************************************************************)
add_dynamic(K, p, S) ==
  [K EXCEPT !.ev = [e \in Events |->
     IF e \in S THEN [@[e] EXCEPT !.dyn[kind(p)] = Append(@, p)] ELSE @[e]]]

remove_dynamic(K, p, S) ==
  [K EXCEPT !.ev = [e \in Events |->
     IF e \in S THEN [@[e] EXCEPT !.dyn[kind(p)] = Without(@, p)] ELSE @[e]]]

expect_static(K, p) ==
  [K EXCEPT !.pr[p].type = "STATIC", !.pr[p].on = {}, !.pr[p].tmo = FALSE,
            !.pr[p].count = 0]

remove_dynamic_events(K, p, skip_timeout) ==
  LET M == IF skip_timeout THEN K
           ELSE cancel(remove_dynamic(K, p, {timeout(p)}), timeout(p))
  IN  expect_static(remove_dynamic(M, p, K.pr[p].on), p)

\* The wait and next_trigger overloads: S is the event or the list, d the
\* timeout, or -1 where there is none.
expect_events(K, p, type, S, d) ==
  LET M == IF d < 0 THEN K
           ELSE add_dynamic(notify_internal(K, timeout(p), d), p, {timeout(p)})
  IN  [add_dynamic(M, p, S) EXCEPT
         !.pr[p].type = type, !.pr[p].on = S, !.pr[p].tmo = d >= 0,
         !.pr[p].count = IF type = "AND_LIST" THEN Cardinality(S) ELSE 0]

clear_trigger(K, p) ==
  LET M == IF K.pr[p].tmo
             THEN reset(cancel(K, timeout(p)), timeout(p)) ELSE K
  IN  expect_static(remove_dynamic(M, p, K.pr[p].on), p)

(***************************************************************************)
(* Triggering                                                              *)
(***************************************************************************)
\* What satisfied its wait runs, or is marked when it is suspended.
wake(K, p) ==
  IF K.pr[p].suspended THEN [K EXCEPT !.pr[p].ready = TRUE]
                       ELSE push_runnable(K, p)

trigger_static(K, p) ==
  IF \/ K.pr[p].disabled \/ is_runnable(K, p) \/ K.pr[p].type # "STATIC"
     \/ K.cur = p
    THEN K
  ELSE IF K.pr[p].cycles > 0 THEN [K EXCEPT !.pr[p].cycles = @ - 1]
  ELSE wake(K, p)

\* Faulty variant: the other events of an or-list keep the process.
satisfyLeavesList(K, p, e) ==
  expect_static(IF e # timeout(p) /\ K.pr[p].tmo
                  THEN reset(cancel(K, timeout(p)), timeout(p)) ELSE K, p)

\* The wait of p ends with event e.
satisfy(K, p, e) ==
  LET q == K.pr[p]
      M == IF e # timeout(p) /\ q.tmo
             THEN reset(cancel(K, timeout(p)), timeout(p)) ELSE K
      T == IF e = timeout(p) /\ q.on # {}
             THEN [M EXCEPT !.pr[p].timed_out = TRUE] ELSE M
      R == IF e = timeout(p) \/ q.type = "OR_LIST"
             THEN remove_dynamic(T, p, q.on \ {e}) ELSE T
  IN  expect_static(R, p)

\* The second component says whether p leaves the waiter list of e.
trigger_dynamic(K, p, e) ==
  LET M == [K EXCEPT !.pr[p].timed_out = FALSE]
      q == K.pr[p]
  IN  CASE K.cur = p -> <<M, FALSE>>
        [] K.cur # p /\ is_runnable(K, p) -> <<M, TRUE>>
        [] K.cur # p /\ ~is_runnable(K, p) /\ q.disabled ->
             IF e = timeout(p) THEN <<remove_dynamic_events(M, p, TRUE), TRUE>>
                               ELSE <<M, FALSE>>
        [] OTHER ->
             IF q.type = "STATIC" THEN <<M, TRUE>>
             ELSE IF q.type = "AND_LIST" /\ e # timeout(p) /\ q.count > 1
               THEN <<[M EXCEPT !.pr[p].count = @ - 1], TRUE>>
             ELSE <<wake(satisfy(M, p, e), p), TRUE>>

RECURSIVE trigger_statics(_, _, _)
trigger_statics(K, l, i) ==
  IF i = 0 THEN K ELSE trigger_statics(trigger_static(K, l[i]), l, i - 1)

RECURSIVE trigger_dynamics(_, _, _, _, _)
trigger_dynamics(K, e, kd, l, i) ==
  IF i > Len(l) THEN [K EXCEPT !.ev[e].dyn[kd] = l]
  ELSE LET r == trigger_dynamic(K, l[i], e)
       IN  IF r[2] THEN trigger_dynamics(r[1], e, kd, SwapOut(l, i), i)
                   ELSE trigger_dynamics(r[1], e, kd, l, i + 1)

trigger_kind(K, e, kd) ==
  LET M == trigger_statics(K, K.ev[e].stat[kd], Len(K.ev[e].stat[kd]))
  IN  trigger_dynamics(M, e, kd, M.ev[e].dyn[kd], 1)

trigger(K, e) ==
  LET M == [K EXCEPT !.ev[e].type = "NONE", !.ev[e].index = 0,
                     !.ev[e].time = 0]
  IN  trigger_kind(trigger_kind(M, e, "methods"), e, "threads")

notify(K, e) == trigger(cancel(K, e), e)

(***************************************************************************)
(* Process control, for calls that do not report a corner case error       *)
(***************************************************************************)
suspend_process(K, p) ==
  [remove_runnable(K, p) EXCEPT !.pr[p].suspended = TRUE,
     !.pr[p].ready = @ \/ is_runnable(K, p) \/ K.cur = p,
     !.cur = IF @ = p /\ p \in ThreadSet THEN NoProc ELSE @]

CanResume(K, p) == ~(K.pr[p].disabled /\ K.pr[p].suspended)
resume_process(K, p) ==
  LET M == [K EXCEPT !.pr[p].suspended = FALSE, !.pr[p].ready = FALSE]
      Q == IF is_runnable(M, p) THEN M ELSE push_runnable(M, p)
  IN  CASE ~K.pr[p].ready -> M
        [] K.pr[p].ready /\ p \in ThreadSet ->
             remove_dynamic_events(Q, p, FALSE)
        [] OTHER -> IF is_runnable(M, p) \/ K.cur = p THEN M
                    ELSE remove_dynamic_events(Q, p, FALSE)

CanDisable(K, p) == ~K.pr[p].tmo
disable_process(K, p) == [K EXCEPT !.pr[p].disabled = TRUE]

enable_process(K, p) ==
  LET M == [K EXCEPT !.pr[p].disabled = FALSE]
  IN  IF p \in MethodSet /\ K.pr[p].ready /\ ~K.pr[p].suspended
        THEN LET R == [M EXCEPT !.pr[p].ready = FALSE]
             IN  IF is_runnable(R, p) THEN R ELSE push_runnable(R, p)
        ELSE M

disconnect_process(K, p) ==
  LET M == remove_dynamic_events(K, p, FALSE)
  IN  [M EXCEPT
         !.ev = [e \in Events |->
                   [@[e] EXCEPT !.stat[kind(p)] = Without(@, p)]],
         !.pr[p].zombie = TRUE, !.pr[p].disabled = FALSE,
         !.pr[p].suspended = FALSE, !.pr[p].ready = FALSE]

\* A killed thread is dispatched at once to unwind and gives the processor
\* back; here that is one step.
kill_process(K, p) ==
  IF K.pr[p].zombie THEN K
  ELSE [disconnect_process(remove_runnable(K, p), p) EXCEPT
          !.cur = IF @ = p THEN NoProc ELSE @, !.pr[p].cycles = 0]
=============================================================================

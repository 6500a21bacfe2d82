---------------------------- MODULE ScChannels ----------------------------
(***************************************************************************)
(* The primitive channels of SystemC over the kernel of ScEvent: the       *)
(* update list of sc_prim_channel_registry with the updates requested by   *)
(* other host threads, sc_signal<bool>, sc_fifo, sc_mutex, sc_semaphore    *)
(* and sc_event_queue.  Their state is part of the kernel record K:        *)
(*                                                                         *)
(*   updates   m_update_list_p, the channel that asked last first          *)
(*   async     m_push_queue: requests of host threads, one per token of    *)
(*             m_suspend_semaphore; keep says that a channel is attached   *)
(*   sig       m_cur_val and m_new_val                                     *)
(*   fifo      the ring m_buf with m_ri, m_wi, m_free and the counters of  *)
(*             this delta cycle; sent and got are history                  *)
(*   owner, value, ppq   the mutex, the semaphore, the event queue         *)
(*   rearmed   history: cancel_all met a fire_event that was already due   *)
(***************************************************************************)
EXTENDS ScEvent

CONSTANTS FifoSize,     \* m_size
          FireEvent     \* the method process of the sc_event_queue

Empty == 0              \* T(), what buf_read leaves in the buffer

(***************************************************************************)
(* sc_prim_channel                                                         *)
(***************************************************************************)
request_update(K, c) ==
  IF c \in Members(K.updates) THEN K
  ELSE [K EXCEPT !.updates = <<c>> \o @]

\* append: called by any host thread, at any time
async_request_update(K) == [K EXCEPT !.async = @ + 1]

accept_updates(K) ==
  IF K.async = 0 THEN K
  ELSE [request_update(K, "external") EXCEPT !.async = 0]

\* async_suspend: blocks while a channel is attached and nothing is pending
CanSuspend(K)    == ~K.keep \/ K.async > 0
\* Faulty variant: with no channel attached the pending requests are not looked at.
async_suspendUnattached(K) == ~K.keep \/ K.async = 0
async_suspend(K) == K.async = 0

(***************************************************************************)
(* sc_signal<bool>, with both edge events and the change event in use      *)
(***************************************************************************)
sig_write(K, v) ==
  LET M == [K EXCEPT !.sig.new = v]
  IN  IF K.sig.new = v THEN M ELSE request_update(M, "signal")

sig_update(K) ==
  IF K.sig.new = K.sig.cur THEN K
  ELSE LET M == notify_internal([K EXCEPT !.sig.cur = K.sig.new],
                                value_changed, 0)
       IN  notify_internal(M, IF K.sig.new THEN posedge ELSE negedge, 0)

(***************************************************************************)
(* sc_fifo                                                                 *)
(***************************************************************************)
num_available(K) == K.fifo.readable - K.fifo.nread
num_free(K)      == FifoSize - K.fifo.readable - K.fifo.nwritten

nb_read(K) ==
  IF num_available(K) = 0 \/ K.fifo.free = FifoSize THEN K
  ELSE request_update(
         [K EXCEPT !.got = Append(@, K.fifo.buf[K.fifo.ri]),
                   !.fifo.buf[K.fifo.ri] = Empty,
                   !.fifo.ri = (@ + 1) % FifoSize, !.fifo.free = @ + 1,
                   !.fifo.nread = @ + 1], "fifo")

nb_write(K, v) ==
  IF num_free(K) = 0 \/ K.fifo.free = 0 THEN K
  ELSE request_update(
         [K EXCEPT !.sent = Append(@, v), !.fifo.buf[K.fifo.wi] = v,
                   !.fifo.wi = (@ + 1) % FifoSize, !.fifo.free = @ - 1,
                   !.fifo.nwritten = @ + 1], "fifo")

\* Faulty variant: the reads of the delta cycle are counted again in the next one.
fifo_updateKeepsRead(K) ==
  LET R == IF K.fifo.nread > 0 THEN notify_at(K, data_read, 0) ELSE K
      W == IF K.fifo.nwritten > 0 THEN notify_at(R, data_written, 0) ELSE R
  IN  [W EXCEPT !.fifo.readable = FifoSize - K.fifo.free, !.fifo.nwritten = 0]

\* Faulty variant: readers are woken only when the fifo was empty.
fifo_updateWhenEmpty(K) ==
  LET R == IF K.fifo.nread > 0 THEN notify_at(K, data_read, 0) ELSE K
      W == IF K.fifo.nwritten > 0 /\ K.fifo.readable = 0
             THEN notify_at(R, data_written, 0) ELSE R
  IN  [W EXCEPT !.fifo.readable = FifoSize - K.fifo.free,
                !.fifo.nread = 0, !.fifo.nwritten = 0]

fifo_update(K) ==
  LET R == IF K.fifo.nread > 0 THEN notify_at(K, data_read, 0) ELSE K
      W == IF K.fifo.nwritten > 0 THEN notify_at(R, data_written, 0) ELSE R
  IN  [W EXCEPT !.fifo.readable = FifoSize - K.fifo.free,
                !.fifo.nread = 0, !.fifo.nwritten = 0]

(***************************************************************************)
(* sc_prim_channel_registry::perform_update                                *)
(***************************************************************************)
update(K, c) ==
  CASE c = "signal"   -> sig_update(K)
    [] c = "fifo"     -> fifo_update(K)
    [] c = "external" -> notify_at(K, external, 0)

RECURSIVE update_all(_, _)
update_all(K, l) ==
  IF l = <<>> THEN K ELSE update_all(update(K, Head(l)), Tail(l))

perform_update(K) ==
  LET M == accept_updates(K)
  IN  update_all([M EXCEPT !.updates = <<>>], M.updates)

(***************************************************************************)
(* sc_mutex and sc_semaphore: unlock and post notify at once               *)
(***************************************************************************)
CanLock(K, p)    == K.owner \in {NoProc, p}
mutex_take(K, p) == [K EXCEPT !.owner = p]
trylock(K, p)    == IF CanLock(K, p) THEN mutex_take(K, p) ELSE K

mutex_unlock(K, p) ==
  IF K.owner # p THEN K ELSE notify([K EXCEPT !.owner = NoProc], mutex_free)

sem_take(K) == [K EXCEPT !.value = @ - 1]
trywait(K)  == IF K.value > 0 THEN sem_take(K) ELSE K
sem_post(K) == notify([K EXCEPT !.value = @ + 1], sem_free)

(***************************************************************************)
(* sc_event_queue: ppq holds the times, earliest first                     *)
(***************************************************************************)
insert(q, t) ==
  SelectSeq(q, LAMBDA x : x <= t) \o <<t>> \o SelectSeq(q, LAMBDA x : x > t)

\* Faulty variant: only the first entry notifies the event.
queue_notifyWhenEmpty(K, t) ==
  LET M == IF K.ppq = <<>> THEN notify_at(K, queue_event, t) ELSE K
  IN  [M EXCEPT !.ppq = insert(@, K.now + t)]

queue_notify(K, t) ==
  LET M == IF K.ppq = <<>> \/ K.now + t < Head(K.ppq)
             THEN notify_at(K, queue_event, t) ELSE K
  IN  [M EXCEPT !.ppq = insert(@, K.now + t)]

cancel_all(K) ==
  [cancel(K, queue_event) EXCEPT !.ppq = <<>>,
     !.rearmed = @ \/ is_runnable(K, FireEvent)]

fire_event(K) ==
  LET M == [K EXCEPT !.ppq = Tail(@)]
  IN  IF K.ppq = <<>> THEN [K EXCEPT !.rearmed = FALSE]
      ELSE IF M.ppq = <<>> THEN [M EXCEPT !.rearmed = FALSE]
      ELSE [notify_at(M, queue_event, Head(M.ppq) - K.now) EXCEPT
              !.rearmed = FALSE]
=============================================================================

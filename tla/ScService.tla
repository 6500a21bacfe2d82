----------------------------- MODULE ScService -----------------------------
(***************************************************************************)
(* What the SystemC scheduler promises to the processes of a design,       *)
(* without its lists, arrays, counters and bits: an event has at most one  *)
(* pending notification, a process has one condition that it waits for,    *)
(* and delivering a set of events makes ready exactly the processes whose  *)
(* condition the set satisfies, in no particular order.                    *)
(*                                                                         *)
(*   pend[e]  None, 0 for the next delta cycle, or an absolute time        *)
(*   cond[p]  mode "static": cycles more static events are to be skipped;  *)
(*            "any" or "all" of left, or the timeout when tmo              *)
(*   ready    runnable processes; run the running one                      *)
(*   susp, dis, dead   suspended, disabled and terminated processes        *)
(*   latch    processes that will be ready when they are resumed           *)
(***************************************************************************)
EXTENDS Integers, FiniteSets

CONSTANTS Procs, Plain, Timeout, Sens, NoProc

None   == -1
AllEv  == Plain \cup {Timeout[p] : p \in Procs}
Static(n) == [mode |-> "static", left |-> {}, tmo |-> FALSE, cycles |-> n]

VARIABLES now, pend, cond, ready, run, susp, dis, dead, latch,
          due   \* what the next update phase of the channels will notify

vars  == <<now, pend, cond, ready, run, susp, dis, dead, latch>>
sched == <<ready, run, susp, dis, dead, latch>>

\* How many static events of E, and of those delivered twice, p hears
Heard(p, E, again) == Cardinality(Sens[p] \cap E) + Cardinality(Sens[p] \cap again)

Satisfied(p, E, again) ==
  \/ cond[p].tmo /\ Timeout[p] \in E
  \/ cond[p].mode = "any" /\ cond[p].left \cap E # {}
  \/ cond[p].mode = "all" /\ cond[p].left \subseteq E
  \/ cond[p].mode = "static" /\ Heard(p, E, again) > cond[p].cycles

\* The events of E reach the processes, those of again a second time; rest
\* is what else is pending.
Deliver(E, again, rest) ==
  LET Deaf     == dead \cup ready \cup {run}
      Woken    == {p \in Procs \ (Deaf \cup dis) : Satisfied(p, E, again)}
      Waiting  == Procs \ (Deaf \cup dis \cup Woken)
      \* a timeout that expires while its process is disabled only ends the wait
      Expired  == {p \in dis \ Deaf : cond[p].tmo /\ Timeout[p] \in E}
      Ended    == E \cup {Timeout[p] : p \in Woken}
  IN  /\ ready' = ready \cup (Woken \ susp)
      /\ latch' = latch \cup (Woken \cap susp)
      /\ pend' = [e \in AllEv |-> IF e \in Ended THEN None ELSE rest[e]]
      /\ cond' = [p \in Procs |->
           CASE p \in Woken -> Static(0)
             [] p \in Expired -> Static(cond[p].cycles)
             [] p \in Waiting /\ cond[p].mode = "all" ->
                  [cond[p] EXCEPT !.left = @ \ E]
             [] p \in Waiting /\ cond[p].mode = "static" ->
                  Static(cond[p].cycles - Heard(p, E, again))
             [] OTHER -> cond[p]]

\* Immediate notification
Notify(e) ==
  UNCHANGED <<now, run, susp, dis, dead>> /\ Deliver({e}, {}, pend)

\* The earlier of two notifications stays.
NotifyAt(e, d) ==
  /\ UNCHANGED <<run, now>>
  /\ pend' = [pend EXCEPT ![e] =
       IF d = 0 THEN 0 ELSE IF @ = None \/ @ > now + d THEN now + d ELSE @]
  /\ UNCHANGED <<cond, ready, susp, dis, dead, latch>>

Cancel(e) ==
  /\ UNCHANGED <<run, now>>
  /\ pend' = [pend EXCEPT ![e] = None]
  /\ UNCHANGED <<cond, ready, susp, dis, dead, latch>>

Run(p) ==
  /\ run = NoProc /\ run' = p
  /\ p \in ready /\ ready' = ready \ {p}
  /\ UNCHANGED <<now, pend, cond, susp, dis, dead, latch>>

\* The running process chooses what to wait for; a thread also blocks.
Expect(c, d) ==
  /\ run # NoProc
  /\ cond' = [cond EXCEPT ![run] = c]
  /\ pend' = [pend EXCEPT ![Timeout[run]] =
       IF ~c.tmo THEN None ELSE IF d = 0 THEN 0 ELSE now + d]
  /\ run' \in {run, NoProc}
  /\ UNCHANGED <<now, ready, susp, dis, dead, latch>>

Leave == run' = NoProc /\ UNCHANGED <<now, pend, cond, ready, susp, dis, dead, latch>>

Suspend(p) ==
  /\ susp' = susp \cup {p} /\ ready' = ready \ {p}
  /\ latch' = IF p \in ready \cup {run} THEN latch \cup {p} ELSE latch
  /\ run' \in {run} \cup ({NoProc} \cap IF run = p THEN {NoProc} ELSE {})
  /\ UNCHANGED <<now, pend, cond, dis, dead>>

\* A latched process forgets what it waited for and is ready.
Resume(p) ==
  /\ susp' = susp \ {p} /\ latch' = latch \ {p}
  /\ IF p \in latch /\ run # p
       THEN /\ ready' = ready \cup {p}
            /\ cond' = [cond EXCEPT ![p] = Static(@.cycles)]
            /\ pend' = [pend EXCEPT ![Timeout[p]] = None]
       ELSE UNCHANGED <<ready, cond, pend>>
  /\ UNCHANGED <<now, run, dis, dead>>

Disable(p) == dis' = dis \cup {p}
  /\ UNCHANGED <<now, pend, cond, ready, run, susp, dead, latch>>
Enable(p) == dis' = dis \ {p}
  /\ UNCHANGED <<now, pend, cond, ready, run, susp, dead, latch>>

\* A terminated process waits for nothing and is never ready again.
Die(p) ==
  /\ dead' = dead \cup {p} /\ ready' = ready \ {p}
  /\ run' = IF run = p THEN NoProc ELSE run
  /\ cond' = [cond EXCEPT ![p] = Static(0)]
  /\ pend' = [pend EXCEPT ![Timeout[p]] = None]
  /\ susp' = susp \ {p} /\ dis' = dis \ {p} /\ latch' = latch \ {p}
  /\ UNCHANGED now

\* A process that both its event and its zero timeout are due for
Raced(E) == {p \in Procs : Timeout[p] \in E /\ cond[p].left \cap E # {}}

\* When nothing is ready the delta notifications, and those that the update
\* phase of the channels adds, are delivered together, each of them once
\* unless a zero timeout is cancelled in the course of it.
Delta ==
  /\ run = NoProc /\ ready = {} /\ due' = {}
  /\ LET E == {e \in AllEv : pend[e] = 0} \cup due
     IN  \E again \in IF Raced(E) = {} THEN {{}} ELSE SUBSET (E \cap Plain) :
           Deliver(E, again, pend)
  /\ UNCHANGED <<now, run, susp, dis, dead>>

\* sc_stop ends the simulation after an update phase.
Halt ==
  /\ run = NoProc /\ ready = {} /\ due' = {}
  /\ pend' = [e \in AllEv |-> IF e \in due THEN 0 ELSE pend[e]]
  /\ UNCHANGED <<now, cond>> /\ UNCHANGED sched

\* Time advances only when nothing else is left, to the next
\* notification.
Advance ==
  /\ run = NoProc /\ ready = {}
  /\ \A e \in AllEv : pend[e] # 0
  /\ now' > now /\ \A e \in AllEv : pend[e] = None \/ pend[e] >= now'
  /\ Deliver({e \in AllEv : pend[e] = now'}, {}, pend)
  /\ UNCHANGED <<run, susp, dis, dead>>

Next ==
  \/ Leave \/ (\E p \in Procs : Run(p))
  \/ Delta \/ Halt \/ Advance
  \/ run # NoProc /\ \E d \in 0 .. 2 : Expect(cond'[run], d)
  \/ \E e \in Plain : Cancel(e) \/ (\E d \in 0 .. 2 : NotifyAt(e, d)) \/ Notify(e)
  \/ \E p \in Procs : Suspend(p) \/ Resume(p) \/ Disable(p) \/ Enable(p) \/ Die(p)

Init ==
  /\ now = 0 /\ run = NoProc /\ dead = {}
  /\ pend = [e \in AllEv |-> None]
  /\ cond = [p \in Procs |-> Static(0)]
  /\ due = {} /\ ready \cap (dis \cup susp) = {}

Spec == Init /\ [][Next]_vars
=============================================================================

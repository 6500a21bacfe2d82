----------------------------- MODULE MCScKernel -----------------------------
(***************************************************************************)
(* Instances of ScKernel for TLC: a method, the method of an event queue   *)
(* and two threads, on two events.                                         *)
(***************************************************************************)
EXTENDS ScKernel

CONSTANTS m, fire, t1, t2, a, b

MCMethods   == <<m, fire>>
MCThreads   == <<t1, t2>>
MCSensitive == [p \in {m, fire, t1, t2} |->
                  CASE p = m    -> {a, posedge, queue_event}
                    [] p = fire -> {queue_event}
                    [] p = t1   -> {a, b}
                    [] p = t2   -> {b, value_changed, external}]
D(calls, delays, fuel_) == [calls |-> calls, delays |-> delays, fuel |-> fuel_]
MCDesigns ==
  { D({"notify", "notify_at", "cancel", "wait"},           {0, 1, 2}, 4),
    D({"notify", "notify_at", "wait", "timeout"},          {0, 1},    3),
    D({"notify_at", "wait", "timeout", "cycles"},          {0},       5),
    D({"notify", "suspend", "resume", "wait", "timeout"},  {1},       4),
    D({"notify", "disable", "enable", "wait"},             {0},       4),
    D({"notify", "kill", "wait", "cycles"},                {0},       4),
    D({"notify_at", "start", "pause", "stop"},             {0, 1, 2}, 4),
    D({"notify", "early", "suspend", "resume", "enable"},  {0},       3),
    D({"notify", "early", "enable"},                       {0},       3),
    D({"fifo"},                                            {0},       7),
    D({"fifo", "suspend", "resume"},                       {0},       5),
    D({"mutex", "kill"},                                   {0},       6),
    D({"semaphore", "suspend", "resume"},                  {0},       6),
    D({"queue", "cancel_all"},                             {0, 1, 2}, 5),
    D({"async", "start", "signal"},                        {0},       5) }
=============================================================================

CONSTANTS
  m = m
  fire = fire
  t1 = t1
  t2 = t2
  a = a
  b = b
  NoProc = NoProc
  Methods <- MCMethods
  Threads <- MCThreads
  UserEvents = {a, b}
  Sensitive <- MCSensitive
  FifoSize = 2
  FireEvent = fire
  Designs <- MCDesigns
  Durations = {0, 1, 2, 99}
  Forever = 99
SPECIFICATION Spec
INVARIANTS
  PendingIsQueued
  WaitIsRegistered
  FifoInOrder
  BlockedForCause
  QueueIsArmed
PROPERTIES
  ImplementsService
  NotificationsHappen
  AsyncIsSeen


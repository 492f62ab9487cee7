\* Two threads wait, with timers; one is aborted; several processors.
SPECIFICATION Spec
CONSTANTS
  NO_EVENT = NO_EVENT
  WAKING_EVENT = WAKING_EVENT
  TimerHead = timer_head
  Threads = {t1, t2}
  Wakers = {w1}
  Soft = softclock_thread
  Clock = clock
  Events = {e1}
  t1 = t1
  t2 = t2
  Intervals <- MCIntervals
  MP = TRUE
  Sync = {t2}
  Stealth = {t2}
  Aborted = {t2}
  MaxTicks = 1
INVARIANTS QueuesAndTimersAgree EndsForItsReason OfferIsCarried 
CHECK_DEADLOCK FALSE

SPECIFICATION FairSpec
CONSTANTS
  Api = {a1, a2}
  Timers = {t1, t2, t3}
  NoCaller = NoCaller
  MaxFailures = 1
INVARIANTS
  TypeOK
  OneTimer
  TimerAlive
  NoLostWakeup
PROPERTY
  EventuallySeen

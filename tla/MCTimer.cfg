\* Two timers with periods 0 to 2 over five microseconds, two callbacks a tick.
SPECIFICATION TimerSpec
CONSTANTS
  t1 = t1
  t2 = t2
  Timers = {t1, t2}
  NoTimer = NoTimer
  Delays = {0, 1, 2}
  MaxCallbacks = 2
  MaxNow = 5
SYMMETRY Symmetry
INVARIANTS
  NoBurst
  PhaseKept
PROPERTY
  OnlyLiveTimersFire

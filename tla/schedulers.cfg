SPECIFICATION SSpec
CONSTANTS
  Timers = {1, 2}
  AtEvents = {3, 4, 5, 6, 7, 8, 9, 10, 11}
  Kept = {4, 9}
  Delays = {0, 5}
  Preloads <- MCPreloads
  Ticks = {0, 8}
  MaxTime = 36
  MaxUid = 11
  SKeys = 64
  AdjustWidth = TRUE
INVARIANTS
  SameOrder
  CalendarExact
  TimersMatchQueue
  NoInternalAbort
CHECK_DEADLOCK FALSE

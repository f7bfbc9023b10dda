\* Nothing has to be spawned, children need not end, and a wakeup that was given to a
\* cancelled task may leave the others blocked.
SPECIFICATION SuiteSpec
CONSTANTS
  Interrupts = {tick, key, bad}
  Raising = {bad}
  CAP = 4
  DRAIN_MAX = 2
  MaxIrqs = 5
  MaxPid = 3
  setter = setter
  spinner = spinner
INVARIANTS Accounting TimersOnTime WokenOnce TableMatchesTasks PrimitivesSound NobodyStranded
PROPERTIES RingIsFifo Handled TimersRun AwaitsEnd
CHECK_DEADLOCK FALSE

SPECIFICATION SuiteSpec
CONSTANTS None = None
          TX_PERIODS = 2
          IndexMod = 3
          PreBuffer = 2
          MaxStreams = 2
          MaxPeriods = 3
INVARIANT FocusKept
CHECK_DEADLOCK FALSE

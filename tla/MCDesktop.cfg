\* The bounds on windows, launches, frames and periods can be used up.
SPECIFICATION SuiteSpec
CONSTANTS None = None
          TX_PERIODS = 2
          IndexMod = 3
          PreBuffer = 2
          MaxStreams = 2
          MaxPeriods = 3
INVARIANTS DesktopSound CallsWhole SoundKept LineSound InputKept BindingsSound ShellSound
PROPERTY DraftKept
CHECK_DEADLOCK FALSE

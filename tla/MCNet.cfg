\* The parts end when their bounds are used up.
SPECIFICATION SuiteSpec
CONSTANTS NULL = NULL
          Senders = {s1, s2, s3}
          s1 = s1
          s2 = s2
          s3 = s3
          MaxPolls = 1
          M = 8
          Bytes = 2
          Connections = 1
          Isn = {0, 6}
          Retransmits = 0
          FinWithData = FALSE
          Timeouts = 1
          Sends = 1
          Awaits = FALSE
          CardFull = TRUE
INVARIANTS DriversSound StreamInOrder AckNext SegmentsRight PendingWaits
PROPERTY TrafficEnds
CHECK_DEADLOCK FALSE

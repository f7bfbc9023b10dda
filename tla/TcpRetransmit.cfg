\* The system may stop: the peer's connections are bounded.
SPECIFICATION TcpSpec
CONSTANTS
  M = 8
  Bytes = 2
  Connections = 1
  Isn = {0, 6}
  Retransmits = 1
  FinWithData = FALSE
  Timeouts = 1
  Sends = 1
  Awaits = TRUE
  CardFull = TRUE
INVARIANT StreamIsPrefix
CHECK_DEADLOCK FALSE

SPECIFICATION WorkerFairSpec
CONSTANTS
  APs = {1}
  Callers = {c1, c2}
  Jobs = {c1, c2}
  NULL = NULL
  Arch = "arm64"
  SEQS = 5
PROPERTY JoinReturns

SPECIFICATION Spec
CONSTANTS
  Readers = {}
  Writers = {w1, w2, w3}
  _sectors_per_block = 2
  Errors = FALSE
  MaxUpdates = 4
INVARIANT NoLostUpdate
CHECK_DEADLOCK FALSE

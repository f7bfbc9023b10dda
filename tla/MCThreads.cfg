\* Callers may all wait in joins that do not return.
SPECIFICATION SuiteSpec
CONSTANTS
  KTHREAD_MAX = 4
  MaxIncarnations = 2
  Waiters = {w1, w2}
  Posters = {p1, p2}
  SEQS = 4
  MaxPosts = 3
  NULL = NULL
  Cs = {c1, c2}
INVARIANTS TableSound SyncSafe BringUpSound
PROPERTIES BoundedBypass JobRuns WaiterReturns
CHECK_DEADLOCK FALSE

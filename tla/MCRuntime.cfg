\* Orders 5 to 8: eight smallest blocks.  The sizes are the largest that fit a
\* block of order 5, the smallest of order 7, and the largest there is.  The bounds
\* on spaces, regions and threads can be used up.
SPECIFICATION SuiteSpec
CONSTANTS
  MIN_ORDER = 5
  MAX_ORDER = 8
  HEADER_SIZE = 24
  Sizes = {0, 8, 41, 232}
  Alignments = {64}
  Junk = {5, 6}
  Threads = {t1, t2}
  APs = {1, 2}
  Callers = {c1, c2}
  Jobs = {c1, c2, 1, 2}
  Records = {1, 2}
  MAX_THREAD_SLOTS = 4
  MaxCreates = 2
  NULL = NULL
  Arch = "x86"
  SEQS = 3
SYMMETRY ThreadSymmetry
INVARIANTS HeapKept FramesOnce JobsKept RecordsSound
CHECK_DEADLOCK FALSE

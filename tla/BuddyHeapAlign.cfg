SPECIFICATION Spec
CONSTANTS
  MIN_ORDER = 5
  MAX_ORDER = 8
  HEADER_SIZE = 24
  Sizes = {8, 41}
  Alignments = {8, 16, 32}
  Junk = {5}
  Threads = {t1}
INVARIANT AlreadyAligned

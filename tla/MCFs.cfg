\* The parts end when their bounds are used up.
SPECIFICATION SuiteSpec
CONSTANTS
  NB = 8
  NI = 3
  NDIR = 1
  PPB = 1
  DirCap = 3
  Names = {"a", "b"}
  MaxOps = 4
  MaxCrashes = 1
  MaxSize = 3
  BS = 14
  _dirent_size <- RecordSizes
  w1 = w1
  w2 = w2
  w3 = w3
  rd1 = rd1
  rd2 = rd2
  t1 = t1
  t2 = t2
INVARIANTS DiskSound CacheConsistent VfsSound EdSound EdwinSound
PROPERTY UndoTakesBack
CHECK_DEADLOCK FALSE

CONSTANTS
  Handle = {own, barrier, reader}
  Path = {p1, p2}
  Secret = {s1, s2}
  Plain = plain
  NoFile = nofile
  NoHandle = nohandle
  MaxFault = 2
SPECIFICATION FairSpec
INVARIANTS NothingLearnedReadable PartialErasureIsMarked
PROPERTIES NoWriteAfterLatch ErasureFinishes

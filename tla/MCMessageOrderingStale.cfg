SPECIFICATION OrderingSpec
CONSTANTS
  MessageIDs = {m1, m2, m3}
  NoID = NoID
  PartitionKeys = {k1, k2}
  MaxSeq = 3
  WindowSize = 2
  Durations = {0, 1}
SYMMETRY Symmetric
INVARIANT RemembersTheWindow

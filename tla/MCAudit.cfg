SPECIFICATION MCSpec
CONSTANTS
  Scopes = {s1, s2}
  Writers = {w1, w2}
  EventIds = {1, 2, 3}
  Times = {1, 2}
  Checkpointers = {c1, c2}
  max_leaves = 1
  MaxFaults = 1
  None = None
  MaxLeaves = 9
INVARIANTS
  ChainVerifies
  CheckpointsSound
  ProofsExact
PROPERTIES
  EventuallyCheckpointed

CONSTANTS
  w1 = w1  w2 = w2
  j1 = j1  j2 = j2
  Faction = {1, 2, 3}
  Region = {1}
  Route = {1}
  Interval <- MCInterval
  ChunkSize <- MCChunkSize
  Wake = {w1, w2}
  KindsOf <- MCKindsOf
  Judgment = {j1}
  Calendar = {6}
  Horizon = 8
  MaxChanges = 2
SPECIFICATION FrontierSpec
INVARIANTS
  NothingLeftBehind
  EveryOwnerOncePerDate
CHECK_DEADLOCK FALSE

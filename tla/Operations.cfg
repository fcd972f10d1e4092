CONSTANTS
  c1 = c1  c2 = c2
  r1 = r1  r2 = r2
  meta = meta  a = a
  x1 = x1  x2 = x2  x3 = x3  p = p  v = v
  Command = {c1, c2}
  Request = {r1, r2}
  RequestOf <- MCRequestOf
  Base <- MCBase
  Path = {meta, a}
  Meta = meta
  Writes <- MCWrites
  Release = {rel}
  Initial = Initial
  None = None
  MaxCrashes = 1
  MaxFaults = 1
  TornTemp = FALSE
  CallId = {x1, x3, p, v}
  CommandOf <- MCCommandOf
  KindOf <- MCKindOf
  NoPlan = NoPlan
SPECIFICATION OperationsSpec
INVARIANTS
  ReadsAreCommitted
PROPERTIES
  CommitsWhatWasPlanned
CHECK_DEADLOCK FALSE

CONSTANTS
  c1 = c1  c2 = c2  c3 = c3
  r1 = r1  r2 = r2
  meta = meta  a = a  b = b
  Command = {c1, c2, c3}
  Request = {r1, r2}
  RequestOf <- MCRequestOf
  Base <- MCBase
  Path = {meta, a, b}
  Meta = meta
  Writes <- MCWrites
  Release = {rel}
  Initial = Initial
  None = None
  MaxCrashes = 2
  MaxFaults = 1
  TornTemp = TRUE
SPECIFICATION Spec
INVARIANTS
  ExactlyOnce
  AcknowledgedDurable
  NoStaleOwner
  IInv
PROPERTIES
  NegativeAnswersAreTrue
  RemoteOnlyExtended
  ImplementsLedger
CHECK_DEADLOCK FALSE

CONSTANTS
  c1 = c1  c2 = c2
  Command <- MCCommand
  Release = {rel}
  good = good  bad = bad
  Rebaseline <- MCRebaseline
  Replacement = {h}
  Genesis = Genesis
  Foreign = Foreign
  Certified <- MCCertified
  MaxRevision = 2
  MaxCrashes = 1
  MaxFaults = 1
SYMMETRY MCSymmetry
SPECIFICATION BootstrapSpec
INVARIANTS
  ServedBaselineIsCertified
  ReceiptsOfTheBaseline
PROPERTIES
  RevisionMovesForward
CHECK_DEADLOCK FALSE

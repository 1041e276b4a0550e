SPECIFICATION FairSpec
CONSTANTS
  c1 = c1
  c2 = c2
  Caller <- OneCaller
  Text <- Texts
  Words = 2
  Base = 2
  Sides = 2
  Lba <- Addresses
  Capacity <- Capacities
  Kinds <- Connected
  Blank <- Empty
  Junk = "junk"
  Nothing = Nothing
  Failed = Failed
  LateErrors = FALSE
PROPERTIES ImplementsSectors CallReturns

SPECIFICATION Spec
CONSTANTS
  c1 = c1
  c2 = c2
  Caller <- TwoCallers
  Regions <- Map
  PageSize = 4
  KernelStart = 12
  KernelEnd = 15
  PerByte = 4
  Index <- OneIndex
  Shared = FALSE
  Preempt <- Nowhere
  Live = 2
INVARIANTS FramesExclusive FramesAccounted

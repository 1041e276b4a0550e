SPECIFICATION Spec
CONSTANTS
  t1 = t1
  t2 = t2
  Thread <- TwoThreads
  Entries = 8
  KernelDirectory = 1
  FirstTable = 2
  Pool <- LowPool
  Data <- DataFrames
  KernelSpace = 24
  MapInput <- MapCalls
  UnmapInput <- UnmapCalls
  MaxSpaces = 2
  Preempt <- Tolerated
SYMMETRY Alike
INVARIANTS LookupsAgree NoStaleTranslation
PROPERTIES ImplementsMappings

SPECIFICATION Spec
CONSTANTS
  n1 = n1
  n2 = n2
  Name <- TwoNames
  Bytes <- Text
  TotalClusters = 4
  ClusterSize = 2
  Zero <- End
  Faults <- Careful
  MaxFaults = 1
SYMMETRY Alike
INVARIANTS EntriesOwn
PROPERTIES OneNodeAtATime NothingVanishes

SPECIFICATION Spec
CONSTANTS
  n1 = n1
  n2 = n2
  Name <- TwoNames
  Text <- Texts
  Added <- Additions
  TotalClusters = 3
  ClusterSize = 2
  Zero = Zero
  MaxSize = 3
  Absent = Absent
  Unknown = Unknown
  Calls <- Copies
  Faults <- NoFaults
  MaxFaults = 0
  Accountable = TRUE
INVARIANT ReadsBack

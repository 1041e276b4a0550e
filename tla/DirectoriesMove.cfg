SPECIFICATION Spec
CONSTANTS
  MaxComponents = 2
  Name <- Names
  Stored <- Forms
  Rejected = "rejected"
  TotalClusters = 4
  ClusterSize = 3
  Input <- MoveInto
PROPERTY MovesWhereTold

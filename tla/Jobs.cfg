SPECIFICATION FairSpec
CONSTANTS
  Nodes = {n1, n2, n3}
  Jobs = {j1, j2}
  NoJob = NoJob
  MinCount = 2
  MaxWaiting = 3
  MaxMissing = 3
INVARIANTS
  TypeOK
  TasksCoverNodes
PROPERTIES
  RestartEnds
  NodesGetListeners

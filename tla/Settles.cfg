SPECIFICATION FairSpec
CONSTANTS
  Nodes = {n1, n2, n3}
  Players = {}
  Teams = {t1}
  NoTeam = NoTeam
  MasterTeam <- MCMasterTeam
  TeamOf <- MCTeamOf
  PlayingAtStart = {}
  None = None
  Kill = Kill
  Faults = {"late_order"}
  ApiReplies = {"reply"}
  MaxCount = 1
  MaxFails = 0
  MaxTeams = 2
  MinCount = 1
  MaxServers = 3
  Threshold = 3
  MaxRetry = 1
INVARIANTS
  ListIsPool
PROPERTIES
  ResizeGrows
  StartupEnds
  GrowthEnds
  PoolComesToRest
\* the load balancer gives up when the pool does not come up, and may die
CHECK_DEADLOCK FALSE

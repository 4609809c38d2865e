SPECIFICATION FairSpec
CONSTANTS
  Nodes = {n1, n2}
  Players = {p1, p2}
  Teams = {t1, t2}
  NoTeam = NoTeam
  MasterTeam <- MCMasterTeam
  TeamOf <- MCTeamOf
  PlayingAtStart = {}
  None = None
  Kill = Kill
  Faults = {}
  ApiReplies = {"reply"}
  MaxCount = 1
  MaxFails = 0
  MaxTeams = 1
  MinCount = 1
  MaxServers = 2
  Threshold = 0
  MaxRetry = 1
PROPERTIES
  AcceptedRetirementEnds
  SeenRemovalEnds
\* the load balancer gives up when the pool does not come up, and may die
CHECK_DEADLOCK FALSE

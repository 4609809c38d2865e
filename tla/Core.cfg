SPECIFICATION Spec
CONSTANTS
  Nodes = {n1, n2}
  Players = {p1, p2}
  Teams = {t1, t2}
  NoTeam = NoTeam
  MasterTeam <- MCPartlyKnown
  TeamOf <- MCTeamOf
  PlayingAtStart = {p1}
  None = None
  Kill = Kill
  Faults = {"slow_answer"}
  ApiReplies = {"reply"}
  MaxCount = 2
  MaxFails = 0
  MaxTeams = 2
  MinCount = 1
  MaxServers = 2
  Threshold = 1
  MaxRetry = 1
SYMMETRY NodeSymmetry
INVARIANTS
  TypeOK
  RetirementIsExclusive
  MergeWaitEnds
  OrderHasPurpose
  TeamMapAgrees
  NoTeamSentToShutDown
PROPERTIES
  RetirementRunsItsCourse
\* the load balancer gives up when the pool does not come up, and may die
CHECK_DEADLOCK FALSE

SPECIFICATION Spec
CONSTANTS
  Nodes = {n1, n2, n3}
  Players = {}
  Teams = {t1}
  NoTeam = NoTeam
  MasterTeam <- MCMasterTeam
  TeamOf <- MCTeamOf
  PlayingAtStart = {}
  None = None
  Kill = Kill
  Faults = {"start_failed", "node_lost", "slow_answer", "order_lost", "batch_error", "remove_error", "call_raises", "api_exception"}
  ApiReplies = {"reply", "refused", "exception"}
  MaxCount = 1
  MaxFails = 0
  MaxTeams = 2
  MinCount = 1
  MaxServers = 3
  Threshold = 3
  MaxRetry = 1
SYMMETRY NodeSymmetry
INVARIANTS
  FlagHasPlanner
  TargetIsTracked
PROPERTIES
  ImplementsPoolChange
\* the load balancer gives up when the pool does not come up, and may die
CHECK_DEADLOCK FALSE

SPECIFICATION Spec
CONSTANTS
  Players <- MCPlayers
  Teams = {"t1"}
  NoTeam = "none"
  MasterTeam <- MCMasterTeam
  MaxFails = 13
  MaxTeams = 2
  MaxCount = 3
INVARIANTS
  TypeOK
  CrashedOnlyAfterSilence
  SilenceIsNoticed
PROPERTIES
  ImplementsLifecycle
CHECK_DEADLOCK TRUE

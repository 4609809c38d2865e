--------------------------- MODULE MCLoadBalancer ---------------------------
(* Values for the instances of LoadBalancer: players are on teams of their  *)
(* own as far as there are teams, and the teams API either agrees with the  *)
(* lobby or does not know one of the players.                               *)
EXTENDS LoadBalancer, FiniteSetsExt, TLC

MCTeamOf ==
  CHOOSE f \in [Players -> Teams] :
    Cardinality({f[p] : p \in Players}) = Min({Cardinality(Players), Cardinality(Teams)})

MCMasterTeam == MCTeamOf

MCPartlyKnown == [p \in Players |-> IF p = CHOOSE q \in Players : TRUE THEN NoTeam ELSE MCTeamOf[p]]

NodeSymmetry == Permutations(Nodes)
=============================================================================

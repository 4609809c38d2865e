--------------------------- MODULE MCServerPolling ---------------------------
(* One Server object with the thresholds of the code, two players of one     *)
(* team, one of whom the teams API does not know.                            *)
EXTENDS ServerPolling

MCPlayers == {"p1", "p2"}
MCMasterTeam == [p \in MCPlayers |-> IF p = "p1" THEN "t1" ELSE "none"]
=============================================================================

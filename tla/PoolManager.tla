----------------------------- MODULE PoolManager -----------------------------
(***************************************************************************)
(* modules/PoolManager.py: the cached state of the pool, the Server objects*)
(* and the map from teams to servers.  Each operator is the effect of one  *)
(* method on these variables; LoadBalancer calls them from its actions.    *)
(*                                                                         *)
(* The list `servers` is a set here: its order comes from the service and  *)
(* from stable sorts by playercount, and only decides between servers with *)
(* equal counts.  Such a choice is left open.                              *)
(***************************************************************************)
EXTENDS CloudPool

CONSTANTS
  TeamOf,        \* the team the lobby names for a player
  ApiReplies,    \* outcomes of the API check in this instance
  MaxCount       \* bound: joins are counted up to here

ASSUME PoolAssumption ==
  /\ TeamOf \in [Players -> Teams]
  /\ ApiReplies \subseteq ApiOutcomes
  /\ MaxCount \in Nat \ {0}
  /\ "exception" \in ApiReplies => "api_exception" \in Faults

VARIABLES
  poolState,   \* state, the cached allocation state
  servers,     \* servers, by node address
  srv,         \* the Server object of each address in servers, NewServer elsewhere
  teamMap,     \* teams_to_servers: an address, or None when the team is no key
  detached     \* teams mapped to an object that update_server_list has replaced

poolVars == <<poolState, servers, srv, teamMap, detached>>

PoolStates == {"STARTING", "STABLE", "FLAG_TO_SHIFT", "TRANSITIONING"}

PoolTypeOK ==
  /\ poolState \in PoolStates
  /\ servers \in SUBSET Nodes
  /\ srv \in [Nodes -> ServerRecords]
  /\ teamMap \in [AnyTeam -> Nodes \cup {None}]
  /\ detached \in SUBSET AnyTeam

PoolInit ==
  /\ poolState = "STARTING"
  /\ servers = {}
  /\ srv = [n \in Nodes |-> NewServer]
  /\ teamMap = [t \in AnyTeam |-> None]
  /\ detached = {}

IsPoolSteady == poolState = "STABLE"

ServersIn(states) == {n \in servers : srv[n].state \in states}
MappedTeams == {t \in AnyTeam : teamMap[t] # None}

-----------------------------------------------------------------------------
(* poll_servers_and_update                                                 *)

NotReadyNodes == In({"starting", "start_failed"})

PolledPoolState ==
  IF alloc = "steady"
  THEN IF NotReadyNodes # {} THEN "TRANSITIONING"
       ELSE IF poolState = "FLAG_TO_SHIFT" THEN poolState ELSE "STABLE"
  ELSE IF poolState = "STARTING" THEN "STARTING" ELSE "TRANSITIONING"

PoolPolled ==
  \/ poolState' = PolledPoolState
  \/ "batch_error" \in Faults /\ poolState' = "TRANSITIONING"

\* late are the nodes whose answer does not come in time.
StatusOf(n, late) == IF mc[n] /\ n \notin late THEN "answer" ELSE "unreachable"

ReplyOf(n, api, due, late) ==
  [mc |-> StatusOf(n, late), seen |-> Online(n), api |-> api, due |-> due]

\* Mutant of TeamsRemapped: the map is updated and not cleared first.
TeamsRemappedUncleared ==
  LET Hosts(t) == {n \in servers : t \in TeamsOn(srv'[n])}
  IN  /\ teamMap' \in {f \in [AnyTeam -> Nodes \cup {None}] :
                         \A t \in AnyTeam : IF Hosts(t) = {} THEN f[t] = teamMap[t]
                                                             ELSE f[t] \in Hosts(t)}
      /\ detached' = {}

\* teams_to_servers is cleared and refilled from the objects just polled; a team found
\* on several servers ends up with the last of them.
TeamsRemapped ==
  LET Hosts(t) == {n \in servers : t \in TeamsOn(srv'[n])}
  IN  /\ teamMap' \in {f \in [AnyTeam -> servers \cup {None}] :
                         \A t \in AnyTeam : IF Hosts(t) = {} THEN f[t] = None
                                                             ELSE f[t] \in Hosts(t)}
      /\ detached' = {}

\* Every server is polled; api gives the outcome of each one's API check.
ServersPolled(api, due) ==
  /\ \E late \in SUBSET (Slow \cap servers) :
       srv' = [n \in Nodes |-> IF n \in servers
                               THEN Polled(srv[n], ReplyOf(n, api[n], due, late)) ELSE srv[n]]
  /\ TeamsRemapped
  /\ UNCHANGED servers

ApiChoices == [servers -> ApiReplies]

SomePollRaises(api) == \E n \in servers : PollRaises(srv[n], ReplyOf(n, api[n], FALSE, {}))

-----------------------------------------------------------------------------
(* update_server_list                                                      *)

\* Nodes that compute_node.list returns and the method does not skip.
ListedNodes == In({"starting", "start_failed", "running", "removing"})

\* The objects are built anew and polled once: they know no player and no team, and the
\* teams that were mapped keep the objects that are gone.
ListRebuilt(list) ==
  /\ servers' = list
  /\ \E late \in SUBSET (Slow \cap list) :
       srv' = [n \in Nodes |-> IF n \in list
                               THEN Polled(NewServer, ReplyOf(n, "reply", FALSE, late)) ELSE NewServer]
  /\ detached' = MappedTeams
  /\ UNCHANGED teamMap

ServerListUpdated(list) ==
  IF IsPoolSteady THEN ListRebuilt(list) ELSE UNCHANGED <<servers, srv, teamMap, detached>>

-----------------------------------------------------------------------------
(* getServerForTeam and Server.add_player                                  *)

EligibleServers == {n \in servers : EligibleForNewTeams(srv[n])}

\* Where a request for team t can be answered with; empty when the method raises.
ServerForTeam(t) ==
  IF teamMap[t] # None THEN {teamMap[t]}
  ELSE {n \in EligibleServers : \A m \in EligibleServers : srv[n].playercount <= srv[m].playercount}

\* add_player.  Bound: counts from MaxCount on are not told apart.  They are compared to
\* find the fewest, where a tie leaves both choices open, and to zero.
PlayerJoined(s, p, t) ==
  [PlayerAdded(s, p, t) EXCEPT !.playercount = IF s.playercount < MaxCount THEN @ ELSE s.playercount]

\* Mutant of PlayerPlaced: the server chosen for a new team is not kept in the map.
PlayerPlacedUnmapped(p, n) ==
  /\ srv' = IF n \in servers /\ TeamOf[p] \notin detached
            THEN [srv EXCEPT ![n] = PlayerJoined(@, p, TeamOf[p])] ELSE srv
  /\ UNCHANGED <<poolState, servers, detached, teamMap>>

\* The player is recorded in the object that the map holds, which may be one the list
\* no longer has.
PlayerPlaced(p, n) ==
  LET t == TeamOf[p]
  IN  /\ teamMap' = [teamMap EXCEPT ![t] = n]
      /\ srv' = IF n \in servers /\ t \notin detached
                THEN [srv EXCEPT ![n] = PlayerJoined(@, p, t)] ELSE srv
      /\ UNCHANGED <<poolState, servers, detached>>

-----------------------------------------------------------------------------
(* signal_remove_server and actual_remove_server                           *)

SignalAllowed(n, target) ==
  /\ IsPoolSteady
  /\ srv[n].state = "STABLE"
  /\ srv[n].playercount > 0 => target # None /\ srv[target].state = "STABLE"

\* Mutant of RemovalSignalled: the order goes to the server that is to take the players.
RemovalSignalledSwapped(n, target) ==
  LET to == IF target = None THEN n ELSE target
  IN  /\ SignalAllowed(n, target)
      /\ srv' = [m \in Nodes |->
                   IF m = n THEN Decommissioned(srv[n], target # None, "answer")
                   ELSE IF m = target THEN [srv[m] EXCEPT !.state = "WAITING_FOR_MERGE"] ELSE srv[m]]
      /\ order' = [order EXCEPT ![to] = IF target = None THEN Kill ELSE n]
      /\ poolState' = "FLAG_TO_SHIFT"
      /\ UNCHANGED <<servers, teamMap, detached, alloc, want, node, mc, plays, goes>>

\* Bound: one order is under way to a node, a later one takes the place of an order that
\* outlived the node before.
\* decommission may find the server dead and change its mind; its result is not looked
\* at, the target waits for the merge and the pool is flagged in any case.
RemovalSignalled(n, target) ==
  /\ SignalAllowed(n, target)
  /\ \E late \in SUBSET (Slow \cap {n}) :
       LET status  == StatusOf(n, late)
           retired == [srv EXCEPT ![n] = Decommissioned(@, target # None, status)]
       IN  /\ srv' = IF target = None THEN retired
                     ELSE [retired EXCEPT ![target].state = "WAITING_FOR_MERGE"]
           /\ order' = IF RetirementSent(srv[n], target # None, status)
                       THEN [order EXCEPT ![n] = IF target = None THEN Kill ELSE target]
                       ELSE order
  /\ poolState' = "FLAG_TO_SHIFT"
  /\ UNCHANGED <<servers, teamMap, detached, alloc, want, node, mc, plays, goes>>

\* The conditions actual_remove_server tests before it asks the service.
RemovalAsked(n) ==
  /\ poolState \in {"STABLE", "FLAG_TO_SHIFT"}
  /\ srv[n].state \in {"DEACTIVATED", "CRASHED"}

\* servers.remove(server), once the service has accepted.
ServerDropped(n) ==
  /\ servers' = servers \ {n}
  /\ srv' = [srv EXCEPT ![n] = NewServer]
  /\ UNCHANGED <<teamMap, detached>>
=============================================================================

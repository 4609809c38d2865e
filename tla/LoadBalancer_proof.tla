-------------------------- MODULE LoadBalancer_proof --------------------------
(***************************************************************************)
(* Theorems about LoadBalancer for every number of nodes, players and teams*)
(* and every configuration.  IInv is the inductive invariant; what it adds *)
(* to the properties is where the main thread can be in each state, what an*)
(* object outside the list is, and how the cached state of the pool relates*)
(* to the real one.                                                        *)
(***************************************************************************)
EXTENDS LoadBalancer, ServerObject_proof

\* Azure: a steady pool has no node on its way out and no more nodes than its target.
CloudInv ==
  /\ alloc = "steady" => In({"removing", "leaving"}) = {}
  /\ alloc = "steady" => Cardinality(Present) <= want

TypeInv == TypeOK /\ CloudInv

-----------------------------------------------------------------------------
(* Types.                                                                  *)

LEMMA NodesFinite ==
  ASSUME NEW S \in SUBSET Nodes
  PROVE  IsFiniteSet(S) /\ Cardinality(S) \in Nat
  BY CloudAssumption, FS_Subset, FS_CardinalityType

LEMMA ReplyType ==
  ASSUME CloudTypeOK, NEW n \in Nodes, NEW api \in ApiOutcomes, NEW due \in BOOLEAN, NEW late
  PROVE  ReplyOf(n, api, due, late) \in Replies
  BY DEF CloudTypeOK, ReplyOf, StatusOf, Replies, McReplies, Online

LEMMA InitType == Init => TypeInv
<1> SUFFICES ASSUME Init PROVE TypeInv OBVIOUS
<1> USE DEF Init
<1>1. CloudTypeOK
  <2>1. CASE alloc = "resizing"
    BY <2>1, ConfigAssumption DEF CloudInit, CloudTypeOK, NodeStates
  <2>2. CASE alloc = "steady"
    <3>1. Cardinality(In({"running"})) \in Nat BY NodesFinite DEF In
    <3> QED BY <2>2, <3>1 DEF CloudInit, CloudTypeOK, NodeStates
  <2> QED BY <2>1, <2>2 DEF CloudInit
<1>2. PoolTypeOK BY NewServerType DEF PoolInit, PoolTypeOK, PoolStates
<1>3. TypeOK
  BY <1>1, <1>2, ConfigAssumption DEF TypeOK, PcStates, LbStates
<1>4. CloudInv
  <2> SUFFICES ASSUME alloc = "steady" PROVE CloudInv BY DEF CloudInv
  <2>1. node \in [Nodes -> {"absent", "running"}] /\ want = Cardinality(In({"running"}))
    BY DEF CloudInit
  <2>2. Present = In({"running"}) /\ In({"removing", "leaving"}) = {} BY <2>1 DEF Present, In
  <2> QED BY <2>1, <2>2, NodesFinite DEF CloudInv, In
<1> QED BY <1>3, <1>4 DEF TypeInv

LEMMA PoolPolledType == PoolTypeOK /\ PoolPolled => poolState' \in PoolStates
  BY DEF PoolTypeOK, PoolPolled, PolledPoolState, PoolStates

LEMMA ServersPolledType ==
  ASSUME CloudTypeOK, PoolTypeOK, NEW api \in ApiChoices, NEW due \in BOOLEAN,
         ServersPolled(api, due), poolState' \in PoolStates
  PROVE  PoolTypeOK'
<1>1. \A n \in servers : n \in Nodes /\ api[n] \in ApiOutcomes
  BY PoolAssumption DEF PoolTypeOK, ApiChoices
<1>2. \A n \in servers : \A late : ReplyOf(n, api[n], due, late) \in Replies BY <1>1, ReplyType
<1>3. \A n \in servers : \A late : Polled(srv[n], ReplyOf(n, api[n], due, late)) \in ServerRecords
  BY <1>1, <1>2, PolledType DEF PoolTypeOK
<1>4. srv' \in [Nodes -> ServerRecords] BY <1>3 DEF ServersPolled, PoolTypeOK
<1>5. teamMap' \in [AnyTeam -> Nodes \cup {None}] /\ detached' = {}
  <2>1. teamMap' \in [AnyTeam -> servers \cup {None}] BY DEF ServersPolled, TeamsRemapped
  <2>2. servers \cup {None} \subseteq Nodes \cup {None} BY DEF PoolTypeOK
  <2>3. detached' = {} BY DEF ServersPolled, TeamsRemapped
  <2> QED BY <2>1, <2>2, <2>3
<1> QED BY <1>4, <1>5 DEF PoolTypeOK, ServersPolled

LEMMA ListRebuiltType ==
  ASSUME CloudTypeOK, PoolTypeOK, NEW list \in SUBSET Nodes, ListRebuilt(list)
  PROVE  /\ servers' \in SUBSET Nodes
         /\ srv' \in [Nodes -> ServerRecords]
         /\ teamMap' \in [AnyTeam -> Nodes \cup {None}]
         /\ detached' \in SUBSET AnyTeam
<1>1. \A n \in Nodes : \A late : ReplyOf(n, "reply", FALSE, late) \in Replies
  BY ReplyType DEF ApiOutcomes
<1>2. \A n \in Nodes : \A late : Polled(NewServer, ReplyOf(n, "reply", FALSE, late)) \in ServerRecords
  BY <1>1, PolledType, NewServerType
<1>3. PICK late : srv' = [n \in Nodes |-> IF n \in list
                                       THEN Polled(NewServer, ReplyOf(n, "reply", FALSE, late))
                                       ELSE NewServer]
  BY DEF ListRebuilt
<1>4. srv' \in [Nodes -> ServerRecords] BY <1>2, <1>3, NewServerType
<1> QED BY <1>4 DEF ListRebuilt, PoolTypeOK, MappedTeams

LEMMA ListUpdatedType ==
  ASSUME CloudTypeOK, PoolTypeOK, NEW list \in SUBSET Nodes, ServerListUpdated(list),
         UNCHANGED poolState
  PROVE  PoolTypeOK'
  BY ListRebuiltType DEF ServerListUpdated, PoolTypeOK

LEMMA JoinedType ==
  ASSUME NEW s \in ServerRecords, NEW p \in Players, NEW t \in AnyTeam
  PROVE  PlayerJoined(s, p, t) \in ServerRecords
<1>1. PlayerAdded(s, p, t) \in ServerRecords BY PlayerAddedType
<1>2. s.playercount \in Nat BY DEF ServerRecords
<1> QED BY <1>1, <1>2 DEF PlayerJoined, ServerRecords

LEMMA PlacedType ==
  ASSUME PoolTypeOK, NEW p \in Players, NEW n \in Nodes, PlayerPlaced(p, n)
  PROVE  PoolTypeOK'
<1>1. TeamOf[p] \in AnyTeam BY PoolAssumption DEF AnyTeam
<1>2. PlayerJoined(srv[n], p, TeamOf[p]) \in ServerRecords
  BY <1>1, JoinedType DEF PoolTypeOK
<1> QED BY <1>1, <1>2 DEF PlayerPlaced, PoolTypeOK

LEMMA SignalledType ==
  ASSUME CloudTypeOK, PoolTypeOK, NEW n \in Nodes, NEW m \in Nodes \cup {None},
         RemovalSignalled(n, m)
  PROVE  PoolTypeOK' /\ order' \in [Nodes -> Nodes \cup {None, Kill}]
<1>0. PICK late : srv' = LET retired == [srv EXCEPT ![n] =
                                          Decommissioned(@, m # None, StatusOf(n, late))]
                         IN  IF m = None THEN retired
                             ELSE [retired EXCEPT ![m].state = "WAITING_FOR_MERGE"]
  BY DEF RemovalSignalled
<1> DEFINE retired == [srv EXCEPT ![n] = Decommissioned(srv[n], m # None, StatusOf(n, late))]
<1>1. retired \in [Nodes -> ServerRecords] BY DecommissionedType DEF PoolTypeOK
<1>2. srv' = IF m = None THEN retired ELSE [retired EXCEPT ![m].state = "WAITING_FOR_MERGE"]
  BY <1>0
<1> HIDE DEF retired
<1>3. \A s \in ServerRecords : [s EXCEPT !.state = "WAITING_FOR_MERGE"] \in ServerRecords
  BY DEF ServerRecords, States
<1>4. srv' \in [Nodes -> ServerRecords] BY <1>1, <1>2, <1>3
<1>5. order' \in [Nodes -> Nodes \cup {None, Kill}] BY DEF RemovalSignalled, CloudTypeOK
<1> QED BY <1>4, <1>5 DEF RemovalSignalled, PoolTypeOK, PoolStates

\* A step of the world moves one node, player or order at a time.
LEMMA WorldCloudType == CloudTypeOK /\ CloudStep => CloudTypeOK'
<1> SUFFICES ASSUME CloudTypeOK, CloudStep PROVE CloudTypeOK' OBVIOUS
<1> USE DEF CloudTypeOK
<1>1. ASSUME NEW n \in Nodes, NEW from, NEW to \in NodeStates, Becomes(n, from, to)
      PROVE  node' \in [Nodes -> NodeStates]
  BY <1>1 DEF Becomes
<1>2. ASSUME NEW n \in Nodes, Disconnected(n) PROVE plays' \in [Players -> Nodes \cup {None}]
  BY <1>2 DEF Disconnected
<1>3. CASE ResizeEnds BY <1>3 DEF ResizeEnds
<1>4. ASSUME NEW n \in Nodes, AllocateNode(n) \/ GiveUpNode(n) \/ NodeStarts(n) \/ NodeStartFails(n)
      PROVE  CloudTypeOK'
  BY <1>1, <1>4 DEF AllocateNode, GiveUpNode, NodeStarts, NodeStartFails, NodeStates
<1>5. ASSUME NEW n \in Nodes, NodeLost(n) \/ NodeLeaves(n) PROVE CloudTypeOK'
  <2>1. node' \in [Nodes -> NodeStates] BY <1>1, <1>5 DEF NodeLost, NodeLeaves, NodeStates
  <2>2. plays' \in [Players -> Nodes \cup {None}] BY <1>2, <1>5 DEF NodeLost, NodeLeaves
  <2>3. order' \in [Nodes -> Nodes \cup {None, Kill}]
    BY <1>5 DEF NodeLost, NodeLeaves, OrderDropped
  <2> QED BY <1>5, <2>1, <2>2, <2>3 DEF NodeLost, NodeLeaves
<1>6. ASSUME NEW n \in Nodes, GameStarts(n) \/ GameStops(n) \/ LoseOrder(n) PROVE CloudTypeOK'
  BY <1>2, <1>6 DEF GameStarts, GameStops, LoseOrder
<1>7. ASSUME NEW n \in Nodes, ObeyOrder(n) PROVE CloudTypeOK'
  BY <1>7 DEF ObeyOrder
<1>8. ASSUME NEW p \in Players, Connect(p) \/ Leave(p) PROVE CloudTypeOK'
  BY <1>8 DEF Connect, Leave
<1> QED BY <1>3, <1>4, <1>5, <1>6, <1>7, <1>8 DEF CloudStep

\* A steady pool keeps its nodes: only a resize allocates, gives up or ends.
LEMMA WorldCloudInv == CloudTypeOK /\ CloudInv /\ CloudStep => CloudInv'
<1> SUFFICES ASSUME CloudTypeOK, CloudInv, CloudStep PROVE CloudInv' OBVIOUS
<1> USE DEF CloudTypeOK
<1>1. ASSUME UNCHANGED alloc, UNCHANGED want, Present' = Present,
             In({"removing", "leaving"})' \subseteq In({"removing", "leaving"})
      PROVE  CloudInv'
  BY <1>1 DEF CloudInv
<1>2. CASE ResizeEnds
  <2>1. Cardinality(Present) \in Nat BY NodesFinite DEF Present, In
  <2>2. UNCHANGED node /\ UNCHANGED want /\ In({"removing", "leaving"}) = {}
        /\ Cardinality(Present) <= want
    BY <1>2, <2>1 DEF ResizeEnds
  <2>3. Present' = Present /\ In({"removing", "leaving"})' = {} BY <2>2 DEF Present, In
  <2> QED BY <2>2, <2>3 DEF CloudInv
<1>3. ASSUME NEW n \in Nodes, AllocateNode(n) \/ GiveUpNode(n) PROVE CloudInv'
  BY <1>3 DEF AllocateNode, GiveUpNode, CloudInv
<1>4. ASSUME NEW n \in Nodes, NodeStarts(n) \/ NodeStartFails(n) \/ NodeLost(n) PROVE CloudInv'
  <2>1. UNCHANGED <<alloc, want>> BY <1>4 DEF NodeStarts, NodeStartFails, NodeLost
  <2>2. \E from, to \in {"starting", "start_failed", "running", "unusable"} : Becomes(n, {from}, to)
    BY <1>4 DEF NodeStarts, NodeStartFails, NodeLost
  <2>3. Present' = Present /\ In({"removing", "leaving"})' = In({"removing", "leaving"})
    BY <2>2 DEF Becomes, Present, In
  <2> QED BY <1>1, <2>1, <2>3
<1>5. ASSUME NEW n \in Nodes, NodeLeaves(n) PROVE CloudInv'
  BY <1>1, <1>5 DEF NodeLeaves, Becomes, Present, In
<1>6. ASSUME UNCHANGED <<alloc, want, node>> PROVE CloudInv'
  BY <1>6 DEF CloudInv, Present, In
<1>7. ASSUME NEW n \in Nodes, GameStarts(n) \/ GameStops(n) \/ ObeyOrder(n) \/ LoseOrder(n)
      PROVE  CloudInv'
  BY <1>6, <1>7 DEF GameStarts, GameStops, ObeyOrder, LoseOrder
<1>8. ASSUME NEW p \in Players, Connect(p) \/ Leave(p) PROVE CloudInv'
  BY <1>6, <1>8 DEF Connect, Leave
<1> QED BY <1>2, <1>3, <1>4, <1>5, <1>7, <1>8 DEF CloudStep

\* What a request of the load balancer makes of the pool.
LEMMA RequestType ==
  ASSUME CloudTypeOK, CloudInv, UNCHANGED <<mc, plays, goes, order>>
  PROVE  /\ \A n \in Nodes : RemovalAccepted(n) => CloudTypeOK' /\ CloudInv'
         /\ \A size \in Nat : ResizeAccepted(size) /\ UNCHANGED node => CloudTypeOK' /\ CloudInv'
<1> USE DEF CloudTypeOK
<1>1. ASSUME NEW n \in Nodes, RemovalAccepted(n) PROVE CloudTypeOK' /\ CloudInv'
  <2>1. n \in Present /\ Cardinality(Present) <= want BY <1>1 DEF RemovalAccepted, CloudInv
  <2>2. Present \in SUBSET Nodes BY DEF Present, In
  <2>3. Cardinality(Present) # 0 BY <2>1, <2>2, NodesFinite, FS_EmptySet
  <2>4. want - 1 \in Nat BY <2>1, <2>2, <2>3, NodesFinite
  <2> QED BY <1>1, <2>4 DEF RemovalAccepted, CloudInv, NodeStates
<1>2. ASSUME NEW size \in Nat, ResizeAccepted(size), UNCHANGED node PROVE CloudTypeOK' /\ CloudInv'
  BY <1>2 DEF ResizeAccepted, CloudInv
<1> QED BY <1>1, <1>2

LEMMA ListedType == ListedNodes \in SUBSET Nodes /\ ListedNodes' \in SUBSET Nodes
  BY DEF ListedNodes, In

\* A crashed server is asked to go, whatever becomes of the list.
LEMMA CrashedRemovedType ==
  ASSUME TypeInv, NEW n \in CrashedServers, CrashedRemoved(n)
  PROVE  CloudTypeOK' /\ CloudInv' /\ PoolTypeOK'
<1>1. CloudTypeOK /\ CloudInv /\ PoolTypeOK /\ n \in Nodes
  BY DEF TypeInv, TypeOK, CrashedServers, ServersIn, PoolTypeOK
<1>2. CloudTypeOK' /\ CloudInv' BY <1>1, RequestType DEF CrashedRemoved
<1>3. CASE IsPoolSteady
  <2>1. PICK list \in SUBSET Nodes : ListRebuilt(list)
    BY <1>3, ListedType DEF CrashedRemoved
  <2>2. UNCHANGED poolState BY DEF CrashedRemoved
  <2> QED BY <1>1, <1>2, <2>1, <2>2, ListRebuiltType DEF PoolTypeOK
<1>4. CASE ~ IsPoolSteady
  <2>1. ServerDropped(n) /\ UNCHANGED poolState BY <1>4 DEF CrashedRemoved
  <2> QED BY <1>1, <1>2, <2>1, NewServerType DEF ServerDropped, PoolTypeOK
<1> QED BY <1>2, <1>3, <1>4

LEMMA AddServerType == TypeInv /\ AddServer => TypeInv'
<1> SUFFICES ASSUME TypeInv, AddServer PROVE TypeInv' OBVIOUS
<1>1. CloudTypeOK /\ CloudInv /\ PoolTypeOK BY DEF TypeInv, TypeOK
<1>2. Cardinality(servers) + 1 \in Nat BY <1>1, NodesFinite DEF PoolTypeOK
<1>3. CloudTypeOK' /\ CloudInv' BY <1>1, <1>2, RequestType DEF AddServer
<1>4. PoolTypeOK' BY <1>1 DEF AddServer, poolVars, PoolTypeOK
<1> QED BY <1>3, <1>4 DEF TypeInv, TypeOK, AddServer, Goto, PcStates, LbStates

LEMMA ChoicesType ==
  ASSUME PoolTypeOK, NEW c \in RemovalChoices
  PROVE  c[1] \in servers /\ c[2] \in servers \cup {None} /\ c[1] # c[2]
<1>1. CASE EmptyServers # {}
  BY <1>1, CloudAssumption DEF PoolTypeOK, RemovalChoices, EmptyServers
<1>2. CASE EmptyServers = {}
  BY <1>2 DEF RemovalChoices
<1> QED BY <1>1, <1>2

LEMMA FindAndRemoveType == TypeInv /\ FindAndRemove => TypeInv'
<1> SUFFICES ASSUME TypeInv, FindAndRemove PROVE TypeInv' OBVIOUS
<1>1. CloudTypeOK /\ CloudInv /\ PoolTypeOK BY DEF TypeInv, TypeOK
<1>2. PICK c \in RemovalChoices : RemovalSignalled(c[1], c[2]) /\ target' = c[1]
  BY DEF FindAndRemove
<1>3. c[1] \in Nodes /\ c[2] \in Nodes \cup {None}
  BY <1>1, <1>2, ChoicesType DEF PoolTypeOK
<1>4. PoolTypeOK' /\ order' \in [Nodes -> Nodes \cup {None, Kill}]
  BY <1>1, <1>2, <1>3, SignalledType
<1>5. CloudTypeOK' /\ CloudInv'
  BY <1>1, <1>2, <1>4 DEF RemovalSignalled, CloudTypeOK, CloudInv, Present, In
<1> QED BY <1>2, <1>3, <1>4, <1>5 DEF TypeInv, TypeOK, FindAndRemove, Goto, PcStates, LbStates

LEMMA PlaceableServers ==
  ASSUME PoolTypeOK, NEW p \in Players, NEW n \in ServerForTeam(TeamOf[p])
  PROVE  n \in Nodes
<1>1. TeamOf[p] \in AnyTeam BY PoolAssumption DEF AnyTeam
<1> QED BY <1>1 DEF ServerForTeam, EligibleServers, PoolTypeOK

LEMMA MainType == TypeInv /\ MainStep => TypeInv'
<1> SUFFICES ASSUME TypeInv, MainStep PROVE TypeInv' OBVIOUS
<1> USE DEF Goto, PcStates, LbStates
<1>0. CloudTypeOK /\ CloudInv /\ PoolTypeOK /\ TypeOK BY DEF TypeInv, TypeOK
<1>a. ASSUME UNCHANGED cloudVars PROVE CloudTypeOK' /\ CloudInv'
  BY <1>0, <1>a DEF cloudVars, CloudTypeOK, CloudInv, Present, In
<1>b. ASSUME UNCHANGED poolVars PROVE PoolTypeOK' BY <1>0, <1>b DEF poolVars, PoolTypeOK
<1>1. CASE BootPoll
  <2>1. poolState' \in PoolStates BY <1>0, <1>1, PoolPolledType DEF BootPoll
  <2>2. PoolTypeOK' BY <1>0, <1>1, <2>1, ListRebuiltType, ListedType DEF BootPoll, PoolTypeOK
  <2>3. pc' \in PcStates /\ tries' \in 0 .. MaxRetry
    BY <1>0, <1>1, ConfigAssumption DEF BootPoll, TypeOK
  <2> QED BY <1>0, <1>1, <1>a, <2>2, <2>3 DEF BootPoll, TypeInv, TypeOK
<1>2. CASE Poll
  <2>1. PICK due \in BOOLEAN : PollOnce(due) BY <1>2 DEF Poll
  <2>2. poolState' \in PoolStates BY <1>0, <2>1, PoolPolledType DEF PollOnce
  <2>3. PoolTypeOK' BY <1>0, <2>1, <2>2, ServersPolledType DEF PollOnce, PoolTypeOK
  <2> QED BY <1>0, <1>a, <2>1, <2>3 DEF PollOnce, TypeInv, TypeOK
<1>3. CASE DecideStable
  <2>1. CloudTypeOK' /\ CloudInv' /\ PoolTypeOK'
    BY <1>3, <1>a, <1>b, CrashedRemovedType DEF DecideStable, CrashedKept
  <2> QED BY <1>0, <1>3, <2>1 DEF DecideStable, Decide, TypeInv, TypeOK
<1>4. CASE DecideRestarting
  <2>1. CloudTypeOK' /\ CloudInv' /\ PoolTypeOK'
    BY <1>4, <1>a, <1>b, CrashedRemovedType DEF DecideRestarting, CrashedKept
  <2> QED BY <1>0, <1>4, <2>1 DEF DecideRestarting, Decide, TypeInv, TypeOK
<1>5. CASE DecideStarting
  BY <1>0, <1>5, <1>a, <1>b DEF DecideStarting, TypeInv, TypeOK
<1>6. CASE DecideIncreasing \/ DecideWaitingForNew \/ DecideWaitForRemoval
  <2>1. PoolTypeOK'
    BY <1>0, <1>6, ListUpdatedType, ListedType DEF DecideIncreasing, DecideWaitingForNew,
       DecideWaitForRemoval, PoolTypeOK
  <2> QED BY <1>0, <1>6, <1>a, <2>1 DEF DecideIncreasing, DecideWaitingForNew,
       DecideWaitForRemoval, Decide, TypeInv, TypeOK
<1>7. CASE DecideDecreasing
  BY <1>0, <1>7, <1>a, <1>b DEF DecideDecreasing, Decide, TypeInv, TypeOK
<1>8. CASE DecideTriggerRemoval
  <2>1. CASE UNCHANGED <<poolVars, cloudVars>>
    BY <1>0, <1>8, <2>1, <1>a, <1>b DEF DecideTriggerRemoval, Decide, TypeInv, TypeOK
  <2>2. CASE target # None /\ RemovalAccepted(target) /\ UNCHANGED <<poolState, mc, plays, goes, order>>
    <3>1. target \in Nodes BY <1>0, <2>2 DEF TypeOK
    <3>2. CloudTypeOK' /\ CloudInv' BY <1>0, <2>2, <3>1, RequestType
    <3>3. PoolTypeOK'
      BY <1>0, <1>8, <2>2, NewServerType DEF DecideTriggerRemoval, ServerDropped, PoolTypeOK,
         poolVars
    <3> QED BY <1>0, <1>8, <3>2, <3>3 DEF DecideTriggerRemoval, Decide, TypeInv, TypeOK
  <2> QED BY <1>8, <2>1, <2>2 DEF DecideTriggerRemoval
<1>9. CASE AutoAdd \/ AutoMerge
  BY <1>9, AddServerType, FindAndRemoveType DEF AutoAdd, AutoMerge
<1>10. CASE NoBalance
  BY <1>0, <1>10, <1>a, <1>b DEF NoBalance, TypeInv, TypeOK
<1> QED BY <1>1, <1>2, <1>3, <1>4, <1>5, <1>6, <1>7, <1>8, <1>9, <1>10 DEF MainStep, DecideStep

LEMMA CallRaisesType == TypeInv /\ CallRaises => TypeInv'
<1> SUFFICES ASSUME TypeInv, CallRaises PROVE TypeInv' OBVIOUS
<1>1. CloudTypeOK /\ CloudInv /\ PoolTypeOK /\ PoolTypeOK'
  BY DEF TypeInv, TypeOK, CallRaises, poolVars, PoolTypeOK
<1>2. CASE UNCHANGED cloudVars
  BY <1>1, <1>2 DEF cloudVars, CloudTypeOK, CloudInv, Present, In, TypeInv, TypeOK, CallRaises, Goto,
     PcStates
<1>3. CASE RaisesAfterRemoval
  <2>1. PICK n \in Nodes : RemovalAccepted(n)
    BY <1>1, <1>3 DEF RaisesAfterRemoval, CrashedServers, ServersIn, PoolTypeOK
  <2>2. CloudTypeOK' /\ CloudInv' BY <1>1, <1>3, <2>1, RequestType DEF RaisesAfterRemoval
  <2> QED BY <1>1, <2>2 DEF TypeInv, TypeOK, CallRaises, Goto, PcStates
<1>4. CASE ResizeAccepted(Cardinality(servers) + 1) /\ UNCHANGED <<node, mc, plays, goes, order>>
  <2>1. Cardinality(servers) + 1 \in Nat BY <1>1, NodesFinite DEF PoolTypeOK
  <2>2. CloudTypeOK' /\ CloudInv' BY <1>1, <1>4, <2>1, RequestType
  <2> QED BY <1>1, <2>2 DEF TypeInv, TypeOK, CallRaises, Goto, PcStates
<1> QED BY <1>2, <1>3, <1>4 DEF CallRaises, RaisesInGrowth

LEMMA NextType == TypeInv /\ [Next]_vars => TypeInv'
<1> SUFFICES ASSUME TypeInv, [Next]_vars PROVE TypeInv' OBVIOUS
<1>1. CASE MainStep BY <1>1, MainType
<1>2. CASE CommandAdd \/ CommandRemove
  BY <1>2, AddServerType, FindAndRemoveType DEF CommandAdd, CommandRemove
<1>3. ASSUME NEW p \in Players, CommandServerForTeam(p) PROVE TypeInv'
  <2>1. PICK n \in ServerForTeam(TeamOf[p]) : PlayerPlaced(p, n) /\ goes' = [goes EXCEPT ![p] = n]
    BY <1>3 DEF CommandServerForTeam
  <2>2. n \in Nodes BY PlaceableServers DEF TypeInv, TypeOK
  <2>3. PoolTypeOK' BY <2>1, <2>2, PlacedType DEF TypeInv, TypeOK
  <2>4. CloudTypeOK' /\ CloudInv'
    BY <1>3, <2>1, <2>2 DEF CommandServerForTeam, TypeInv, TypeOK, CloudTypeOK, CloudInv, Present, In
  <2> QED BY <1>3, <2>3, <2>4 DEF CommandServerForTeam, mainVars, TypeInv, TypeOK
<1>4. CASE WorldStep
  BY <1>4, WorldCloudType, WorldCloudInv DEF WorldStep, Aside, mainVars, poolVars, TypeInv, TypeOK,
     PoolTypeOK
<1>5. CASE UNCHANGED vars
  BY <1>5 DEF vars, mainVars, poolVars, cloudVars, TypeInv, TypeOK, PoolTypeOK, CloudTypeOK,
     CloudInv, Present, In
<1>6. CASE CallRaises BY <1>6, CallRaisesType
<1> QED BY <1>1, <1>2, <1>3, <1>4, <1>5, <1>6 DEF Next, CommandStep

\* The variables keep their types: the counters stay in range and every record of a server
\* is one the code can hold.
THEOREM TypeCorrect == Spec => []TypeOK
<1>1. TypeInv => TypeOK BY DEF TypeInv
<1> QED BY <1>1, InitType, NextType, PTL DEF Spec

-----------------------------------------------------------------------------
(* The inductive invariant.                                                *)

\* Where the main thread can be in which state.
ThreadInv ==
  /\ pc = "boot" => lbState = "STARTING" /\ servers = {}
  /\ pc = "balance" => lbState \in {"STABLE", "RESTARTING_TASK", "WAIT_FOR_REMOVAL"}
  /\ pc = "expanded" => lbState = "INCREASING"

\* An address outside the list has no object.
ListInv == \A n \in Nodes \ servers : srv[n] = NewServer

\* Nothing revives a server that was found DEACTIVATED.
TriggerInv == lbState = "TRIGGER_REMOVAL" => srv[target].state = "DEACTIVATED"

\* What a tick decides on was read by the poll before it, and the service starts no resize
\* of its own.
FreshInv == pc = "decide" /\ poolState = "STABLE" => alloc = "steady"

\* No order outlives the node it was sent to.
Prompt == "late_order" \notin Faults

\* Then orders exist only from the start of a retirement to the end of the removal.
OrderInv == Prompt =>
  /\ Phase \notin {"retiring", "removing"} => \A n \in Nodes : order[n] = None
  /\ Phase = "retiring" => \A n \in Nodes : order[n] # None => n = target
  /\ Phase = "removing" => \A n \in Nodes : order[n] # None => node[n] \in {"removing", "leaving"}
  /\ \A n \in Nodes : order[n] # None => order[n] # target

IInv ==
  /\ TypeInv
  /\ ThreadInv
  /\ ListInv
  /\ TriggerInv
  /\ FreshInv
  /\ OrderInv
  /\ RetirementIsExclusive
  /\ TargetIsTracked
  /\ FlagHasPlanner
  /\ MergeWaitEnds

LEMMA InitInv == Init => IInv
<1> SUFFICES ASSUME Init PROVE IInv OBVIOUS
<1>1. TypeInv BY InitType
<1>2. \A n \in Nodes : srv[n] = NewServer /\ order[n] = None BY DEF Init, PoolInit, CloudInit
<1> QED BY <1>1, <1>2 DEF Init, PoolInit, IInv, ThreadInv, ListInv, TriggerInv, FreshInv, OrderInv,
       RetirementIsExclusive, TargetIsTracked, FlagHasPlanner, MergeWaitEnds, Phase, NewServer,
       Retiring

\* An idle, starting or growing balancer has no target, no flag, no retirement and no order.
LEMMA Unhurried ==
  ASSUME IInv, lbState \notin {"DECREASING", "TRIGGER_REMOVAL", "WAIT_FOR_REMOVAL"}
  PROVE  /\ target = None
         /\ poolState # "FLAG_TO_SHIFT"
         /\ \A n \in Nodes : srv[n].state \notin Retiring /\ (Prompt => order[n] = None)
         /\ \A n \in servers : srv[n].state # "WAITING_FOR_MERGE"
<1>1. lbState \in LbStates BY DEF IInv, TypeInv, TypeOK
<1>2. target = None BY DEF IInv, TargetIsTracked
<1>3. \A n \in Nodes : srv[n].state \notin Retiring
  BY <1>2, CloudAssumption DEF IInv, RetirementIsExclusive
<1>4. Prompt => \A n \in Nodes : order[n] = None BY <1>1 DEF IInv, OrderInv, Phase, LbStates
<1> QED BY <1>2, <1>3, <1>4 DEF IInv, FlagHasPlanner, MergeWaitEnds

\* A rebuilt list holds nothing but fresh objects.
LEMMA Rebuilt ==
  ASSUME CloudTypeOK, NEW list \in SUBSET Nodes, ListRebuilt(list)
  PROVE  /\ servers' = list
         /\ \A n \in Nodes \ list : srv'[n] = NewServer
         /\ \A n \in Nodes : srv'[n].state \in {"INITIALIZING", "STABLE", "CRASHED"}
<1>1. \A n \in Nodes : \A late : ReplyOf(n, "reply", FALSE, late) \in Replies
  BY ReplyType DEF ApiOutcomes
<1>2. \A n \in Nodes : \A late :
        PollMove("INITIALIZING", Polled(NewServer, ReplyOf(n, "reply", FALSE, late)).state)
  BY <1>1, PolledStates, NewServerType DEF NewServer
<1>3. PICK late : srv' = [n \in Nodes |-> IF n \in list
                                       THEN Polled(NewServer, ReplyOf(n, "reply", FALSE, late))
                                       ELSE NewServer]
  BY DEF ListRebuilt
<1>4. ASSUME NEW n \in Nodes
      PROVE  /\ n \notin list => srv'[n] = NewServer
             /\ srv'[n].state \in {"INITIALIZING", "STABLE", "CRASHED"}
  BY <1>2, <1>3 DEF PollMove, NewServer
<1> QED BY <1>4 DEF ListRebuilt

\* Reading the list anew while nothing retires keeps the invariant: the objects are fresh
\* and there is no target.
LEMMA RebuiltInv ==
  ASSUME IInv, TypeInv', NEW list \in SUBSET Nodes, ListRebuilt(list), ThreadInv', FreshInv',
         OrderInv', UNCHANGED target, target = None,
         lbState' \notin {"DECREASING", "TRIGGER_REMOVAL"},
         poolState' = "FLAG_TO_SHIFT" => lbState' = "WAIT_FOR_REMOVAL"
  PROVE  IInv'
<1>1. CloudTypeOK BY DEF IInv, TypeInv, TypeOK
<1>2. /\ \A n \in Nodes \ servers' : srv'[n] = NewServer
      /\ \A n \in Nodes : srv'[n].state \in {"INITIALIZING", "STABLE", "CRASHED"}
  BY <1>1, Rebuilt
<1>3. servers' \in SUBSET Nodes BY DEF TypeInv, TypeOK, PoolTypeOK
<1> QED BY <1>2, <1>3 DEF IInv, ListInv, TriggerInv, RetirementIsExclusive, TargetIsTracked,
       FlagHasPlanner, MergeWaitEnds, Retiring

LEMMA BootInv == IInv /\ BootPoll /\ TypeInv' => IInv'
<1> SUFFICES ASSUME IInv, BootPoll, TypeInv' PROVE IInv' OBVIOUS
<1>1. lbState = "STARTING" /\ servers = {} BY DEF IInv, ThreadInv, BootPoll
<1>2. target = None /\ poolState # "FLAG_TO_SHIFT" /\ \A n \in Nodes : Prompt => order[n] = None
  BY <1>1, Unhurried
<1>3. poolState' # "FLAG_TO_SHIFT" BY <1>2 DEF BootPoll, PoolPolled, PolledPoolState
<1>4. ThreadInv' /\ FreshInv' BY <1>1 DEF BootPoll, Goto, ThreadInv, FreshInv
<1>5. OrderInv' BY <1>1, <1>2 DEF BootPoll, cloudVars, OrderInv, Phase
<1>6. CASE pc' = "ready"
  BY <1>1, <1>2, <1>3, <1>4, <1>5, <1>6, RebuiltInv, ListedType DEF BootPoll
<1>7. CASE pc' # "ready"
  BY <1>1, <1>2, <1>3, <1>4, <1>5, <1>7 DEF BootPoll, IInv, ListInv, TriggerInv,
     RetirementIsExclusive, TargetIsTracked, FlagHasPlanner, MergeWaitEnds
<1> QED BY <1>6, <1>7

\* What a poll may do to the objects: none joins a retirement or a merge, none leaves a
\* retirement, and only objects of the list are touched.
LEMMA PollMoves ==
  ASSUME TypeInv, Poll, NEW n \in Nodes
  PROVE  /\ srv'[n] = srv[n] \/ (n \in servers /\ PollMove(srv[n].state, srv'[n].state))
         /\ srv'[n].state \in Retiring <=> srv[n].state \in Retiring
         /\ srv'[n].state = "WAITING_FOR_MERGE" => srv[n].state = "WAITING_FOR_MERGE"
         /\ srv[n].state = "DEACTIVATED" => srv'[n].state = "DEACTIVATED"
<1>1. PICK due \in BOOLEAN : PollOnce(due) BY DEF Poll
<1>2. PICK api \in ApiChoices : UNCHANGED srv \/ ServersPolled(api, due)
  BY <1>1 DEF PollOnce
<1>3. srv'[n] = srv[n] \/ (n \in servers /\ PollMove(srv[n].state, srv'[n].state))
  <2>1. CASE UNCHANGED srv BY <2>1
  <2>2. CASE ServersPolled(api, due) /\ n \in servers
    <3>1. api[n] \in ApiOutcomes BY <2>2, PoolAssumption DEF ApiChoices
    <3>2. PICK late : srv'[n] = Polled(srv[n], ReplyOf(n, api[n], due, late))
      BY <2>2 DEF ServersPolled
    <3>3. srv[n] \in ServerRecords BY DEF TypeInv, TypeOK, PoolTypeOK
    <3>4. ReplyOf(n, api[n], due, late) \in Replies
      BY <3>1, ReplyType DEF TypeInv, TypeOK
    <3> QED BY <2>2, <3>2, <3>3, <3>4, PolledStates
  <2>3. CASE ServersPolled(api, due) /\ n \notin servers BY <2>3 DEF ServersPolled
  <2> QED BY <1>2, <2>1, <2>2, <2>3
<1>4. srv[n].state \in States BY DEF TypeInv, TypeOK, PoolTypeOK, ServerRecords
<1> QED BY <1>3, <1>4 DEF PollMove, Retiring, States, Serving, Draining

LEMMA PollKeepsInv == IInv /\ Poll /\ TypeInv' => IInv'
<1> SUFFICES ASSUME IInv, Poll, TypeInv' PROVE IInv' OBVIOUS
<1>1. PICK due \in BOOLEAN : PollOnce(due) BY DEF Poll
<1>2. /\ UNCHANGED <<lbState, target, alloc, order, node, servers>>
      /\ pc' \in {"decide", "ready", "dead"}
  BY <1>1 DEF PollOnce, cloudVars, Goto, ServersPolled
<1>3. ThreadInv' BY <1>2 DEF ThreadInv
<1>4. FreshInv' /\ FlagHasPlanner'
  <2>1. poolState' = "STABLE" => alloc = "steady"
    BY <1>1, CloudAssumption DEF PollOnce, PoolPolled, PolledPoolState, IInv, TypeInv, TypeOK, PoolTypeOK
  <2>2. poolState' = "FLAG_TO_SHIFT" => poolState = "FLAG_TO_SHIFT"
    BY <1>1 DEF PollOnce, PoolPolled, PolledPoolState
  <2> QED BY <1>2, <2>1, <2>2 DEF IInv, FreshInv, FlagHasPlanner
<1>5. OrderInv' BY <1>2 DEF IInv, OrderInv, Phase
<1>6. ASSUME NEW n \in Nodes
      PROVE  srv'[n] = srv[n] \/ n \in servers
  BY PollMoves DEF IInv
<1>7. \A n \in Nodes : /\ srv'[n].state \in Retiring => srv[n].state \in Retiring
                       /\ srv'[n].state = "WAITING_FOR_MERGE" => srv[n].state = "WAITING_FOR_MERGE"
                       /\ srv[n].state = "DEACTIVATED" => srv'[n].state = "DEACTIVATED"
  BY PollMoves DEF IInv
<1>8. servers \in SUBSET Nodes /\ target \in Nodes \cup {None}
  BY DEF IInv, TypeInv, TypeOK, PoolTypeOK
<1>9. ListInv' BY <1>2, <1>6 DEF IInv, ListInv
<1>10. TriggerInv' BY <1>2, <1>7, <1>8 DEF IInv, TriggerInv, TargetIsTracked
<1>11. RetirementIsExclusive' BY <1>2, <1>7 DEF IInv, RetirementIsExclusive
<1>12. TargetIsTracked' BY <1>2 DEF IInv, TargetIsTracked
<1>13. MergeWaitEnds' BY <1>2, <1>7, <1>8 DEF IInv, MergeWaitEnds
<1> QED BY <1>3, <1>4, <1>5, <1>9, <1>10, <1>11, <1>12, <1>13 DEF IInv

\* A step that moves the main thread only, or an unhurried balancer between two states of
\* its own.
LEMMA Stays ==
  ASSUME IInv, TypeInv', UNCHANGED <<target, poolVars, cloudVars>>,
         pc' \in {"ready", "balance", "dead"}, ThreadInv',
         \/ lbState' = lbState
         \/ {lbState, lbState'} \subseteq {"STARTING", "STABLE", "RESTARTING_TASK", "INCREASING",
                                           "WAITING_FOR_NEW_SERVERS"}
  PROVE  IInv'
<1>1. \A n \in Nodes : UNCHANGED <<srv[n], order[n], node[n]>> BY DEF poolVars, cloudVars
<1>2. UNCHANGED <<servers, poolState, target, order, node, srv>> BY DEF poolVars, cloudVars
<1>3. FreshInv' BY DEF FreshInv
<1>4. CASE lbState' = lbState
  BY <1>2, <1>3, <1>4 DEF IInv, ListInv, TriggerInv, OrderInv, RetirementIsExclusive,
     TargetIsTracked, FlagHasPlanner, MergeWaitEnds, Phase
<1>5. CASE {lbState, lbState'} \subseteq {"STARTING", "STABLE", "RESTARTING_TASK", "INCREASING",
                                          "WAITING_FOR_NEW_SERVERS"}
  <2>1. /\ target = None
        /\ poolState # "FLAG_TO_SHIFT"
        /\ \A n \in Nodes : srv[n].state \notin Retiring /\ (Prompt => order[n] = None)
        /\ \A n \in servers : srv[n].state # "WAITING_FOR_MERGE"
    BY <1>5, Unhurried
  <2>2. OrderInv' BY <1>2, <2>1 DEF OrderInv
  <2>3. TargetIsTracked' /\ TriggerInv' BY <1>2, <1>5, <2>1 DEF TargetIsTracked, TriggerInv
  <2>4. ListInv' BY <1>2 DEF IInv, ListInv
  <2>5. RetirementIsExclusive' /\ FlagHasPlanner' /\ MergeWaitEnds'
    BY <1>2, <2>1 DEF RetirementIsExclusive, FlagHasPlanner, MergeWaitEnds
  <2> QED BY <1>3, <2>2, <2>3, <2>4, <2>5 DEF IInv
<1> QED BY <1>4, <1>5

LEMMA CrashedRemovedInv ==
  ASSUME IInv, TypeInv', Idle, NEW n, CrashedRemoved(n), UNCHANGED target,
         pc' \in {"ready", "balance"},
         lbState' \in {"STABLE", "RESTARTING_TASK", "WAIT_FOR_REMOVAL"}
  PROVE  IInv'
<1>1. target = None /\ poolState # "FLAG_TO_SHIFT" /\ \A m \in Nodes : Prompt => order[m] = None
  BY Unhurried DEF Idle
<1>2. IsPoolSteady BY <1>1 DEF CrashedRemoved, RemovalAsked, IsPoolSteady
<1>3. PICK list \in SUBSET Nodes : ListRebuilt(list) BY <1>2, ListedType DEF CrashedRemoved
<1>4. UNCHANGED <<poolState, order>> BY DEF CrashedRemoved
<1>5. ThreadInv' /\ FreshInv' /\ OrderInv' BY <1>1, <1>4 DEF ThreadInv, FreshInv, OrderInv
<1> QED BY <1>1, <1>3, <1>4, <1>5, RebuiltInv

LEMMA DecideIdleInv ==
  IInv /\ (DecideStable \/ DecideRestarting \/ DecideStarting) /\ TypeInv' => IInv'
<1> SUFFICES ASSUME IInv, DecideStable \/ DecideRestarting \/ DecideStarting, TypeInv'
             PROVE  IInv'
  OBVIOUS
<1>1. CASE DecideStable
  <2>1. /\ Idle /\ UNCHANGED target /\ pc' = "balance"
        /\ lbState' \in {"STABLE", "RESTARTING_TASK", "WAIT_FOR_REMOVAL"}
    BY <1>1 DEF DecideStable, Decide, Goto, Idle
  <2>2. CASE \E n \in CrashedServers : CrashedRemoved(n)
    BY <2>1, <2>2, CrashedRemovedInv
  <2>3. CASE CrashedKept /\ lbState' = IF FailedTasks # {} THEN "RESTARTING_TASK" ELSE "STABLE"
    <3>1. ThreadInv' BY <2>1 DEF ThreadInv
    <3> QED BY <2>1, <2>3, <3>1, Stays DEF CrashedKept, Idle
  <2> QED BY <1>1, <2>2, <2>3 DEF DecideStable
<1>2. CASE DecideRestarting
  <2>1. Idle /\ UNCHANGED target /\ pc' = "ready"
    BY <1>2 DEF DecideRestarting, Decide, Goto, Idle
  <2>2. CASE (\E n \in CrashedServers : CrashedRemoved(n)) /\ lbState' = "WAIT_FOR_REMOVAL"
    BY <2>1, <2>2, CrashedRemovedInv
  <2>3. CASE CrashedKept /\ lbState' = IF FailedTasks = {} THEN "STABLE" ELSE lbState
    <3>1. ThreadInv' BY <2>1 DEF ThreadInv
    <3> QED BY <2>1, <2>3, <3>1, Stays DEF CrashedKept, Idle
  <2> QED BY <1>2, <2>2, <2>3 DEF DecideRestarting
<1>3. CASE DecideStarting
  <2>1. /\ UNCHANGED <<target, poolVars, cloudVars>> /\ pc' = "ready"
        /\ lbState = "STARTING" /\ lbState' \in {"STARTING", "STABLE"}
    BY <1>3 DEF DecideStarting, Goto
  <2>2. ThreadInv' BY <2>1 DEF ThreadInv
  <2> QED BY <2>1, <2>2, Stays
<1> QED BY <1>1, <1>2, <1>3

LEMMA DecideGrowingInv ==
  IInv /\ (DecideIncreasing \/ DecideWaitingForNew) /\ TypeInv' => IInv'
<1> SUFFICES ASSUME IInv, DecideIncreasing \/ DecideWaitingForNew, TypeInv' PROVE IInv'
  OBVIOUS
<1>1. /\ UNCHANGED <<target, poolState, cloudVars>> /\ pc' = "ready"
      /\ lbState \in {"INCREASING", "WAITING_FOR_NEW_SERVERS"}
      /\ lbState' \in {"INCREASING", "WAITING_FOR_NEW_SERVERS", "STABLE"}
  BY DEF DecideIncreasing, DecideWaitingForNew, Decide, Goto
<1>2. target = None /\ poolState # "FLAG_TO_SHIFT" /\ \A n \in Nodes : Prompt => order[n] = None
  BY <1>1, Unhurried
<1>3. ThreadInv' /\ FreshInv' BY <1>1 DEF ThreadInv, FreshInv
<1>4. UNCHANGED order BY <1>1 DEF cloudVars
<1>5. OrderInv' BY <1>2, <1>4 DEF OrderInv
<1>6. CASE ListRebuilt(ListedNodes)
  BY <1>1, <1>2, <1>3, <1>5, <1>6, RebuiltInv, ListedType
<1>7. CASE UNCHANGED <<servers, srv, teamMap, detached>>
  BY <1>1, <1>3, <1>7, Stays DEF poolVars
<1> QED BY <1>6, <1>7 DEF DecideIncreasing, DecideWaitingForNew, ServerListUpdated

LEMMA DecideDecreasingInv == IInv /\ DecideDecreasing /\ TypeInv' => IInv'
<1> SUFFICES ASSUME IInv, DecideDecreasing, TypeInv' PROVE IInv' OBVIOUS
<1>1. lbState = "DECREASING" /\ target # None BY DEF DecideDecreasing, Decide, IInv, TargetIsTracked
<1>2. UNCHANGED <<target, poolVars, cloudVars>> /\ pc' = "ready"
  BY <1>1 DEF DecideDecreasing, Goto
<1>3. ThreadInv' BY <1>2 DEF ThreadInv
<1>4. CASE lbState' = lbState BY <1>2, <1>3, <1>4, Stays
<1>5. CASE lbState' = "TRIGGER_REMOVAL" /\ srv[target].state = "DEACTIVATED"
  <2>1. UNCHANGED <<servers, poolState, target, order, node, srv>> BY <1>2 DEF poolVars, cloudVars
  <2> QED BY <1>1, <1>2, <1>3, <1>5, <2>1 DEF IInv, ListInv, TriggerInv, FreshInv, OrderInv,
         RetirementIsExclusive, TargetIsTracked, FlagHasPlanner, MergeWaitEnds, Phase
<1> QED BY <1>1, <1>4, <1>5 DEF DecideDecreasing

LEMMA TriggerRemovalInv == IInv /\ DecideTriggerRemoval /\ TypeInv' => IInv'
<1> SUFFICES ASSUME IInv, DecideTriggerRemoval, TypeInv' PROVE IInv' OBVIOUS
<1>1. lbState = "TRIGGER_REMOVAL" BY DEF DecideTriggerRemoval, Decide
<1>2. target # None /\ target \in servers BY <1>1 DEF IInv, TargetIsTracked
<1>3. target \in Nodes /\ servers \in SUBSET Nodes /\ srv \in [Nodes -> ServerRecords]
      /\ node \in [Nodes -> NodeStates]
  BY <1>2 DEF IInv, TypeInv, TypeOK, PoolTypeOK, CloudTypeOK
<1>4. CASE UNCHANGED <<lbState, target, poolVars, cloudVars>> /\ pc' = "ready"
  <2>1. ThreadInv' BY <1>4 DEF ThreadInv
  <2> QED BY <1>4, <2>1, Stays
<1>5. CASE /\ RemovalAccepted(target) /\ ServerDropped(target)
           /\ lbState' = "WAIT_FOR_REMOVAL" /\ target' = None /\ pc' = "ready"
           /\ UNCHANGED <<poolState, order>>
  <2>1. /\ servers' = servers \ {target}
        /\ srv' = [srv EXCEPT ![target] = NewServer]
    BY <1>5 DEF ServerDropped
  <2>2. node'[target] \in {"removing", "leaving"} BY <1>3, <1>5 DEF RemovalAccepted
  <2>3. Prompt => \A n \in Nodes : order[n] # None => n = target BY <1>1 DEF IInv, OrderInv, Phase
  <2>4. OrderInv' BY <1>5, <2>2, <2>3 DEF OrderInv, Phase
  <2>5. ListInv' BY <1>3, <2>1 DEF IInv, ListInv
  <2>6. RetirementIsExclusive'
    BY <1>3, <2>1 DEF IInv, RetirementIsExclusive, NewServer, Retiring
  <2> QED BY <1>5, <2>4, <2>5, <2>6 DEF IInv, ThreadInv, TriggerInv, FreshInv, TargetIsTracked,
         FlagHasPlanner, MergeWaitEnds
<1> QED BY <1>2, <1>4, <1>5 DEF DecideTriggerRemoval, Goto

\* By the time the list is rebuilt Azure has taken the node away and its order with it.
LEMMA WaitForRemovalInv == IInv /\ DecideWaitForRemoval /\ TypeInv' => IInv'
<1> SUFFICES ASSUME IInv, DecideWaitForRemoval, TypeInv' PROVE IInv' OBVIOUS
<1>1. /\ pc = "decide" /\ lbState = "WAIT_FOR_REMOVAL" /\ pc' = "ready"
      /\ UNCHANGED <<target, poolState, cloudVars>>
  BY DEF DecideWaitForRemoval, Decide, Goto
<1>2. target = None BY <1>1 DEF IInv, TargetIsTracked
<1>3. ThreadInv' /\ FreshInv' BY <1>1 DEF ThreadInv, FreshInv
<1>4. CASE IsPoolSteady
  <2>1. In({"removing", "leaving"}) = {}
    BY <1>1, <1>4 DEF IsPoolSteady, IInv, FreshInv, TypeInv, CloudInv
  <2>2. Prompt => \A n \in Nodes : order[n] = None BY <1>1, <2>1 DEF IInv, OrderInv, Phase, In
  <2>3. OrderInv' BY <1>1, <2>2 DEF OrderInv, cloudVars
  <2>4. lbState' = "STABLE" /\ ListRebuilt(ListedNodes)
    BY <1>4 DEF DecideWaitForRemoval, ServerListUpdated
  <2>5. poolState' # "FLAG_TO_SHIFT" BY <1>1, <1>4 DEF IsPoolSteady
  <2> QED BY <1>1, <1>2, <1>3, <2>3, <2>4, <2>5, RebuiltInv, ListedType
<1>5. CASE ~ IsPoolSteady
  <2>1. UNCHANGED <<lbState, poolVars>>
    BY <1>1, <1>5 DEF DecideWaitForRemoval, ServerListUpdated, poolVars
  <2> QED BY <1>1, <1>3, <2>1, Stays
<1> QED BY <1>4, <1>5

LEMMA AddServerInv == IInv /\ AddServer /\ TypeInv' => IInv'
<1> SUFFICES ASSUME IInv, AddServer, TypeInv' PROVE IInv' OBVIOUS
<1>1. /\ target = None
      /\ poolState # "FLAG_TO_SHIFT"
      /\ \A n \in Nodes : srv[n].state \notin Retiring /\ (Prompt => order[n] = None)
      /\ \A n \in servers : srv[n].state # "WAITING_FOR_MERGE"
  BY Unhurried DEF AddServer, Idle
<1>2. UNCHANGED <<servers, poolState, target, order, srv>> BY DEF AddServer, poolVars
<1>3. pc' = "expanded" /\ lbState' = "INCREASING" BY DEF AddServer, Goto
<1>4. OrderInv' BY <1>1, <1>2 DEF OrderInv
<1>5. RetirementIsExclusive' /\ FlagHasPlanner' /\ MergeWaitEnds'
  BY <1>1, <1>2 DEF RetirementIsExclusive, FlagHasPlanner, MergeWaitEnds
<1>6. ListInv' BY <1>2 DEF IInv, ListInv
<1> QED BY <1>1, <1>2, <1>3, <1>4, <1>5, <1>6 DEF IInv, ThreadInv, TriggerInv, FreshInv,
       TargetIsTracked

\* A retirement starts with nothing else on its way out, on a server of the list, and the
\* order names another server.
LEMMA FindAndRemoveInv == IInv /\ FindAndRemove /\ TypeInv' => IInv'
<1> SUFFICES ASSUME IInv, FindAndRemove, TypeInv' PROVE IInv' OBVIOUS
<1>1. /\ \A n \in Nodes : srv[n].state \notin Retiring /\ (Prompt => order[n] = None)
      /\ \A n \in servers : srv[n].state # "WAITING_FOR_MERGE"
  BY Unhurried DEF FindAndRemove, Idle
<1>2. PICK c \in RemovalChoices : RemovalSignalled(c[1], c[2]) /\ target' = c[1]
  BY DEF FindAndRemove
<1>3. PoolTypeOK /\ CloudTypeOK BY DEF IInv, TypeInv, TypeOK
<1>4. PICK n, m : n = c[1] /\ m = c[2] OBVIOUS
<1>5. /\ n \in servers /\ n \in Nodes /\ servers \in SUBSET Nodes
      /\ m \in servers \cup {None} /\ n # m
  BY <1>3, <1>4, ChoicesType DEF PoolTypeOK
<1>6. RemovalSignalled(n, m) /\ target' = n BY <1>2, <1>4
<1>7. /\ UNCHANGED <<servers, node, alloc>> /\ poolState' = "FLAG_TO_SHIFT"
      /\ lbState' = "DECREASING" /\ pc' = "ready"
  BY <1>6 DEF FindAndRemove, RemovalSignalled, Goto
<1>8. \A k \in Nodes \ {n} : \/ srv'[k] = srv[k]
                             \/ k = m /\ srv'[k].state = "WAITING_FOR_MERGE"
  BY <1>3, <1>5, <1>6 DEF RemovalSignalled, PoolTypeOK, ServerRecords
<1>9. \A k \in Nodes : \/ order'[k] = order[k]
                       \/ k = n /\ order'[k] \in {Kill, m}
  BY <1>3, <1>6 DEF RemovalSignalled, CloudTypeOK
<1>10. OrderInv'
  <2>1. Prompt => \A k \in Nodes : order'[k] # None => k = n BY <1>1, <1>9
  <2>2. Prompt => \A k \in Nodes : order'[k] # None => order'[k] # n
    BY <1>1, <1>5, <1>9, CloudAssumption
  <2> QED BY <1>6, <1>7, <2>1, <2>2 DEF OrderInv, Phase
<1>11. RetirementIsExclusive' BY <1>1, <1>6, <1>8 DEF RetirementIsExclusive, Retiring
<1>12. ListInv' BY <1>5, <1>7, <1>8, CloudAssumption DEF IInv, ListInv
<1>13. TargetIsTracked' BY <1>5, <1>6, <1>7, CloudAssumption DEF TargetIsTracked
<1> QED BY <1>7, <1>10, <1>11, <1>12, <1>13 DEF IInv, ThreadInv, TriggerInv, FreshInv,
       FlagHasPlanner, MergeWaitEnds

LEMMA NoBalanceInv == IInv /\ NoBalance /\ TypeInv' => IInv'
<1> SUFFICES ASSUME IInv, NoBalance, TypeInv' PROVE IInv' OBVIOUS
<1>1. pc' = "ready" /\ UNCHANGED <<lbState, target, poolVars, cloudVars>>
  BY DEF NoBalance, Goto
<1>2. ThreadInv' BY <1>1 DEF ThreadInv
<1> QED BY <1>1, <1>2, Stays

\* A player that joins changes what is counted, never the state of a server.
LEMMA ServerForTeamInv ==
  ASSUME IInv, TypeInv', NEW p \in Players, CommandServerForTeam(p)
  PROVE  IInv'
<1>1. PICK n \in ServerForTeam(TeamOf[p]) : PlayerPlaced(p, n)
  BY DEF CommandServerForTeam
<1>2. /\ srv \in [Nodes -> ServerRecords] /\ servers \in SUBSET Nodes
      /\ target \in Nodes \cup {None}
  BY DEF IInv, TypeInv, TypeOK, PoolTypeOK
<1>3. UNCHANGED <<pc, lbState, target, servers, poolState, alloc, node, order>>
  BY <1>1 DEF CommandServerForTeam, mainVars, PlayerPlaced
<1>4. \A k \in Nodes : srv'[k].state = srv[k].state /\ (k \notin servers => srv'[k] = srv[k])
  BY <1>1, <1>2 DEF PlayerPlaced, PlayerJoined, PlayerAdded, ServerRecords
<1>5. OrderInv' /\ ThreadInv' /\ FreshInv' /\ TargetIsTracked' /\ FlagHasPlanner'
  BY <1>3 DEF IInv, OrderInv, Phase, ThreadInv, FreshInv, TargetIsTracked, FlagHasPlanner
<1>6. ListInv' /\ RetirementIsExclusive' /\ MergeWaitEnds'
  BY <1>2, <1>3, <1>4 DEF IInv, ListInv, RetirementIsExclusive, MergeWaitEnds
<1>7. TriggerInv' BY <1>2, <1>3, <1>4 DEF IInv, TriggerInv, TargetIsTracked
<1> QED BY <1>5, <1>6, <1>7 DEF IInv

\* The world ends orders and resizes, it starts none.
LEMMA WorldMoves ==
  ASSUME CloudTypeOK, CloudStep
  PROVE  /\ alloc = "steady" => alloc' = "steady"
         /\ Prompt => \A k \in Nodes :
              \/ order'[k] = None
              \/ /\ order'[k] = order[k]
                 /\ node[k] \in {"removing", "leaving"} => node'[k] = node[k]
<1> USE DEF CloudTypeOK
<1>1. CASE ResizeEnds BY <1>1 DEF ResizeEnds
<1>2. ASSUME NEW n \in Nodes, AllocateNode(n) \/ GiveUpNode(n) PROVE
         /\ alloc = "resizing" /\ UNCHANGED order
         /\ \A k \in Nodes : node[k] \in {"removing", "leaving"} => node'[k] = node[k]
  BY <1>2 DEF AllocateNode, GiveUpNode, Becomes
<1>3. ASSUME NEW n \in Nodes, NodeStarts(n) \/ NodeStartFails(n) PROVE
         /\ UNCHANGED <<alloc, order>>
         /\ \A k \in Nodes : node[k] \in {"removing", "leaving"} => node'[k] = node[k]
  BY <1>3 DEF NodeStarts, NodeStartFails, Becomes
<1>4. ASSUME NEW n \in Nodes, NodeLost(n) \/ NodeLeaves(n) PROVE
         /\ UNCHANGED alloc
         /\ Prompt => \A k \in Nodes : \/ k = n /\ order'[k] = None
                                       \/ order'[k] = order[k] /\ node'[k] = node[k]
  BY <1>4 DEF NodeLost, NodeLeaves, Becomes, OrderDropped, Prompt
<1>5. ASSUME NEW n \in Nodes, ObeyOrder(n) \/ LoseOrder(n) \/ GameStarts(n) \/ GameStops(n) PROVE
         /\ UNCHANGED <<alloc, node>>
         /\ \A k \in Nodes : order'[k] = None \/ order'[k] = order[k]
  BY <1>5 DEF ObeyOrder, LoseOrder, GameStarts, GameStops
<1>6. ASSUME NEW p \in Players, Connect(p) \/ Leave(p) PROVE UNCHANGED <<alloc, node, order>>
  BY <1>6 DEF Connect, Leave
<1> QED BY <1>1, <1>2, <1>3, <1>4, <1>5, <1>6 DEF CloudStep

LEMMA WorldInv == IInv /\ WorldStep /\ TypeInv' => IInv'
<1> SUFFICES ASSUME IInv, WorldStep, TypeInv' PROVE IInv' OBVIOUS
<1>1. UNCHANGED <<pc, tries, lbState, target, poolState, servers, srv>>
  BY DEF WorldStep, Aside, mainVars, poolVars
<1>2. /\ alloc = "steady" => alloc' = "steady"
      /\ Prompt => \A k \in Nodes :
           \/ order'[k] = None
           \/ /\ order'[k] = order[k]
              /\ node[k] \in {"removing", "leaving"} => node'[k] = node[k]
  BY WorldMoves DEF WorldStep, IInv, TypeInv, TypeOK
<1>3. FreshInv' BY <1>1, <1>2 DEF IInv, FreshInv
<1>4. OrderInv' BY <1>1, <1>2 DEF IInv, OrderInv, Phase
<1> QED BY <1>1, <1>3, <1>4 DEF IInv, ThreadInv, ListInv, TriggerInv, RetirementIsExclusive,
       TargetIsTracked, FlagHasPlanner, MergeWaitEnds

\* The loop that ends leaves all it holds as it is; of the orders, those of a removal stay.
LEMMA CallRaisesInv == IInv /\ CallRaises /\ TypeInv' => IInv'
<1> SUFFICES ASSUME IInv, CallRaises, TypeInv' PROVE IInv' OBVIOUS
<1>1. /\ pc' = "dead" /\ UNCHANGED <<tries, lbState, target, poolState, servers, srv>>
      /\ UNCHANGED order
  BY DEF CallRaises, Goto, poolVars, cloudVars, RaisesAfterRemoval, RaisesInGrowth
<1>2. OrderInv'
  <2>1. CASE UNCHANGED node BY <1>1, <2>1 DEF IInv, OrderInv, Phase
  <2>2. CASE RaisesAfterRemoval
    <3>1. Prompt => \A n \in Nodes : order[n] = None
      BY <2>2, Unhurried DEF RaisesAfterRemoval, Idle
    <3> QED BY <1>1, <3>1 DEF OrderInv
  <2> QED BY <2>1, <2>2 DEF CallRaises, RaisesInGrowth, cloudVars
<1> QED BY <1>1, <1>2 DEF IInv, ThreadInv, FreshInv, ListInv, TriggerInv, RetirementIsExclusive,
       TargetIsTracked, FlagHasPlanner, MergeWaitEnds

LEMMA NextInv == IInv /\ [Next]_vars => IInv'
<1> SUFFICES ASSUME IInv, [Next]_vars PROVE IInv' OBVIOUS
<1>1. TypeInv' BY NextType DEF IInv
<1>2. CASE BootPoll \/ Poll BY <1>1, <1>2, BootInv, PollKeepsInv
<1>3. CASE DecideStep
  BY <1>1, <1>3, DecideIdleInv, DecideGrowingInv, DecideDecreasingInv, TriggerRemovalInv,
     WaitForRemovalInv DEF DecideStep
<1>4. CASE AutoAdd \/ CommandAdd
  BY <1>1, <1>4, AddServerInv DEF AutoAdd, CommandAdd
<1>5. CASE AutoMerge \/ CommandRemove
  BY <1>1, <1>5, FindAndRemoveInv DEF AutoMerge, CommandRemove
<1>6. CASE NoBalance BY <1>1, <1>6, NoBalanceInv
<1>7. CASE \E p \in Players : CommandServerForTeam(p) BY <1>1, <1>7, ServerForTeamInv
<1>8. CASE WorldStep BY <1>1, <1>8, WorldInv
<1>9. CASE UNCHANGED vars
  <2>1. UNCHANGED <<pc, tries, lbState, target, poolState, servers, srv, alloc, order, node>>
    BY <1>9 DEF vars, mainVars, poolVars, cloudVars
  <2> QED BY <1>1, <2>1 DEF IInv, ThreadInv, ListInv, TriggerInv, FreshInv, OrderInv,
         RetirementIsExclusive, TargetIsTracked, FlagHasPlanner, MergeWaitEnds, Phase
<1>10. CASE CallRaises BY <1>1, <1>10, CallRaisesInv
<1> QED BY <1>2, <1>3, <1>4, <1>5, <1>6, <1>7, <1>8, <1>9, <1>10 DEF Next, MainStep, CommandStep

LEMMA Invariance == Spec => []IInv
BY InitInv, NextInv, PTL DEF Spec

-----------------------------------------------------------------------------
(* What follows from it.                                                   *)

\* Two servers are never on their way out at once, for any number of servers, players and
\* faults: signal_remove_server and the states DECREASING to WAIT_FOR_REMOVAL.
THEOREM OneRetirement == Spec => []RetirementIsExclusive
<1>1. IInv => RetirementIsExclusive BY DEF IInv
<1> QED BY <1>1, Invariance, PTL

\* target_deallocation_server is set exactly while it is used and stays in the list, so
\* neither of the two exceptions on it can be raised.
THEOREM TargetTracked == Spec => []TargetIsTracked
<1>1. IInv => TargetIsTracked BY DEF IInv
<1> QED BY <1>1, Invariance, PTL

\* The flag of the pool belongs to a removal that is not finished.
THEOREM RemovalHoldsFlag == Spec => []FlagHasPlanner
<1>1. IInv => FlagHasPlanner BY DEF IInv
<1> QED BY <1>1, Invariance, PTL

\* So does the wait for a merge: no server is kept from new teams once the balancer is idle.
THEOREM RemovalHoldsMerge == Spec => []MergeWaitEnds
<1>1. IInv => MergeWaitEnds BY DEF IInv
<1> QED BY <1>1, Invariance, PTL

\* A DEALLOCATE under way is the one of the current retirement, or its node is already
\* being taken away, the players it moves go to a server that stays, and an idle balancer
\* has none.  So it is while no order outlives the node it was sent to.
THEOREM OrderPurpose ==
  ASSUME "late_order" \notin Faults
  PROVE  Spec => []OrderHasPurpose
<1>0. Prompt BY DEF Prompt
<1>1. ASSUME IInv PROVE OrderHasPurpose
  <2>1. lbState \in LbStates /\ order \in [Nodes -> Nodes \cup {None, Kill}]
    BY <1>1 DEF IInv, TypeInv, TypeOK, CloudTypeOK
  <2>2. Phase \in {"starting", "idle", "growing", "retiring", "removing"}
    BY <2>1 DEF Phase, LbStates
  <2> SUFFICES ASSUME NEW n \in Nodes, order[n] # None
               PROVE  /\ lbState \in {"DECREASING", "TRIGGER_REMOVAL", "WAIT_FOR_REMOVAL"}
                      /\ n = target \/ node[n] \in {"removing", "leaving"}
                      /\ order[n] # Kill => srv[order[n]].state \notin Retiring
    BY DEF OrderHasPurpose
  <2>3. n = target \/ node[n] \in {"removing", "leaving"} BY <1>0, <1>1, <2>2 DEF IInv, OrderInv
  <2>6. lbState \in {"DECREASING", "TRIGGER_REMOVAL", "WAIT_FOR_REMOVAL"} BY <1>0, <1>1, Unhurried
  <2>4. order[n] # target BY <1>0, <1>1 DEF IInv, OrderInv
  <2>5. order[n] # Kill => srv[order[n]].state \notin Retiring
    BY <1>1, <2>1, <2>4 DEF IInv, RetirementIsExclusive
  <2> QED BY <2>3, <2>5, <2>6
<1> QED BY <1>1, Invariance, PTL

-----------------------------------------------------------------------------
(* A retirement from the order to the removal of the node.                 *)

\* What may become of a server that retires.
Course(n) ==
  \/ /\ n \in servers' /\ srv'[n].state \in Retiring
     /\ srv[n].state = "DEACTIVATED" => srv'[n].state = "DEACTIVATED"
  \/ /\ srv[n].state = "DEACTIVATED"
     /\ n \notin servers' /\ node'[n] \in {"removing", "leaving"}

\* The server that leaves is the one the balancer found DEACTIVATED.
LEMMA RemovalCourse ==
  ASSUME IInv, DecideTriggerRemoval, NEW n \in servers, srv[n].state \in Retiring
  PROVE  Course(n)
<1>1. /\ servers \in SUBSET Nodes /\ srv \in [Nodes -> ServerRecords]
      /\ node \in [Nodes -> NodeStates]
  BY DEF IInv, TypeInv, TypeOK, PoolTypeOK, CloudTypeOK
<1>2. n = target /\ srv[n].state = "DEACTIVATED"
  BY <1>1 DEF DecideTriggerRemoval, Decide, IInv, RetirementIsExclusive, TriggerInv
<1>3. CASE UNCHANGED poolVars BY <1>3 DEF poolVars, Course
<1>4. CASE RemovalAccepted(target) /\ ServerDropped(target)
  <2>1. n \notin servers' BY <1>2, <1>4 DEF ServerDropped
  <2>2. node'[n] \in {"removing", "leaving"} BY <1>1, <1>2, <1>4 DEF RemovalAccepted
  <2> QED BY <1>2, <2>1, <2>2 DEF Course
<1> QED BY <1>2, <1>3, <1>4 DEF DecideTriggerRemoval, poolVars, IInv, TargetIsTracked

LEMMA EveryCourse ==
  ASSUME IInv, [Next]_vars, NEW n \in servers, srv[n].state \in Retiring
  PROVE  Course(n)
<1>1. servers \in SUBSET Nodes /\ srv \in [Nodes -> ServerRecords]
  BY DEF IInv, TypeInv, TypeOK, PoolTypeOK
<1>2. lbState \in {"DECREASING", "TRIGGER_REMOVAL"}
  BY <1>1, CloudAssumption DEF IInv, RetirementIsExclusive, TargetIsTracked
<1>3. ASSUME UNCHANGED <<servers, srv>> PROVE Course(n) BY <1>3 DEF Course
<1>4. CASE BootPoll BY <1>2, <1>4 DEF BootPoll, IInv, ThreadInv
<1>5. CASE Poll
  <2>1. UNCHANGED servers BY <1>5 DEF Poll, PollOnce, ServersPolled
  <2> QED BY <1>1, <1>5, <2>1, PollMoves DEF Course, IInv
<1>6. CASE DecideStep
  <2>1. DecideDecreasing \/ DecideTriggerRemoval
    BY <1>2, <1>6 DEF DecideStep, Decide, DecideStable, DecideRestarting, DecideStarting,
       DecideIncreasing, DecideWaitingForNew, DecideWaitForRemoval
  <2>2. CASE DecideDecreasing BY <1>3, <2>2 DEF DecideDecreasing, poolVars
  <2> QED BY <2>1, <2>2, RemovalCourse
<1>7. CASE AutoAdd \/ CommandAdd \/ AutoMerge \/ CommandRemove
  BY <1>2, <1>7 DEF AutoAdd, CommandAdd, AutoMerge, CommandRemove, AddServer, FindAndRemove, Idle
<1>8. CASE NoBalance BY <1>3, <1>8 DEF NoBalance, poolVars
<1>9. ASSUME NEW p \in Players, CommandServerForTeam(p) PROVE Course(n)
  <2>1. UNCHANGED servers /\ srv'[n].state = srv[n].state
    BY <1>1, <1>9 DEF CommandServerForTeam, PlayerPlaced, PlayerJoined, PlayerAdded, ServerRecords
  <2> QED BY <2>1 DEF Course
<1>10. CASE WorldStep BY <1>3, <1>10 DEF WorldStep, Aside, poolVars
<1>11. CASE CallRaises \/ UNCHANGED vars BY <1>3, <1>11 DEF CallRaises, vars, poolVars
<1> QED BY <1>4, <1>5, <1>6, <1>7, <1>8, <1>9, <1>10, <1>11 DEF Next, MainStep, CommandStep

\* A retirement is neither undone nor cut short by polls, crashes, commands and rebuilt
\* lists: it ends when the service takes the node of a server found DEACTIVATED.
THEOREM RetirementKept == Spec => RetirementRunsItsCourse
<1>1. IInv /\ [Next]_vars => [\A n \in servers : srv[n].state \in Retiring =>
        \/ /\ n \in servers' /\ srv'[n].state \in Retiring
           /\ srv[n].state = "DEACTIVATED" => srv'[n].state = "DEACTIVATED"
        \/ /\ srv[n].state = "DEACTIVATED"
           /\ n \notin servers' /\ node'[n] \in {"removing", "leaving"}]_vars
  BY EveryCourse DEF Course
<1> QED BY <1>1, Invariance, PTL DEF Spec, RetirementRunsItsCourse

-----------------------------------------------------------------------------
(* The load balancer implements PoolChange.                                *)

LEMMA DecideChanges ==
  ASSUME IInv, TypeInv', DecideStep
  PROVE  [Change!Next]_(Change!changeVars)
<1> USE DEF Change!Next, Change!changeVars, Change!Move, Change!ListRead, Phase
<1>0. servers' \in SUBSET Nodes BY DEF TypeInv, TypeOK, PoolTypeOK
<1>1. CASE DecideStable \/ DecideRestarting
  <2>1. UNCHANGED target /\ Phase = "idle" /\ Phase' \in {"idle", "removing"}
    BY <1>1 DEF DecideStable, DecideRestarting, Decide
  <2> QED BY <1>0, <2>1 DEF Change!Expel
<1>2. CASE DecideStarting
  <2>1. UNCHANGED <<target, servers>> BY <1>2 DEF DecideStarting, poolVars
  <2> QED BY <1>2, <2>1 DEF DecideStarting, Change!Open
<1>3. CASE DecideIncreasing \/ DecideWaitingForNew
  <2>1. UNCHANGED target /\ Phase = "growing" /\ Phase' \in {"growing", "idle"}
    BY <1>3 DEF DecideIncreasing, DecideWaitingForNew, Decide
  <2> QED BY <1>0, <2>1 DEF Change!Grown
<1>4. CASE DecideDecreasing
  <2>1. UNCHANGED <<target, servers>> /\ Phase = "retiring" /\ Phase' = "retiring"
    BY <1>4 DEF DecideDecreasing, Decide, poolVars
  <2> QED BY <2>1
<1>5. CASE DecideTriggerRemoval
  <2>1. Phase = "retiring" /\ target \in servers
    BY <1>5 DEF DecideTriggerRemoval, Decide, IInv, TargetIsTracked
  <2>2. \/ UNCHANGED <<Phase, target, servers>>
        \/ Phase' = "removing" /\ servers' = servers \ {target} /\ target' = None
    BY <1>5, <2>1 DEF DecideTriggerRemoval, ServerDropped, poolVars
  <2> QED BY <2>1, <2>2 DEF Change!Remove
<1>6. CASE DecideWaitForRemoval
  <2>1. UNCHANGED target /\ Phase = "removing" BY <1>6 DEF DecideWaitForRemoval, Decide
  <2>2. IF IsPoolSteady THEN Phase' = "idle" ELSE UNCHANGED <<Phase, servers>>
    BY <1>6, <2>1 DEF DecideWaitForRemoval, Decide, ServerListUpdated
  <2> QED BY <1>0, <2>1, <2>2 DEF Change!Removed
<1> QED BY <1>1, <1>2, <1>3, <1>4, <1>5, <1>6 DEF DecideStep

LEMMA StepChanges ==
  ASSUME IInv, [Next]_vars
  PROVE  [Change!Next]_(Change!changeVars)
<1> USE DEF Change!Next, Change!changeVars, Change!Move, Change!ListRead
<1>0. TypeInv' /\ servers' \in SUBSET Nodes BY NextType DEF IInv, TypeInv, TypeOK, PoolTypeOK
<1>1. ASSUME UNCHANGED <<lbState, target, servers>> PROVE UNCHANGED Change!changeVars
  BY <1>1 DEF Phase
<1>2. CASE BootPoll
  BY <1>0, <1>2 DEF BootPoll, IInv, ThreadInv, Phase, Change!Discover
<1>3. CASE Poll BY <1>1, <1>3 DEF Poll, PollOnce, ServersPolled
<1>4. CASE DecideStep BY <1>0, <1>4, DecideChanges
<1>5. CASE AutoAdd \/ CommandAdd
  <2>1. Phase = "idle" /\ UNCHANGED <<target, servers>> /\ Phase' \in {"idle", "growing"}
    BY <1>5 DEF AutoAdd, CommandAdd, AddServer, Idle, Phase, poolVars
  <2> QED BY <2>1 DEF Change!Grow
<1>6. CASE AutoMerge \/ CommandRemove
  <2>1. Phase = "idle" /\ Phase' = "retiring" /\ UNCHANGED servers
    BY <1>6 DEF AutoMerge, CommandRemove, FindAndRemove, Idle, Phase, RemovalSignalled
  <2>2. target' \in servers
    BY <1>6, ChoicesType DEF AutoMerge, CommandRemove, FindAndRemove, IInv, TypeInv, TypeOK
  <2> QED BY <2>1, <2>2 DEF Change!Retire
<1>7. CASE NoBalance BY <1>1, <1>7 DEF NoBalance, poolVars
<1>8. CASE \E p \in Players : CommandServerForTeam(p)
  BY <1>1, <1>8 DEF CommandServerForTeam, PlayerPlaced, mainVars
<1>9. CASE WorldStep BY <1>1, <1>9 DEF WorldStep, Aside, mainVars, poolVars
<1>10. CASE CallRaises \/ UNCHANGED vars
  BY <1>1, <1>10 DEF CallRaises, vars, mainVars, poolVars
<1> QED BY <1>2, <1>3, <1>4, <1>5, <1>6, <1>7, <1>8, <1>9, <1>10
       DEF Next, MainStep, CommandStep

\* The load balancer takes the pool through one change at a time: what PoolChange allows is
\* all that happens to the list, to the server being retired and to the phase.
THEOREM OneChangeAtATime == Spec => ImplementsPoolChange
<1>1. Init => Change!Init BY DEF Init, PoolInit, Change!Init, Phase
<1>2. IInv /\ [Next]_vars => [Change!Next]_(Change!changeVars) BY StepChanges
<1> QED BY <1>1, <1>2, Invariance, PTL DEF Spec, ImplementsPoolChange, Change!Spec
=============================================================================

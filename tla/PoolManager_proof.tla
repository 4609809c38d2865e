--------------------------- MODULE PoolManager_proof ---------------------------
(***************************************************************************)
(* Theorems about what the load balancer knows of the pool.  First the map *)
(* of teams, the players the Server objects hold and their playercount:    *)
(* what a step can do to them is one of six things (RosterSteps), and      *)
(* TeamInv holds over each.  Then the list of servers, which is the pool   *)
(* when the balancer is idle.                                              *)
(***************************************************************************)
EXTENDS LoadBalancer_proof

\* Every team of a listed server is mapped.
Hosted == \A n \in servers : \A t \in TeamsOn(srv[n]) : teamMap[t] # None

\* An object that counts no player holds none.
Counted == \A n \in Nodes : srv[n].playercount = 0 => DOMAIN srv[n].player_team = {}

\* An entry that points to a listed object points to one that counts players.
Populated ==
  \A t \in AnyTeam \ detached : teamMap[t] \in servers => srv[teamMap[t]].playercount > 0

TeamInv == Hosted /\ Counted /\ Populated

-----------------------------------------------------------------------------
(* What the methods of a Server object do to its players.                  *)

SameRoster(s, before) == s.player_team = before.player_team /\ s.playercount = before.playercount

LEMMA PolledRoster ==
  ASSUME NEW s \in ServerRecords, NEW r \in Replies
  PROVE  \/ SameRoster(Polled(s, r), s)
         \/ /\ Polled(s, r).player_team = [p \in r.seen |-> IF p \in DOMAIN s.player_team
                                                            THEN s.player_team[p] ELSE MasterTeam[p]]
            /\ Polled(s, r).playercount = Cardinality(r.seen)
<1> DEFINE taken(x) == /\ x.player_team = [p \in r.seen |-> IF p \in DOMAIN s.player_team
                                                            THEN s.player_team[p] ELSE MasterTeam[p]]
                       /\ x.playercount = Cardinality(r.seen)
<1>1. \A x \in ServerRecords : /\ SameRoster(Missed(x), x) /\ SameRoster(Forgiven(x), x)
                               /\ \A limit : SameRoster(CrashedBeyond(x, limit), x)
                               /\ \A api : SameRoster(ApiChecked(x, api), x)
  BY DEF SameRoster, Missed, Forgiven, CrashedBeyond, ApiChecked, ServerRecords
<1>2. \A x \in ServerRecords : \A answer : SameRoster(NotAnswered(x, answer), x)
  BY <1>1 DEF NotAnswered, SameRoster
<1>3. r.seen \in SUBSET Players /\ s.state \in States BY DEF Replies, ServerRecords
<1>4. \A x \in ServerRecords : \A st : SameRoster([x EXCEPT !.state = st], x)
  BY DEF SameRoster, ServerRecords
<1>5. SameRoster(PollInitializing(s, r), s) /\ SameRoster(PollCrashed(s, r), s)
  <2>1. NotAnswered(s, r.mc) \in ServerRecords /\ Forgiven(s) \in ServerRecords BY CounterType
  <2> QED BY <1>1, <1>2, <1>4, <2>1 DEF PollInitializing, PollCrashed, SameRoster
<1>6. SameRoster(PollRequested(s, r), s) /\ SameRoster(PollConfirming(s, r), s)
  BY <1>4 DEF PollRequested, PollConfirming, SameRoster
<1>7. \A x \in ServerRecords : SameRoster(x, s) =>
        LET y == SampleTaken(x, r.seen) IN y \in ServerRecords /\ taken(y)
  BY <1>3, SampleType DEF SampleTaken, SameRoster, ServerRecords
<1>8. SameRoster(s, s) BY DEF SameRoster
<1>9. taken(PollServing(s, r)) \/ SameRoster(PollServing(s, r), s)
  <2>1. CASE r.mc # "answer"
    <3>1. NotAnswered(s, r.mc) \in ServerRecords BY CounterType
    <3> QED BY <1>1, <1>2, <2>1, <3>1 DEF PollServing, SameRoster
  <2>2. CASE r.mc = "answer"
    <3> DEFINE y == SampleTaken(s, r.seen)
    <3>1. y \in ServerRecords /\ taken(y) BY <1>7, <1>8
    <3> HIDE DEF y
    <3>2. Missed(y) \in ServerRecords BY <3>1, CounterType
    <3>3. taken(CrashedBeyond(Missed(y), MaxFails)) /\ taken(ApiChecked(y, r.api))
      BY <1>1, <3>1, <3>2 DEF SameRoster
    <3> QED BY <2>2, <3>3 DEF PollServing, y
  <2> QED BY <2>1, <2>2
<1>10. taken(PollTaskFailed(s, r)) \/ SameRoster(PollTaskFailed(s, r), s)
  <2> DEFINE x == ApiChecked(s, r.api)
  <2>1. x \in ServerRecords /\ SameRoster(x, s) BY <1>1, ApiCheckType
  <2> HIDE DEF x
  <2>2. NotAnswered(x, r.mc) \in ServerRecords BY <2>1, CounterType
  <2>3. SameRoster(CrashedBeyond(NotAnswered(x, r.mc), MaxFails), s)
    BY <1>1, <1>2, <2>1, <2>2 DEF SameRoster
  <2>4. taken(SampleTaken(x, r.seen)) BY <1>7, <2>1
  <2> QED BY <2>3, <2>4 DEF PollTaskFailed, x
<1> QED BY <1>3, <1>5, <1>6, <1>8, <1>9, <1>10 DEF Polled, States

LEMMA DecommissionedRoster ==
  ASSUME NEW s \in ServerRecords, NEW hasTarget, NEW answer
  PROVE  SameRoster(Decommissioned(s, hasTarget, answer), s)
<1>1. Forgiven(s) \in ServerRecords /\ AliveChecked(s, answer) \in ServerRecords BY CounterType
<1>2. SameRoster(Forgiven(s), s) /\ SameRoster(AliveChecked(s, answer), s)
  BY DEF SameRoster, Forgiven, AliveChecked, NotAnswered, Missed, ServerRecords
<1>3. \A x \in ServerRecords : \A st : SameRoster([x EXCEPT !.state = st], x)
  BY DEF SameRoster, ServerRecords
<1> QED BY <1>1, <1>2, <1>3 DEF Decommissioned, SameRoster

\* The first poll of a fresh object takes no sample.
LEMMA FirstPoll ==
  ASSUME NEW r
  PROVE  SameRoster(Polled(NewServer, r), NewServer)
  BY DEF Polled, NewServer, PollInitializing, Forgiven, NotAnswered, Missed, CrashedBeyond, SameRoster

-----------------------------------------------------------------------------
(* What a step of the load balancer does to objects and map.               *)

\* Nothing but the state and the failures of objects.
RosterKept ==
  /\ UNCHANGED <<servers, teamMap, detached>>
  /\ \A n \in Nodes : SameRoster(srv'[n], srv[n])

RosterStep ==
  \/ UNCHANGED <<servers, srv, teamMap, detached>>
  \/ \E n \in Nodes : \E m \in Nodes \cup {None} : RemovalSignalled(n, m)
  \/ \E api \in ApiChoices, due \in BOOLEAN : ServersPolled(api, due)
  \/ \E list \in SUBSET Nodes : ListRebuilt(list)
  \/ \E n \in Nodes : ServerDropped(n)
  \/ \E p \in Players : \E n \in ServerForTeam(TeamOf[p]) : PlayerPlaced(p, n)

LEMMA SignalledRoster ==
  ASSUME PoolTypeOK, NEW n \in Nodes, NEW m \in Nodes \cup {None}, RemovalSignalled(n, m)
  PROVE  RosterKept
<1>1. PICK late : srv' = LET retired == [srv EXCEPT ![n] =
                                          Decommissioned(@, m # None, StatusOf(n, late))]
                         IN  IF m = None THEN retired
                             ELSE [retired EXCEPT ![m].state = "WAITING_FOR_MERGE"]
  BY DEF RemovalSignalled
<1> DEFINE retired == [srv EXCEPT ![n] = Decommissioned(srv[n], m # None, StatusOf(n, late))]
<1>2. \A k \in Nodes : retired[k] \in ServerRecords /\ SameRoster(retired[k], srv[k])
  BY DecommissionedType, DecommissionedRoster DEF PoolTypeOK, SameRoster
<1>3. srv' = IF m = None THEN retired ELSE [retired EXCEPT ![m].state = "WAITING_FOR_MERGE"]
  BY <1>1
<1>4. retired \in [Nodes -> ServerRecords] BY <1>2 DEF PoolTypeOK
<1> HIDE DEF retired
<1>5. \A x \in ServerRecords : \A st : SameRoster([x EXCEPT !.state = st], x)
  BY DEF SameRoster, ServerRecords
<1>6. \A k \in Nodes : SameRoster(srv'[k], srv[k])
  BY <1>2, <1>3, <1>4, <1>5 DEF SameRoster
<1> QED BY <1>6 DEF RemovalSignalled, RosterKept

LEMMA RosterSteps == TypeInv /\ [Next]_vars => RosterStep
<1> SUFFICES ASSUME TypeInv, [Next]_vars PROVE RosterStep OBVIOUS
<1> USE DEF RosterStep, poolVars
<1>0. PoolTypeOK BY DEF TypeInv, TypeOK
<1>2. CASE BootPoll BY <1>2, ListedType DEF BootPoll
<1>3. CASE Poll BY <1>3 DEF Poll, PollOnce
<1>4. CASE DecideStable \/ DecideRestarting
  <2>1. CASE UNCHANGED poolVars BY <2>1
  <2>2. ASSUME NEW n \in CrashedServers, CrashedRemoved(n) PROVE RosterStep
    <3>1. n \in Nodes BY <1>0 DEF CrashedServers, ServersIn, PoolTypeOK
    <3> QED BY <2>2, <3>1, ListedType DEF CrashedRemoved
  <2> QED BY <1>4, <2>1, <2>2 DEF DecideStable, DecideRestarting, CrashedKept
<1>5. CASE DecideStarting \/ DecideDecreasing \/ NoBalance
  BY <1>5 DEF DecideStarting, DecideDecreasing, NoBalance
<1>6. CASE DecideIncreasing \/ DecideWaitingForNew \/ DecideWaitForRemoval
  BY <1>6, ListedType
     DEF DecideIncreasing, DecideWaitingForNew, DecideWaitForRemoval, ServerListUpdated
<1>7. CASE DecideTriggerRemoval
  <2>1. target # None => target \in Nodes BY DEF TypeInv, TypeOK
  <2> QED BY <1>7, <2>1 DEF DecideTriggerRemoval
<1>8. CASE AutoAdd \/ CommandAdd
  BY <1>8 DEF AutoAdd, CommandAdd, AddServer
<1>9. CASE AutoMerge \/ CommandRemove
  <2>1. PICK c \in RemovalChoices : RemovalSignalled(c[1], c[2])
    BY <1>9 DEF AutoMerge, CommandRemove, FindAndRemove
  <2>2. c[1] \in Nodes /\ c[2] \in Nodes \cup {None} BY <1>0, ChoicesType DEF PoolTypeOK
  <2> QED BY <2>1, <2>2
<1>10. CASE \E p \in Players : CommandServerForTeam(p)
  BY <1>10 DEF CommandServerForTeam
<1>11. CASE WorldStep BY <1>11 DEF WorldStep, Aside
<1>12. CASE CallRaises \/ UNCHANGED vars BY <1>12 DEF CallRaises, vars
<1> QED BY <1>2, <1>3, <1>4, <1>5, <1>6, <1>7, <1>8, <1>9, <1>10, <1>11, <1>12
       DEF Next, MainStep, DecideStep, CommandStep

-----------------------------------------------------------------------------
(* The invariant over each of these.                                       *)

LEMMA Initially == Init => TeamInv
<1> SUFFICES ASSUME Init PROVE TeamInv OBVIOUS
<1>1. servers = {} /\ \A n \in Nodes : srv[n] = NewServer BY DEF Init, PoolInit
<1> QED BY <1>1 DEF TeamInv, Hosted, Counted, Populated, NewServer

LEMMA KeptRoster ==
  ASSUME TypeInv,
         \/ UNCHANGED <<servers, srv, teamMap, detached>>
         \/ \E n \in Nodes : \E m \in Nodes \cup {None} : RemovalSignalled(n, m)
  PROVE  RosterKept
<1>1. PoolTypeOK BY DEF TypeInv, TypeOK
<1>2. CASE UNCHANGED <<servers, srv, teamMap, detached>> BY <1>2 DEF RosterKept, SameRoster
<1> QED BY <1>1, <1>2, SignalledRoster

LEMMA OverKept == TypeInv /\ TeamInv /\ RosterKept => TeamInv'
<1> SUFFICES ASSUME TypeInv, TeamInv, RosterKept PROVE TeamInv' OBVIOUS
<1>1. servers \in SUBSET Nodes BY DEF TypeInv, TypeOK, PoolTypeOK
<1>2. \A n \in Nodes : TeamsOn(srv'[n]) = TeamsOn(srv[n]) BY DEF RosterKept, SameRoster, TeamsOn
<1>3. Hosted' BY <1>1, <1>2 DEF TeamInv, RosterKept, Hosted
<1>4. Counted' BY DEF TeamInv, RosterKept, SameRoster, Counted
<1>5. Populated' BY <1>1 DEF TeamInv, RosterKept, SameRoster, Populated
<1> QED BY <1>3, <1>4, <1>5 DEF TeamInv

\* The map is refilled from the samples, and a sample of nobody counts nobody.
LEMMA OverPolled ==
  ASSUME TypeInv, TypeInv', TeamInv, NEW api \in ApiChoices, NEW due \in BOOLEAN,
         ServersPolled(api, due)
  PROVE  TeamInv'
<1>1. /\ servers \in SUBSET Nodes /\ UNCHANGED servers
      /\ srv \in [Nodes -> ServerRecords] /\ srv' \in [Nodes -> ServerRecords]
  BY DEF TypeInv, TypeOK, PoolTypeOK, ServersPolled
<1>2. Counted'
  <2> SUFFICES ASSUME NEW n \in Nodes, srv'[n].playercount = 0
               PROVE  DOMAIN srv'[n].player_team = {}
    BY DEF Counted
  <2>1. CASE n \notin servers
    <3>1. srv'[n] = srv[n] BY <2>1 DEF ServersPolled
    <3> QED BY <3>1 DEF TeamInv, Counted
  <2>2. CASE n \in servers
    <3>1. PICK late : srv'[n] = Polled(srv[n], ReplyOf(n, api[n], due, late))
      BY <2>2 DEF ServersPolled
    <3>2. api[n] \in ApiOutcomes BY <2>2, PoolAssumption DEF ApiChoices
    <3> DEFINE r == ReplyOf(n, api[n], due, late)
    <3>3. r \in Replies /\ r.seen \in SUBSET Players
      BY <3>2, ReplyType DEF TypeInv, TypeOK, Replies
    <3>6. srv'[n] = Polled(srv[n], r) /\ srv[n] \in ServerRecords BY <1>1, <3>1
    <3> HIDE DEF r
    <3>4. \/ SameRoster(srv'[n], srv[n])
          \/ DOMAIN srv'[n].player_team = r.seen /\ srv'[n].playercount = Cardinality(r.seen)
      <4>1. \/ SameRoster(Polled(srv[n], r), srv[n])
            \/ /\ DOMAIN Polled(srv[n], r).player_team = r.seen
               /\ Polled(srv[n], r).playercount = Cardinality(r.seen)
        <5>1. \/ SameRoster(Polled(srv[n], r), srv[n])
              \/ /\ Polled(srv[n], r).player_team =
                      [p \in r.seen |-> IF p \in DOMAIN srv[n].player_team
                                        THEN srv[n].player_team[p] ELSE MasterTeam[p]]
                 /\ Polled(srv[n], r).playercount = Cardinality(r.seen)
          BY <3>3, <3>6, PolledRoster
        <5> QED BY <5>1
      <4> QED BY <3>6, <4>1
    <3>5. Cardinality(r.seen) = 0 => r.seen = {}
      BY <3>3, ServerAssumption, FS_Subset, FS_EmptySet
    <3> QED BY <3>4, <3>5 DEF TeamInv, Counted, SameRoster
  <2> QED BY <2>1, <2>2
<1>3. \A n \in servers, t \in AnyTeam : t \in TeamsOn(srv'[n]) => srv'[n].playercount > 0
  <2> SUFFICES ASSUME NEW n \in servers, NEW t \in AnyTeam, t \in TeamsOn(srv'[n])
               PROVE  srv'[n].playercount > 0
    OBVIOUS
  <2>1. DOMAIN srv'[n].player_team # {} BY DEF TeamsOn
  <2>2. srv'[n].playercount \in Nat BY <1>1 DEF ServerRecords
  <2> QED BY <1>1, <1>2, <2>1, <2>2 DEF Counted
<1>4. \A n \in servers : TeamsOn(srv'[n]) \subseteq AnyTeam
  BY <1>1 DEF TeamsOn, ServerRecords, TeamMaps
<1>5. \A t \in AnyTeam : IF {n \in servers : t \in TeamsOn(srv'[n])} = {} THEN teamMap'[t] = None
                         ELSE teamMap'[t] \in {n \in servers : t \in TeamsOn(srv'[n])}
  BY DEF ServersPolled, TeamsRemapped
<1>6. None \notin servers BY <1>1, CloudAssumption
<1>7. Hosted' BY <1>1, <1>4, <1>5, <1>6 DEF Hosted
<1>8. Populated' BY <1>1, <1>3, <1>5, <1>6 DEF Populated
<1> QED BY <1>2, <1>7, <1>8 DEF TeamInv

\* A rebuilt list knows nobody, and detaches every entry there is.
LEMMA OverRebuilt ==
  ASSUME TypeInv, TypeInv', NEW list \in SUBSET Nodes, ListRebuilt(list)
  PROVE  TeamInv'
<1>1. \A n \in Nodes : SameRoster(srv'[n], NewServer)
  BY FirstPoll DEF ListRebuilt, SameRoster
<1>2. \A n \in Nodes : DOMAIN srv'[n].player_team = {} BY <1>1 DEF SameRoster, NewServer
<1>3. servers' \in SUBSET Nodes BY DEF ListRebuilt
<1>4. Hosted' BY <1>2, <1>3 DEF Hosted, TeamsOn
<1>5. \A t \in AnyTeam \ detached' : teamMap'[t] = None BY DEF ListRebuilt, MappedTeams
<1>6. Populated' BY <1>3, <1>5, CloudAssumption DEF Populated
<1> QED BY <1>2, <1>4, <1>6 DEF TeamInv, Counted

LEMMA OverDropped ==
  ASSUME TypeInv, TeamInv, NEW n \in Nodes, ServerDropped(n)
  PROVE  TeamInv'
<1>1. servers \in SUBSET Nodes /\ srv \in [Nodes -> ServerRecords]
  BY DEF TypeInv, TypeOK, PoolTypeOK
<1>2. /\ servers' = servers \ {n} /\ UNCHANGED <<teamMap, detached>>
      /\ srv'[n] = NewServer
      /\ \A m \in Nodes \ {n} : srv'[m] = srv[m]
  BY <1>1 DEF ServerDropped
<1>3. Counted' BY <1>2 DEF TeamInv, Counted, NewServer
<1>4. Hosted' BY <1>1, <1>2 DEF TeamInv, Hosted
<1>5. Populated' BY <1>1, <1>2 DEF TeamInv, Populated
<1> QED BY <1>3, <1>4, <1>5 DEF TeamInv

\* A player that joins is counted where its team is mapped to.
LEMMA PlacedRoster ==
  ASSUME PoolTypeOK, NEW p \in Players, NEW n \in ServerForTeam(TeamOf[p]), PlayerPlaced(p, n)
  PROVE  /\ n \in Nodes /\ TeamOf[p] \in AnyTeam /\ UNCHANGED <<servers, detached>>
         /\ teamMap'[TeamOf[p]] = n
         /\ \A t \in AnyTeam \ {TeamOf[p]} : teamMap'[t] = teamMap[t]
         /\ \A m \in Nodes : \/ srv'[m] = srv[m] /\ (m = n => m \notin servers \/ TeamOf[p] \in detached)
                             \/ m = n /\ srv'[m] = PlayerJoined(srv[m], p, TeamOf[p])
<1>1. TeamOf[p] \in AnyTeam BY PoolAssumption DEF AnyTeam
<1>2. n \in Nodes BY PlaceableServers
<1> QED BY <1>1, <1>2 DEF PlayerPlaced, PoolTypeOK

LEMMA JoinedRoster ==
  ASSUME NEW s \in ServerRecords, NEW p \in Players, NEW t \in AnyTeam
  PROVE  /\ PlayerJoined(s, p, t).playercount \in Nat
         /\ PlayerJoined(s, p, t).playercount > 0
         /\ PlayerJoined(s, p, t).player_team = [q \in DOMAIN s.player_team \cup {p} |->
                                                  IF q = p THEN t ELSE s.player_team[q]]
         /\ PlayerJoined(s, p, t).state = s.state
         /\ TeamsOn(PlayerJoined(s, p, t)) \subseteq TeamsOn(s) \cup {t}
<1>0. PlayerAdded(s, p, t) \in ServerRecords BY PlayerAddedType
<1>1. /\ PlayerAdded(s, p, t).playercount = s.playercount + 1
      /\ PlayerAdded(s, p, t).state = s.state
      /\ PlayerAdded(s, p, t).player_team = [q \in DOMAIN s.player_team \cup {p} |->
                                                 IF q = p THEN t ELSE s.player_team[q]]
  BY DEF PlayerAdded, ServerRecords
<1>2. s.playercount \in Nat BY DEF ServerRecords
<1>3. PlayerJoined(s, p, t).playercount \in {s.playercount, s.playercount + 1}
      /\ (s.playercount < MaxCount => PlayerJoined(s, p, t).playercount = s.playercount + 1)
  BY <1>0, <1>1 DEF PlayerJoined, ServerRecords
<1>4. PlayerJoined(s, p, t).playercount \in Nat /\ PlayerJoined(s, p, t).playercount > 0
  BY <1>2, <1>3, PoolAssumption
<1>5. /\ PlayerJoined(s, p, t).player_team = PlayerAdded(s, p, t).player_team
      /\ PlayerJoined(s, p, t).state = s.state
  BY <1>0, <1>1 DEF PlayerJoined, ServerRecords
<1>6. TeamsOn(PlayerJoined(s, p, t)) \subseteq TeamsOn(s) \cup {t} BY <1>1, <1>5 DEF TeamsOn
<1> QED BY <1>1, <1>4, <1>5, <1>6

LEMMA OverPlaced ==
  ASSUME TypeInv, TeamInv, NEW p \in Players, NEW n \in ServerForTeam(TeamOf[p]), PlayerPlaced(p, n)
  PROVE  TeamInv'
<1> DEFINE team == TeamOf[p]
<1>1. PoolTypeOK /\ servers \in SUBSET Nodes /\ srv \in [Nodes -> ServerRecords]
  BY DEF TypeInv, TypeOK, PoolTypeOK
<1>2. /\ n \in Nodes /\ team \in AnyTeam /\ UNCHANGED <<servers, detached>>
      /\ teamMap'[team] = n
      /\ \A t \in AnyTeam \ {team} : teamMap'[t] = teamMap[t]
      /\ \A m \in Nodes : \/ srv'[m] = srv[m] /\ (m = n => m \notin servers \/ team \in detached)
                          \/ m = n /\ srv'[m] = PlayerJoined(srv[m], p, team)
  BY <1>1, PlacedRoster
<1> HIDE DEF team
<1>3. \A m \in Nodes : /\ srv[m].playercount \in Nat
                       /\ TeamsOn(srv[m]) \subseteq AnyTeam
  BY <1>1 DEF TeamsOn, ServerRecords, TeamMaps
<1>4. \A m \in Nodes : \/ srv'[m] = srv[m]
                       \/ /\ m = n /\ srv'[m].playercount \in Nat /\ srv'[m].playercount > 0
                          /\ TeamsOn(srv'[m]) \subseteq TeamsOn(srv[m]) \cup {team}
  <2> SUFFICES ASSUME NEW m \in Nodes, m = n, srv'[m] = PlayerJoined(srv[m], p, team)
               PROVE  /\ srv'[m].playercount \in Nat /\ srv'[m].playercount > 0
                      /\ TeamsOn(srv'[m]) \subseteq TeamsOn(srv[m]) \cup {team}
    BY <1>2
  <2>1. srv[m] \in ServerRecords BY <1>1
  <2>2. /\ PlayerJoined(srv[m], p, team).playercount \in Nat
        /\ PlayerJoined(srv[m], p, team).playercount > 0
        /\ TeamsOn(PlayerJoined(srv[m], p, team)) \subseteq TeamsOn(srv[m]) \cup {team}
    BY <1>2, <2>1, JoinedRoster
  <2> QED BY <2>2
<1>5. Counted' BY <1>3, <1>4 DEF TeamInv, Counted
<1>6. Hosted'
  <2> SUFFICES ASSUME NEW m \in servers, NEW t \in TeamsOn(srv'[m]) PROVE teamMap'[t] # None
    BY <1>2 DEF Hosted
  <2>1. t \in TeamsOn(srv[m]) \/ t = team BY <1>1, <1>4
  <2>2. t \in AnyTeam BY <1>1, <1>2, <1>3, <2>1
  <2> QED BY <1>2, <2>1, <2>2, CloudAssumption DEF TeamInv, Hosted
<1>7. Populated'
  <2> SUFFICES ASSUME NEW t \in AnyTeam \ detached, teamMap'[t] \in servers
               PROVE  srv'[teamMap'[t]].playercount > 0
    BY <1>2 DEF Populated
  <2>1. CASE t = team
    <3>1. n \in servers /\ team \notin detached BY <1>2, <2>1
    <3>2. srv'[n] = PlayerJoined(srv[n], p, team) BY <1>2, <3>1
    <3>3. srv[n] \in ServerRecords BY <1>1, <1>2
    <3>4. PlayerJoined(srv[n], p, team).playercount > 0 BY <1>2, <3>3, JoinedRoster
    <3> QED BY <1>2, <2>1, <3>2, <3>4
  <2>2. CASE t # team
    <3>1. teamMap'[t] = teamMap[t] BY <1>2, <2>2
    <3>2. srv[teamMap[t]].playercount > 0 BY <3>1 DEF TeamInv, Populated
    <3> QED BY <1>1, <1>3, <1>4, <3>1, <3>2
  <2> QED BY <2>1, <2>2
<1> QED BY <1>5, <1>6, <1>7 DEF TeamInv

LEMMA NextTeam == TypeInv /\ TeamInv /\ [Next]_vars => TeamInv'
<1> SUFFICES ASSUME TypeInv, TeamInv, [Next]_vars PROVE TeamInv' OBVIOUS
<1>1. TypeInv' BY NextType
<1>2. RosterStep BY RosterSteps
<1> QED BY <1>1, <1>2, KeptRoster, OverKept, OverPolled, OverRebuilt, OverDropped, OverPlaced DEF RosterStep

\* A poll comes before every decision and replaces what a rebuilt list left behind.
DecidesRemapped == pc = "decide" => detached = {}

LEMMA NextRemapped == DecidesRemapped /\ [Next]_vars => DecidesRemapped'
<1> SUFFICES ASSUME DecidesRemapped, [Next]_vars, pc' = "decide" PROVE detached' = {}
  BY DEF DecidesRemapped
<1> USE DEF Goto
<1>1. CASE Poll BY <1>1 DEF Poll, PollOnce, ServersPolled, TeamsRemapped
<1>2. CASE BootPoll BY <1>2 DEF BootPoll
<1>3. CASE DecideStep
  BY <1>3 DEF DecideStep, DecideStable, DecideRestarting, DecideStarting, DecideIncreasing,
     DecideWaitingForNew, DecideDecreasing, DecideTriggerRemoval, DecideWaitForRemoval
<1>4. CASE AutoAdd \/ CommandAdd \/ CallRaises BY <1>4 DEF AutoAdd, CommandAdd, AddServer, CallRaises
<1>5. CASE AutoMerge \/ CommandRemove \/ NoBalance
  BY <1>5 DEF AutoMerge, CommandRemove, FindAndRemove, NoBalance
<1>6. CASE \E p \in Players : CommandServerForTeam(p)
  BY <1>6 DEF CommandServerForTeam, Listening, mainVars
<1>7. CASE WorldStep \/ UNCHANGED vars
  BY <1>7 DEF WorldStep, Aside, vars, mainVars, poolVars, DecidesRemapped
<1> QED BY <1>1, <1>2, <1>3, <1>4, <1>5, <1>6, <1>7 DEF Next, MainStep, CommandStep

\* No team is sent to a server that is shut down as an empty one (PoolManager:236),
\* whatever the order of joins, polls and retirements, but for a team whose entry a rebuilt
\* list left behind (PoolManager:122), and that only until the next poll.
THEOREM ShutDownUnmapped == Spec => []NoTeamSentToShutDown
<1>1. Init => DecidesRemapped BY DEF Init, DecidesRemapped
<1>2. ASSUME TypeInv, TeamInv, DecidesRemapped PROVE NoTeamSentToShutDown
  <2> SUFFICES ASSUME NEW n \in servers, srv[n].playercount = 0, NEW t \in AnyTeam, teamMap[t] = n
               PROVE  t \in detached /\ pc # "decide"
    BY DEF NoTeamSentToShutDown
  <2>1. t \in detached BY <1>2 DEF TeamInv, Populated
  <2> QED BY <1>2, <2>1 DEF DecidesRemapped
<1> QED BY <1>1, <1>2, InitType, NextType, Initially, NextTeam, NextRemapped, PTL DEF Spec

-----------------------------------------------------------------------------
(* Map and objects agree, if the teams API does not contradict the lobby:  *)
(* it lists a player under the team the lobby names, or not at all.        *)

ApiAgrees == \A p \in Players : MasterTeam[p] \in {TeamOf[p], NoTeam}

\* Every player is held under the team of the lobby, or under -1.
Known ==
  \A n \in Nodes : \A p \in DOMAIN srv[n].player_team : srv[n].player_team[p] \in {TeamOf[p], NoTeam}

Agreed == \A t \in Teams \ detached : teamMap[t] \in servers => t \in TeamsOn(srv[teamMap[t]])

AgreeInv == Known /\ Agreed

LEMMA AgreeInitially == Init => AgreeInv
<1> SUFFICES ASSUME Init PROVE AgreeInv OBVIOUS
<1>1. servers = {} /\ \A n \in Nodes : srv[n] = NewServer BY DEF Init, PoolInit
<1> QED BY <1>1 DEF AgreeInv, Known, Agreed, NewServer

LEMMA AgreeOverKept == TypeInv /\ AgreeInv /\ RosterKept => AgreeInv'
<1> SUFFICES ASSUME TypeInv, AgreeInv, RosterKept PROVE AgreeInv' OBVIOUS
<1>1. servers \in SUBSET Nodes BY DEF TypeInv, TypeOK, PoolTypeOK
<1>2. \A n \in Nodes : TeamsOn(srv'[n]) = TeamsOn(srv[n]) BY DEF RosterKept, SameRoster, TeamsOn
<1>3. Known' BY DEF AgreeInv, RosterKept, SameRoster, Known
<1>4. Agreed' BY <1>1, <1>2 DEF AgreeInv, RosterKept, Agreed
<1> QED BY <1>3, <1>4 DEF AgreeInv

\* A sample keeps the team of a player it still finds and takes the API's for the others.
LEMMA AgreeOverPolled ==
  ASSUME TypeInv, ApiAgrees, AgreeInv, NEW api \in ApiChoices, NEW due \in BOOLEAN,
         ServersPolled(api, due)
  PROVE  AgreeInv'
<1>1. servers \in SUBSET Nodes /\ UNCHANGED servers /\ srv \in [Nodes -> ServerRecords]
  BY DEF TypeInv, TypeOK, PoolTypeOK, ServersPolled
<1>2. Known'
  <2> SUFFICES ASSUME NEW n \in Nodes, NEW p \in DOMAIN srv'[n].player_team
               PROVE  srv'[n].player_team[p] \in {TeamOf[p], NoTeam}
    BY DEF Known
  <2>1. CASE n \notin servers
    <3>1. srv'[n] = srv[n] BY <2>1 DEF ServersPolled
    <3> QED BY <3>1 DEF AgreeInv, Known
  <2>2. CASE n \in servers
    <3>1. PICK late : srv'[n] = Polled(srv[n], ReplyOf(n, api[n], due, late))
      BY <2>2 DEF ServersPolled
    <3>2. api[n] \in ApiOutcomes BY <2>2, PoolAssumption DEF ApiChoices
    <3> DEFINE r == ReplyOf(n, api[n], due, late)
    <3>3. r \in Replies /\ r.seen \in SUBSET Players
      BY <3>2, ReplyType DEF TypeInv, TypeOK, Replies
    <3>4. srv'[n] = Polled(srv[n], r) /\ srv[n] \in ServerRecords BY <1>1, <3>1
    <3> HIDE DEF r
    <3>5. \/ SameRoster(Polled(srv[n], r), srv[n])
          \/ Polled(srv[n], r).player_team = [q \in r.seen |-> IF q \in DOMAIN srv[n].player_team
                                                               THEN srv[n].player_team[q]
                                                               ELSE MasterTeam[q]]
      BY <3>3, <3>4, PolledRoster
    <3> QED BY <3>3, <3>4, <3>5 DEF AgreeInv, Known, ApiAgrees, SameRoster
  <2> QED BY <2>1, <2>2
<1>3. \A t \in AnyTeam : IF {n \in servers : t \in TeamsOn(srv'[n])} = {} THEN teamMap'[t] = None
                         ELSE teamMap'[t] \in {n \in servers : t \in TeamsOn(srv'[n])}
  BY DEF ServersPolled, TeamsRemapped
<1>4. Agreed' BY <1>1, <1>3, CloudAssumption DEF Agreed, AnyTeam
<1> QED BY <1>2, <1>4 DEF AgreeInv

LEMMA AgreeOverRebuilt ==
  ASSUME TypeInv, NEW list \in SUBSET Nodes, ListRebuilt(list)
  PROVE  AgreeInv'
<1>1. \A n \in Nodes : SameRoster(srv'[n], NewServer)
  BY FirstPoll DEF ListRebuilt, SameRoster
<1>2. Known' BY <1>1 DEF Known, SameRoster, NewServer
<1>3. \A t \in Teams \ detached' : teamMap'[t] = None BY DEF ListRebuilt, MappedTeams, AnyTeam
<1>4. Agreed' BY <1>3, CloudAssumption DEF Agreed, ListRebuilt
<1> QED BY <1>2, <1>4 DEF AgreeInv

LEMMA AgreeOverDropped ==
  ASSUME TypeInv, AgreeInv, NEW n \in Nodes, ServerDropped(n)
  PROVE  AgreeInv'
<1>1. servers \in SUBSET Nodes /\ srv \in [Nodes -> ServerRecords]
  BY DEF TypeInv, TypeOK, PoolTypeOK
<1>2. /\ servers' = servers \ {n} /\ UNCHANGED <<teamMap, detached>>
      /\ srv'[n] = NewServer
      /\ \A m \in Nodes \ {n} : srv'[m] = srv[m]
  BY <1>1 DEF ServerDropped
<1>3. Known' BY <1>2 DEF AgreeInv, Known, NewServer
<1>4. Agreed' BY <1>1, <1>2 DEF AgreeInv, Agreed
<1> QED BY <1>3, <1>4 DEF AgreeInv

\* The player that joins may have been held under -1 before: only that entry is given up.
LEMMA AgreeOverPlaced ==
  ASSUME TypeInv, AgreeInv, NEW p \in Players, NEW n \in ServerForTeam(TeamOf[p]), PlayerPlaced(p, n)
  PROVE  AgreeInv'
<1> DEFINE team == TeamOf[p]
<1>1. PoolTypeOK /\ servers \in SUBSET Nodes /\ srv \in [Nodes -> ServerRecords]
  BY DEF TypeInv, TypeOK, PoolTypeOK
<1>2. /\ n \in Nodes /\ team \in AnyTeam /\ UNCHANGED <<servers, detached>>
      /\ teamMap'[team] = n
      /\ \A t \in AnyTeam \ {team} : teamMap'[t] = teamMap[t]
      /\ \A m \in Nodes : \/ srv'[m] = srv[m] /\ (m = n => m \notin servers \/ team \in detached)
                          \/ m = n /\ srv'[m] = PlayerJoined(srv[m], p, team)
  BY <1>1, PlacedRoster
<1>3. team = TeamOf[p] OBVIOUS
<1> HIDE DEF team
<1>4. ASSUME NEW m \in Nodes, srv'[m] = PlayerJoined(srv[m], p, team)
      PROVE  srv'[m].player_team = [q \in DOMAIN srv[m].player_team \cup {p} |->
                                      IF q = p THEN team ELSE srv[m].player_team[q]]
  <2>1. srv[m] \in ServerRecords BY <1>1
  <2> QED BY <1>2, <1>4, <2>1, JoinedRoster
<1>5. Known'
  <2> SUFFICES ASSUME NEW m \in Nodes, NEW q \in DOMAIN srv'[m].player_team
               PROVE  srv'[m].player_team[q] \in {TeamOf[q], NoTeam}
    BY DEF Known
  <2>1. CASE srv'[m] = srv[m] BY <2>1 DEF AgreeInv, Known
  <2>2. CASE srv'[m] = PlayerJoined(srv[m], p, team)
    <3>1. q = p \/ q \in DOMAIN srv[m].player_team
      <4>1. srv'[m].player_team = [k \in DOMAIN srv[m].player_team \cup {p} |->
                                     IF k = p THEN team ELSE srv[m].player_team[k]]
        BY <1>4, <2>2
      <4>2. DOMAIN srv'[m].player_team = DOMAIN srv[m].player_team \cup {p} BY <4>1
      <4> QED BY <4>2
    <3>2. srv'[m].player_team[q] = IF q = p THEN team ELSE srv[m].player_team[q]
      BY <1>4, <2>2, <3>1
    <3> QED BY <1>3, <3>1, <3>2 DEF AgreeInv, Known
  <2> QED BY <1>2, <2>1, <2>2
<1>6. ASSUME NEW m \in Nodes, NEW t \in Teams, t \in TeamsOn(srv[m]) PROVE t \in TeamsOn(srv'[m])
  <2>1. CASE srv'[m] = srv[m] BY <1>6, <2>1
  <2>2. CASE srv'[m] = PlayerJoined(srv[m], p, team)
    <3>1. PICK q \in DOMAIN srv[m].player_team : t = srv[m].player_team[q] BY <1>6 DEF TeamsOn
    <3>2. q = p => t = team BY <1>3, <3>1, ServerAssumption DEF AgreeInv, Known
    <3>3. q \in DOMAIN srv'[m].player_team /\ srv'[m].player_team[q] = t
      BY <1>4, <2>2, <3>1, <3>2
    <3> QED BY <3>3 DEF TeamsOn
  <2> QED BY <1>2, <2>1, <2>2
<1>7. Agreed'
  <2> SUFFICES ASSUME NEW t \in Teams \ detached, teamMap'[t] \in servers
               PROVE  t \in TeamsOn(srv'[teamMap'[t]])
    BY <1>2 DEF Agreed
  <2>1. CASE t = team
    <3>1. n \in servers /\ srv'[n] = PlayerJoined(srv[n], p, team) BY <1>2, <2>1
    <3>2. p \in DOMAIN srv'[n].player_team /\ srv'[n].player_team[p] = team BY <1>2, <1>4, <3>1
    <3> QED BY <1>2, <2>1, <3>2 DEF TeamsOn
  <2>2. CASE t # team
    <3>1. teamMap'[t] = teamMap[t] BY <1>2, <2>2 DEF AnyTeam
    <3>2. t \in TeamsOn(srv[teamMap[t]]) BY <3>1 DEF AgreeInv, Agreed
    <3> QED BY <1>1, <1>6, <3>1, <3>2
  <2> QED BY <2>1, <2>2
<1> QED BY <1>5, <1>7 DEF AgreeInv

LEMMA NextAgree == ApiAgrees /\ TypeInv /\ AgreeInv /\ [Next]_vars => AgreeInv'
<1> SUFFICES ASSUME ApiAgrees, TypeInv, AgreeInv, [Next]_vars PROVE AgreeInv' OBVIOUS
<1>1. RosterStep BY RosterSteps
<1> QED BY <1>1, KeptRoster, AgreeOverKept, AgreeOverPolled, AgreeOverRebuilt, AgreeOverDropped, AgreeOverPlaced
       DEF RosterStep

\* The map of teams and the objects agree at all times, over polls that rebuild it, joins in
\* between and lists that are read anew (PoolManager:94-97, 236-239; Server:312).
THEOREM MapAgrees == ASSUME ApiAgrees PROVE Spec => []TeamMapAgrees
<1>1. TeamInv /\ AgreeInv => TeamMapAgrees BY DEF TeamInv, Hosted, AgreeInv, Agreed, TeamMapAgrees
<1> QED BY <1>1, InitType, NextType, Initially, NextTeam, AgreeInitially, NextAgree, ApiAgrees, PTL
       DEF Spec
-----------------------------------------------------------------------------
(* The list of an idle balancer is the pool, for every number of nodes and *)
(* players, while no API check is refused and no node becomes unusable.    *)
(* The list is read when a poll just before found the pool steady and all  *)
(* nodes up, and from then on nothing moves until the balancer asks for it.*)

\* The list is a pool at rest.
Matched ==
  /\ alloc = "steady"
  /\ In({"starting", "start_failed", "removing", "leaving"}) = {}
  /\ servers = In({"running"})

\* That is so unless the balancer starts, grows or waits for a removal, or ended in the
\* middle of one.
Settled ==
  \/ lbState \in {"INCREASING", "WAIT_FOR_REMOVAL"}
  \/ lbState = "STARTING" /\ pc \in {"boot", "exited", "dead"}
  \/ alloc = "resizing" /\ pc = "dead"
  \/ Matched

\* What a tick decides on was read by the poll before it.
FreshNodes == pc = "decide" /\ IsPoolSteady => alloc = "steady" /\ NotReadyNodes = {}

\* No wait for a task overrides the wait for a removal (LoadBalancerMain:263).
NoFailedTask == \A n \in Nodes : srv[n].state # "STABLE_BUT_TASK_FAILED"

RestInv == Settled /\ FreshNodes /\ NoFailedTask

\* The conditions of the theorem.
Undisturbed == "refused" \notin ApiReplies /\ "node_lost" \notin Faults

-----------------------------------------------------------------------------
(* Objects.                                                                *)

LEMMA PolledTask ==
  ASSUME NEW s \in ServerRecords, NEW r \in Replies, r.api # "refused",
         s.state # "STABLE_BUT_TASK_FAILED"
  PROVE  Polled(s, r).state # "STABLE_BUT_TASK_FAILED"
<1>1. s.state \in States BY DEF ServerRecords
<1>2. CASE s.state \in {"STABLE", "WAITING_FOR_MERGE"}
  <2>1. PollServing(s, r).state # "STABLE_BUT_TASK_FAILED"
    BY <1>2 DEF PollServing, CrashedBeyond, NotAnswered, Missed, SampleTaken, ApiChecked, ServerRecords
  <2> QED BY <1>2, <2>1 DEF Polled
<1>3. CASE s.state \notin {"STABLE", "WAITING_FOR_MERGE"}
  <2>1. PollMove(s.state, Polled(s, r).state) BY PolledStates
  <2> QED BY <1>1, <1>3, <2>1 DEF PollMove, States, Serving, Draining
<1> QED BY <1>2, <1>3

LEMMA TaskNext == Undisturbed /\ TypeInv /\ NoFailedTask /\ [Next]_vars => NoFailedTask'
<1> SUFFICES ASSUME Undisturbed, TypeInv, NoFailedTask, [Next]_vars PROVE NoFailedTask' OBVIOUS
<1> USE DEF NoFailedTask
<1>1. CloudTypeOK /\ PoolTypeOK /\ srv \in [Nodes -> ServerRecords] /\ servers \in SUBSET Nodes
  BY DEF TypeInv, TypeOK, PoolTypeOK
<1>2. RosterStep BY RosterSteps
<1>3. CASE UNCHANGED <<servers, srv, teamMap, detached>> BY <1>3
<1>4. ASSUME NEW n \in Nodes, NEW m \in Nodes \cup {None}, RemovalSignalled(n, m)
      PROVE  NoFailedTask'
  <2>1. PICK late : srv' = LET retired == [srv EXCEPT ![n] =
                                            Decommissioned(@, m # None, StatusOf(n, late))]
                           IN  IF m = None THEN retired
                               ELSE [retired EXCEPT ![m].state = "WAITING_FOR_MERGE"]
    BY <1>4 DEF RemovalSignalled
  <2> DEFINE retired == [srv EXCEPT ![n] = Decommissioned(srv[n], m # None, StatusOf(n, late))]
  <2>2. Decommissioned(srv[n], m # None, StatusOf(n, late)).state # "STABLE_BUT_TASK_FAILED"
    BY <1>1 DEF Decommissioned, Forgiven, AliveChecked, NotAnswered, Missed, ServerRecords
  <2>3. retired \in [Nodes -> ServerRecords] BY <1>1, DecommissionedType
  <2>4. \A k \in Nodes : retired[k].state # "STABLE_BUT_TASK_FAILED" BY <1>1, <2>2
  <2>5. srv' = IF m = None THEN retired ELSE [retired EXCEPT ![m].state = "WAITING_FOR_MERGE"]
    BY <2>1
  <2> HIDE DEF retired
  <2> QED BY <2>3, <2>4, <2>5 DEF ServerRecords
<1>5. ASSUME NEW api \in ApiChoices, NEW due \in BOOLEAN, ServersPolled(api, due)
      PROVE  NoFailedTask'
  <2> SUFFICES ASSUME NEW n \in Nodes PROVE srv'[n].state # "STABLE_BUT_TASK_FAILED" OBVIOUS
  <2>1. CASE n \notin servers BY <1>5, <2>1 DEF ServersPolled
  <2>2. CASE n \in servers
    <3>1. PICK late : srv'[n] = Polled(srv[n], ReplyOf(n, api[n], due, late))
      BY <1>5, <2>2 DEF ServersPolled
    <3>2. api[n] \in ApiOutcomes /\ api[n] # "refused"
      BY <2>2, PoolAssumption DEF ApiChoices, Undisturbed
    <3>3. /\ ReplyOf(n, api[n], due, late) \in Replies
          /\ ReplyOf(n, api[n], due, late).api # "refused"
      BY <1>1, <3>2, ReplyType DEF ReplyOf
    <3> QED BY <1>1, <3>1, <3>3, PolledTask
  <2> QED BY <2>1, <2>2
<1>6. ASSUME NEW list \in SUBSET Nodes, ListRebuilt(list) PROVE NoFailedTask'
  BY <1>1, <1>6, Rebuilt
<1>7. ASSUME NEW n \in Nodes, ServerDropped(n) PROVE NoFailedTask'
  BY <1>1, <1>7 DEF ServerDropped, NewServer
<1>8. ASSUME NEW p \in Players, NEW n \in ServerForTeam(TeamOf[p]), PlayerPlaced(p, n)
      PROVE  NoFailedTask'
  <2>1. \A m \in Nodes : srv'[m].state = srv[m].state
    BY <1>1, <1>8 DEF PlayerPlaced, PlayerJoined, PlayerAdded, ServerRecords
  <2> QED BY <2>1
<1> QED BY <1>2, <1>3, <1>4, <1>5, <1>6, <1>7, <1>8 DEF RosterStep

-----------------------------------------------------------------------------
(* The pool.                                                               *)

\* A pool at rest stays so, and nodes that are up stay up, until the balancer asks.
LEMMA WorldRests ==
  ASSUME Undisturbed, CloudTypeOK, CloudStep, alloc = "steady"
  PROVE  /\ alloc' = "steady"
         /\ NotReadyNodes = {} => NotReadyNodes' = {}
         /\ In({"starting", "start_failed", "removing", "leaving"}) = {} => UNCHANGED node
<1> USE DEF CloudTypeOK
<1>1. CASE ResizeEnds BY <1>1 DEF ResizeEnds
<1>2. ASSUME NEW n \in Nodes, AllocateNode(n) \/ GiveUpNode(n) PROVE FALSE
  BY <1>2 DEF AllocateNode, GiveUpNode
<1>3. ASSUME NEW n \in Nodes, NodeStarts(n) \/ NodeStartFails(n)
      PROVE  n \in NotReadyNodes /\ UNCHANGED alloc
  BY <1>3 DEF NodeStarts, NodeStartFails, Becomes, NotReadyNodes, In
<1>4. ASSUME NEW n \in Nodes, NodeLost(n) PROVE FALSE BY <1>4 DEF NodeLost, Undisturbed
<1>5. ASSUME NEW n \in Nodes, NodeLeaves(n)
      PROVE  /\ node[n] \in {"removing", "leaving"} /\ UNCHANGED alloc
             /\ NotReadyNodes' \subseteq NotReadyNodes
  BY <1>5 DEF NodeLeaves, Becomes, NotReadyNodes, In
<1>6. ASSUME UNCHANGED <<alloc, node>>
      PROVE  UNCHANGED <<alloc, node>> /\ NotReadyNodes' = NotReadyNodes
  BY <1>6 DEF NotReadyNodes, In
<1>7. ASSUME NEW n \in Nodes, GameStarts(n) \/ GameStops(n) \/ ObeyOrder(n) \/ LoseOrder(n)
      PROVE  UNCHANGED <<alloc, node>>
  BY <1>7 DEF GameStarts, GameStops, ObeyOrder, LoseOrder
<1>8. ASSUME NEW p \in Players, Connect(p) \/ Leave(p) PROVE UNCHANGED <<alloc, node>>
  BY <1>8 DEF Connect, Leave
<1>9. NotReadyNodes \subseteq In({"starting", "start_failed", "removing", "leaving"})
  BY DEF NotReadyNodes, In
<1> QED BY <1>1, <1>2, <1>3, <1>4, <1>5, <1>6, <1>7, <1>8, <1>9 DEF CloudStep, In

LEMMA FreshNext == Undisturbed /\ TypeInv /\ FreshNodes /\ [Next]_vars => FreshNodes'
<1> SUFFICES ASSUME Undisturbed, TypeInv, FreshNodes, [Next]_vars, pc' = "decide", IsPoolSteady'
             PROVE  alloc' = "steady" /\ NotReadyNodes' = {}
  BY DEF FreshNodes
<1>1. CASE Poll
  <2>1. PICK due : PollOnce(due) BY <1>1 DEF Poll
  <2>2. UNCHANGED <<alloc, node>> BY <2>1 DEF PollOnce, cloudVars
  <2>3. alloc \in {"steady", "resizing"} BY DEF TypeInv, TypeOK, CloudTypeOK
  <2>4. alloc = "steady" /\ NotReadyNodes = {}
    BY <2>1, <2>3 DEF PollOnce, PoolPolled, PolledPoolState, IsPoolSteady
  <2> QED BY <2>2, <2>4 DEF NotReadyNodes, In
<1>2. CASE WorldStep
  <2>1. UNCHANGED <<pc, poolState>> BY <1>2 DEF WorldStep, Aside, mainVars, poolVars
  <2>2. alloc = "steady" /\ NotReadyNodes = {} BY <2>1 DEF FreshNodes, IsPoolSteady
  <2> QED BY <1>2, <2>2, WorldRests DEF WorldStep, TypeInv, TypeOK
<1>3. CASE UNCHANGED vars
  BY <1>3 DEF vars, mainVars, poolVars, cloudVars, FreshNodes, IsPoolSteady, NotReadyNodes, In
<1>10. CASE CallRaises BY <1>10 DEF CallRaises, Goto
<1>4. CASE BootPoll BY <1>4 DEF BootPoll, Goto
<1>5. CASE DecideStep
  BY <1>5 DEF DecideStep, DecideStable, DecideRestarting, DecideStarting, DecideIncreasing,
     DecideWaitingForNew, DecideDecreasing, DecideTriggerRemoval, DecideWaitForRemoval, Goto
<1>6. CASE AutoAdd \/ CommandAdd BY <1>6 DEF AutoAdd, CommandAdd, AddServer, Goto
<1>7. CASE AutoMerge \/ CommandRemove BY <1>7 DEF AutoMerge, CommandRemove, FindAndRemove, Goto
<1>8. CASE NoBalance BY <1>8 DEF NoBalance, Goto
<1>9. CASE \E p \in Players : CommandServerForTeam(p)
  BY <1>9 DEF CommandServerForTeam, Listening, mainVars
<1> QED BY <1>1, <1>2, <1>3, <1>4, <1>5, <1>6, <1>7, <1>8, <1>9, <1>10
       DEF Next, MainStep, CommandStep

LEMMA RestedList ==
  ASSUME CloudTypeOK, CloudInv, alloc = "steady", NotReadyNodes = {}
  PROVE  /\ In({"starting", "start_failed", "removing", "leaving"}) = {}
         /\ ListedNodes = In({"running"})
  BY DEF CloudInv, NotReadyNodes, ListedNodes, In

LEMMA SettledNext ==
  Undisturbed /\ IInv /\ RestInv /\ [Next]_vars => Settled'
<1> SUFFICES ASSUME Undisturbed, IInv, RestInv, [Next]_vars PROVE Settled' OBVIOUS
<1>0. /\ Settled /\ FreshNodes /\ NoFailedTask /\ CloudTypeOK /\ CloudInv
      /\ servers \in SUBSET Nodes /\ lbState \in LbStates
  BY DEF RestInv, IInv, TypeInv, TypeOK, PoolTypeOK
<1>a. ASSUME Matched, UNCHANGED <<alloc, node, servers>> PROVE Matched'
  BY <1>a DEF Matched, In
<1>b. ASSUME alloc = "steady", NotReadyNodes = {}, UNCHANGED <<alloc, node>>, servers' = ListedNodes
      PROVE  Matched'
  BY <1>0, <1>b, RestedList DEF Matched, In
<1>1. CASE BootPoll
  <2>1. UNCHANGED <<lbState, alloc, node>> /\ lbState = "STARTING"
    BY <1>1 DEF BootPoll, cloudVars, IInv, ThreadInv
  <2>2. CASE pc' = "ready"
    <3>1. poolState' = "STABLE" BY <1>1, <2>2 DEF BootPoll, Goto
    <3>2. alloc = "steady" /\ NotReadyNodes = {}
      BY <1>0, <1>1, <3>1 DEF BootPoll, PoolPolled, PolledPoolState, CloudTypeOK
    <3>3. servers' = ListedNodes BY <1>1, <2>2 DEF BootPoll, ListRebuilt
    <3> QED BY <1>b, <2>1, <3>2, <3>3 DEF Settled
  <2>3. CASE pc' \in {"boot", "exited"} BY <2>1, <2>3 DEF Settled
  <2> QED BY <1>1, <2>2, <2>3 DEF BootPoll, Goto
<1>2. CASE Poll
  <2>1. UNCHANGED <<lbState, alloc, node, servers>> /\ pc \in {"ready", "expanded"}
    BY <1>2 DEF Poll, PollOnce, ServersPolled, cloudVars
  <2> QED BY <1>0, <1>a, <2>1 DEF Settled
<1>3. CASE DecideStable \/ DecideRestarting
  <2>1. Matched BY <1>0, <1>3 DEF DecideStable, DecideRestarting, Decide, Settled
  <2>2. FailedTasks = {} BY <1>0 DEF FailedTasks, ServersIn, NoFailedTask
  <2>3. lbState' = "WAIT_FOR_REMOVAL" \/ UNCHANGED <<alloc, node, servers>>
    BY <1>3, <2>2 DEF DecideStable, DecideRestarting, CrashedKept, poolVars, cloudVars
  <2> QED BY <1>a, <2>1, <2>3 DEF Settled
<1>4. CASE DecideStarting \/ DecideDecreasing
  <2>1. Matched BY <1>0, <1>4 DEF DecideStarting, DecideDecreasing, Decide, Settled
  <2>2. UNCHANGED <<alloc, node, servers>>
    BY <1>4 DEF DecideStarting, DecideDecreasing, poolVars, cloudVars
  <2> QED BY <1>a, <2>1, <2>2 DEF Settled
<1>5. CASE DecideIncreasing \/ DecideWaitForRemoval
  <2>1. UNCHANGED <<alloc, node>> /\ pc = "decide"
        /\ lbState \in {"INCREASING", "WAIT_FOR_REMOVAL"}
    BY <1>5 DEF DecideIncreasing, DecideWaitForRemoval, Decide, cloudVars
  <2>2. CASE IsPoolSteady
    <3>1. alloc = "steady" /\ NotReadyNodes = {} BY <1>0, <2>1, <2>2 DEF FreshNodes
    <3>2. servers' = ListedNodes
      BY <1>5, <2>2 DEF DecideIncreasing, DecideWaitForRemoval, ServerListUpdated, ListRebuilt
    <3> QED BY <1>b, <2>1, <3>1, <3>2 DEF Settled
  <2>3. CASE ~ IsPoolSteady
    <3>1. UNCHANGED lbState BY <1>5, <2>3 DEF DecideIncreasing, DecideWaitForRemoval
    <3> QED BY <2>1, <3>1 DEF Settled
  <2> QED BY <2>2, <2>3
<1>6. CASE DecideWaitingForNew
  <2>1. Matched /\ UNCHANGED <<alloc, node>>
    BY <1>0, <1>6 DEF DecideWaitingForNew, Decide, Settled, cloudVars
  <2>2. servers' \in {servers, ListedNodes}
    BY <1>6 DEF DecideWaitingForNew, ServerListUpdated, ListRebuilt
  <2>3. ListedNodes = servers BY <2>1 DEF Matched, ListedNodes, In
  <2> QED BY <1>a, <2>1, <2>2, <2>3 DEF Settled
<1>7. CASE DecideTriggerRemoval
  <2>1. Matched /\ target \in servers
    BY <1>0, <1>7 DEF DecideTriggerRemoval, Decide, Settled, IInv, TargetIsTracked
  <2>2. lbState' = "WAIT_FOR_REMOVAL" \/ UNCHANGED <<alloc, node, servers>>
    BY <1>7, <2>1 DEF DecideTriggerRemoval, poolVars, cloudVars
  <2> QED BY <1>a, <2>1, <2>2 DEF Settled
<1>8. CASE AutoAdd \/ CommandAdd
  <2>1. Matched BY <1>0, <1>8 DEF AutoAdd, CommandAdd, Listening, AddServer, Idle, Settled
  <2>2. lbState' = "INCREASING" \/ UNCHANGED <<alloc, node, servers>>
    BY <1>8 DEF AutoAdd, CommandAdd, AddServer, poolVars
  <2> QED BY <1>a, <2>1, <2>2 DEF Settled
<1>9. CASE AutoMerge \/ CommandRemove
  <2>1. Matched
    BY <1>0, <1>9 DEF AutoMerge, CommandRemove, Listening, FindAndRemove, Idle, Settled
  <2>2. UNCHANGED <<alloc, node, servers>>
    BY <1>9 DEF AutoMerge, CommandRemove, FindAndRemove, RemovalSignalled
  <2> QED BY <1>a, <2>1, <2>2 DEF Settled
<1>10. CASE NoBalance
  <2>1. UNCHANGED <<lbState, alloc, node, servers>> /\ pc = "balance"
    BY <1>10 DEF NoBalance, poolVars, cloudVars
  <2> QED BY <1>0, <1>a, <2>1 DEF Settled
<1>11. CASE \E p \in Players : CommandServerForTeam(p)
  <2>1. UNCHANGED <<pc, lbState, alloc, node, servers>>
    BY <1>11 DEF CommandServerForTeam, PlayerPlaced, mainVars
  <2> QED BY <1>0, <1>a, <2>1 DEF Settled
<1>12. CASE WorldStep
  <2>1. UNCHANGED <<pc, lbState, servers>> /\ pc # "dead"
    BY <1>12 DEF WorldStep, Aside, mainVars, poolVars
  <2>2. ASSUME Matched PROVE UNCHANGED <<alloc, node>>
    BY <1>0, <1>12, <2>2, WorldRests DEF WorldStep, Matched
  <2> QED BY <1>0, <1>a, <2>1, <2>2 DEF Settled
<1>13. CASE UNCHANGED vars
  BY <1>0, <1>13, <1>a DEF vars, mainVars, poolVars, cloudVars, Settled
<1>14. CASE CallRaises
  <2>1. UNCHANGED <<lbState, servers>> /\ pc' = "dead" BY <1>14 DEF CallRaises, poolVars, Goto
  <2>2. alloc' = "resizing" \/ UNCHANGED <<alloc, node>>
    BY <1>14 DEF CallRaises, RaisesAfterRemoval, RaisesInGrowth, RemovalAccepted, ResizeAccepted,
       cloudVars
  <2>3. pc # "dead"
    BY <1>14 DEF CallRaises, ReadsList, AddsTask, RaisesAfterRemoval, RaisesInGrowth, Listening
  <2> QED BY <1>0, <1>a, <2>1, <2>2, <2>3 DEF Settled
<1> QED BY <1>1, <1>2, <1>3, <1>4, <1>5, <1>6, <1>7, <1>8, <1>9, <1>10, <1>11, <1>12, <1>13, <1>14
       DEF Next, MainStep, DecideStep, CommandStep

\* The list of servers is the pool whenever an idle balancer works on a steady one
\* (PoolManager:112): no list is read before the node it was asked for is in it, and none
\* holds a node that left.
THEOREM ListMatchesPool == ASSUME Undisturbed PROVE Spec => []ListIsPool
<1>1. Init => RestInv
  BY DEF Init, PoolInit, RestInv, Settled, FreshNodes, NoFailedTask, NewServer
<1>2. IInv /\ RestInv /\ [Next]_vars => RestInv'
  BY SettledNext, FreshNext, TaskNext, Undisturbed DEF RestInv, IInv
<1>3. RestInv => ListIsPool BY DEF RestInv, Settled, Matched, ListIsPool, Idle
<1> QED BY <1>1, <1>2, <1>3, Invariance, PTL DEF Spec

-----------------------------------------------------------------------------
(* Growing.                                                                *)

NoneUnusable == \A n \in Nodes : node[n] # "unusable"

LEMMA UsableNext == Undisturbed /\ TypeInv /\ NoneUnusable /\ [Next]_vars => NoneUnusable'
<1> SUFFICES ASSUME Undisturbed, TypeInv, NoneUnusable, [Next]_vars PROVE NoneUnusable' OBVIOUS
<1> USE DEF NoneUnusable
<1>0. node \in [Nodes -> NodeStates] BY DEF TypeInv, TypeOK, CloudTypeOK
<1>1. ASSUME UNCHANGED node PROVE NoneUnusable' BY <1>1
<1>2. ASSUME NEW n, NEW from, NEW to, Becomes(n, from, to), to # "unusable" PROVE NoneUnusable'
  BY <1>0, <1>2 DEF Becomes
<1>3. ASSUME NEW n, RemovalAccepted(n) PROVE NoneUnusable' BY <1>0, <1>3 DEF RemovalAccepted
<1>4. CASE WorldStep
  <2>1. ASSUME NEW n \in Nodes, \/ AllocateNode(n) \/ GiveUpNode(n) \/ NodeStarts(n)
                                \/ NodeStartFails(n) \/ NodeLeaves(n)
        PROVE  NoneUnusable'
    BY <1>2, <2>1 DEF AllocateNode, GiveUpNode, NodeStarts, NodeStartFails, NodeLeaves
  <2>2. ASSUME NEW n \in Nodes, GameStarts(n) \/ GameStops(n) \/ ObeyOrder(n) \/ LoseOrder(n)
        PROVE  UNCHANGED node
    BY <2>2 DEF GameStarts, GameStops, ObeyOrder, LoseOrder
  <2>3. ASSUME NEW p \in Players, Connect(p) \/ Leave(p) PROVE UNCHANGED node
    BY <2>3 DEF Connect, Leave
  <2>4. ASSUME NEW n \in Nodes, NodeLost(n) PROVE FALSE BY <2>4 DEF NodeLost, Undisturbed
  <2> QED BY <1>1, <1>4, <2>1, <2>2, <2>3, <2>4 DEF WorldStep, CloudStep, ResizeEnds
<1>5. CASE DecideStable \/ DecideRestarting
  BY <1>1, <1>3, <1>5 DEF DecideStable, DecideRestarting, CrashedRemoved, CrashedKept, cloudVars
<1>6. CASE DecideTriggerRemoval BY <1>1, <1>3, <1>6 DEF DecideTriggerRemoval, cloudVars
<1>7. CASE BootPoll \/ Poll BY <1>1, <1>7 DEF BootPoll, Poll, PollOnce, cloudVars
<1>8. CASE \/ DecideStarting \/ DecideIncreasing \/ DecideWaitingForNew \/ DecideDecreasing
           \/ DecideWaitForRemoval \/ NoBalance
  BY <1>1, <1>8 DEF DecideStarting, DecideIncreasing, DecideWaitingForNew, DecideDecreasing,
     DecideWaitForRemoval, NoBalance, cloudVars
<1>9. CASE AutoAdd \/ CommandAdd BY <1>1, <1>9 DEF AutoAdd, CommandAdd, AddServer
<1>10. CASE AutoMerge \/ CommandRemove
  BY <1>1, <1>10 DEF AutoMerge, CommandRemove, FindAndRemove, RemovalSignalled
<1>11. CASE \E p \in Players : CommandServerForTeam(p) BY <1>1, <1>11 DEF CommandServerForTeam
<1>12. CASE UNCHANGED vars BY <1>1, <1>12 DEF vars, cloudVars
<1>13. CASE CallRaises
  BY <1>1, <1>3, <1>13 DEF CallRaises, RaisesAfterRemoval, RaisesInGrowth, cloudVars
<1> QED BY <1>4, <1>5, <1>6, <1>7, <1>8, <1>9, <1>10, <1>11, <1>12, <1>13
       DEF Next, MainStep, DecideStep, CommandStep

\* Only an accepted resize leads to the second poll.
LEMMA Expands ==
  ASSUME [Next]_vars, pc # "expanded", pc' = "expanded"
  PROVE  AddServer /\ ResizeAccepted(Cardinality(servers) + 1) /\ pc # "dead"
<1> USE DEF Goto
<1>1. CASE BootPoll \/ Poll BY <1>1 DEF BootPoll, Poll, PollOnce
<1>2. CASE DecideStep
  BY <1>2 DEF DecideStep, DecideStable, DecideRestarting, DecideStarting, DecideIncreasing,
     DecideWaitingForNew, DecideDecreasing, DecideTriggerRemoval, DecideWaitForRemoval
<1>3. CASE AutoAdd \/ CommandAdd BY <1>3 DEF AutoAdd, CommandAdd, Listening, AddServer
<1>4. CASE AutoMerge \/ CommandRemove \/ NoBalance \/ CallRaises
  BY <1>4 DEF AutoMerge, CommandRemove, FindAndRemove, NoBalance, CallRaises
<1>5. CASE (\E p \in Players : CommandServerForTeam(p)) \/ WorldStep \/ UNCHANGED vars
  BY <1>5 DEF CommandServerForTeam, WorldStep, Aside, vars, mainVars
<1> QED BY <1>1, <1>2, <1>3, <1>4, <1>5 DEF Next, MainStep, CommandStep

\* A resize asks for more nodes than the pool has, although its target is counted from the
\* list (PoolManager:174).
THEOREM ResizesGrow == ASSUME Undisturbed PROVE Spec => ResizeGrows
<1>1. Init => RestInv /\ NoneUnusable
  <2> SUFFICES ASSUME Init PROVE RestInv /\ NoneUnusable OBVIOUS
  <2>1. RestInv BY DEF Init, PoolInit, RestInv, Settled, FreshNodes, NoFailedTask, NewServer
  <2>2. node \in [Nodes -> {"absent", "starting", "running"}] BY DEF Init, CloudInit
  <2> QED BY <2>1, <2>2 DEF NoneUnusable
<1>2. IInv /\ RestInv /\ NoneUnusable /\ [Next]_vars => RestInv' /\ NoneUnusable'
  BY SettledNext, FreshNext, TaskNext, UsableNext, Undisturbed DEF RestInv, IInv
<1>3. ASSUME IInv, RestInv, NoneUnusable, [Next]_vars, pc # "expanded", pc' = "expanded"
      PROVE  want' > Cardinality(Present)
  <2>1. AddServer /\ want' = Cardinality(servers) + 1 /\ pc # "dead"
    BY <1>3, Expands DEF ResizeAccepted
  <2>2. Matched BY <1>3, <2>1 DEF AddServer, Idle, RestInv, Settled
  <2>3. Present = servers BY <1>3, <2>2 DEF Matched, NoneUnusable, Present, In
  <2>4. Cardinality(servers) \in Nat
    BY <1>3, NodesFinite DEF IInv, TypeInv, TypeOK, PoolTypeOK
  <2> QED BY <2>1, <2>3, <2>4
<1>4. IInv /\ RestInv /\ NoneUnusable /\ [Next]_vars =>
        [pc # "expanded" /\ pc' = "expanded" => want' > Cardinality(Present)]_vars
  BY <1>3
<1> QED BY <1>1, <1>2, <1>4, Invariance, PTL DEF Spec, ResizeGrows
=============================================================================

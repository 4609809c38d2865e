---------------------------- MODULE LoadBalancer ----------------------------
(***************************************************************************)
(* main/LoadBalancerMain.py: the main loop that polls the pool, answers the*)
(* lobby and grows or shrinks the pool, composed with PoolManager, the     *)
(* Server objects and the world of CloudPool.                              *)
(*                                                                         *)
(* The loop is one thread.  pc names the points between which the world    *)
(* may move: a command or a tick starts at "ready"; a tick polls first and *)
(* then decides by the state ("decide"), in STABLE it goes on to the       *)
(* balancing checks ("balance"); a resize is followed by a second poll     *)
(* ("expanded").  The clock test and the modifier of poll_servers only     *)
(* delay ticks, so a tick may come at any time.                            *)
(***************************************************************************)
EXTENDS PoolManager

CONSTANTS
  MinCount,     \* POOL mincount
  MaxServers,   \* POOL maxcount
  Threshold,    \* LOAD thresholdTeamsAvailable
  MaxRetry      \* max_retry_initialize (10 in the code)

ASSUME ConfigAssumption ==
  /\ MinCount \in Nat
  /\ MaxServers \in Nat
  /\ Threshold \in Nat
  /\ MaxRetry \in Nat

VARIABLES
  pc,        \* where the main thread is; "exited" and "dead" are final
  tries,     \* counter of the initialization loop
  lbState,   \* state
  target     \* target_deallocation_server, or None

mainVars == <<pc, tries, lbState, target>>
vars == <<mainVars, poolVars, cloudVars>>

PcStates == {"boot", "ready", "decide", "balance", "expanded", "exited", "dead"}

\* WAIT_FOR_BOOT of the code is never assigned.
LbStates == {"STARTING", "STABLE", "RESTARTING_TASK", "DECREASING", "TRIGGER_REMOVAL",
             "WAIT_FOR_REMOVAL", "INCREASING", "WAITING_FOR_NEW_SERVERS"}

TypeOK ==
  /\ CloudTypeOK
  /\ PoolTypeOK
  /\ pc \in PcStates
  /\ tries \in 0 .. MaxRetry
  /\ lbState \in LbStates
  /\ target \in Nodes \cup {None}

Init ==
  /\ CloudInit(MinCount)
  /\ PoolInit
  /\ pc = "boot"
  /\ tries = 0
  /\ lbState = "STARTING"
  /\ target = None

Goto(to) == pc' = to

-----------------------------------------------------------------------------
(* Start up: wait for the pool, then build the server list.                *)

\* Mutant of BootPoll: one retry more than the limit.
BootPollOneMore ==
  /\ pc = "boot"
  /\ PoolPolled
  /\ tries' = IF poolState' = "STABLE" THEN tries ELSE tries + 1
  /\ Goto(IF tries > MaxRetry THEN "exited" ELSE IF poolState' = "STABLE" THEN "ready" ELSE "boot")
  /\ IF pc' = "ready" THEN ListRebuilt(ListedNodes)
                      ELSE UNCHANGED <<servers, srv, teamMap, detached>>
  /\ UNCHANGED <<lbState, target, cloudVars>>

\* A pool that turns steady at the last retry is not taken: counter has reached the limit.
BootPoll ==
  /\ pc = "boot"
  /\ PoolPolled
  /\ IF tries = MaxRetry THEN Goto("exited") /\ UNCHANGED tries
     ELSE IF poolState' = "STABLE" THEN Goto("ready") /\ UNCHANGED tries
     ELSE Goto("boot") /\ tries' = tries + 1
  /\ IF pc' = "ready" THEN ListRebuilt(ListedNodes)
                      ELSE UNCHANGED <<servers, srv, teamMap, detached>>
  /\ UNCHANGED <<lbState, target, cloudVars>>

-----------------------------------------------------------------------------
(* poll_servers_and_update, from a tick or right after a resize.           *)

\* due tells whether a retirement that was requested has had its maxRequestProcessTime.
PollOnce(due) ==
  /\ pc \in {"ready", "expanded"}
  /\ PoolPolled
  /\ \E api \in ApiChoices :
       IF SomePollRaises(api)
       THEN Goto("dead") /\ UNCHANGED <<servers, srv, teamMap, detached>>
       ELSE /\ Goto(IF pc = "ready" THEN "decide" ELSE "ready")
            /\ ServersPolled(api, due)
  /\ UNCHANGED <<tries, lbState, target, cloudVars>>

Poll == \E due \in BOOLEAN : PollOnce(due)

-----------------------------------------------------------------------------
(* The balancing operations.                                               *)

Idle == lbState \in {"STABLE", "RESTARTING_TASK"}

\* Mutant of AddServer: the size asked for is the number of servers there are.
AddServerSameSize ==
  /\ IsPoolSteady /\ Idle
  /\ ResizeAccepted(Cardinality(servers))
  /\ lbState' = "INCREASING"
  /\ Goto("expanded")
  /\ UNCHANGED <<tries, target, poolVars, node, mc, plays, goes, order>>

\* __add_server and expand_pool_add_server(1): the new target is counted from the list.
AddServer ==
  /\ IsPoolSteady /\ Idle
  /\ ResizeAccepted(Cardinality(servers) + 1)
  /\ lbState' = "INCREASING"
  /\ Goto("expanded")
  /\ UNCHANGED <<tries, target, poolVars, node, mc, plays, goes, order>>

EmptyServers == {n \in servers : srv[n].playercount = 0}

Fewest(n, among) == \A m \in among : srv[n].playercount <= srv[m].playercount

\* __find_and_remove_server: an empty server, or the two with the fewest players.  The
\* sort is stable, so when the empty server it took could not be signalled the merge
\* starts from that same server and fails the same way.
RemovalChoices ==
  IF EmptyServers # {} THEN EmptyServers \X {None}
  ELSE {c \in servers \X servers : /\ c[1] # c[2]
                                    /\ Fewest(c[1], servers)
                                    /\ Fewest(c[2], servers \ {c[1]})}

\* Mutant of FindAndRemove: the state is not tested, signal_remove_server decides alone.
FindAndRemoveAnytime ==
  /\ \E c \in RemovalChoices : RemovalSignalled(c[1], c[2]) /\ target' = c[1]
  /\ lbState' = "DECREASING"
  /\ Goto("ready")
  /\ UNCHANGED tries

FindAndRemove ==
  /\ Idle
  /\ \E c \in RemovalChoices : RemovalSignalled(c[1], c[2]) /\ target' = c[1]
  /\ lbState' = "DECREASING"
  /\ Goto("ready")
  /\ UNCHANGED tries

RemovalMayFail ==
  RemovalChoices = {} \/ \E c \in RemovalChoices : ~ SignalAllowed(c[1], c[2])

SpareTeams == Cardinality(servers) * MaxTeams - Cardinality(MappedTeams)

ShouldAdd ==
  /\ IsPoolSteady /\ Idle
  /\ Cardinality(servers) < MaxServers
  /\ SpareTeams < Threshold \/ Cardinality(servers) < MinCount

\* Mutant of ShouldMerge: the capacity of the server that goes is not left over.
ShouldMergeTight ==
  IsPoolSteady /\ Idle /\ Cardinality(servers) > MinCount /\ SpareTeams > Threshold

ShouldMerge ==
  /\ IsPoolSteady /\ Idle
  /\ Cardinality(servers) > MinCount
  /\ SpareTeams > Threshold + MaxTeams

AutoAdd   == pc = "balance" /\ ShouldAdd /\ AddServer
AutoMerge == pc = "balance" /\ ShouldMerge /\ FindAndRemove

\* No check applies, or what it asked for cannot be had now.
NoBalance ==
  /\ pc = "balance"
  /\ ~ (ShouldAdd /\ alloc = "steady")
  /\ ShouldMerge => RemovalMayFail
  /\ Goto("ready")
  /\ UNCHANGED <<tries, lbState, target, poolVars, cloudVars>>

-----------------------------------------------------------------------------
(* handle_active_state, after the poll: one action per state.              *)

CrashedServers == ServersIn({"CRASHED"})
FailedTasks    == ServersIn({"STABLE_BUT_TASK_FAILED"})

\* __remove_specific_server, when the service accepts.  The list is rebuilt on the word
\* of the cached state, which is the one from before the removal.  The pool resizes from
\* here on, so the service refuses every other crashed server of this tick.
CrashedRemoved(n) ==
  /\ RemovalAsked(n)
  /\ RemovalAccepted(n)
  /\ IF IsPoolSteady THEN ListRebuilt(ListedNodes') ELSE ServerDropped(n)
  /\ UNCHANGED <<poolState, mc, plays, goes, order>>

CrashedKept ==
  /\ \A n \in CrashedServers : RemovalAsked(n) => RemovalRefused(n)
  /\ UNCHANGED <<poolVars, cloudVars>>

Decide(state) == pc = "decide" /\ lbState = state /\ UNCHANGED tries

\* A task to restart overrides the wait for a removal.
DecideStable ==
  /\ Decide("STABLE")
  /\ LET after(st) == lbState' = IF FailedTasks # {} THEN "RESTARTING_TASK" ELSE st
     IN  \/ \E n \in CrashedServers : CrashedRemoved(n) /\ after("WAIT_FOR_REMOVAL")
         \/ CrashedKept /\ after("STABLE")
  /\ Goto("balance")
  /\ UNCHANGED target

DecideRestarting ==
  /\ Decide("RESTARTING_TASK")
  /\ \/ (\E n \in CrashedServers : CrashedRemoved(n)) /\ lbState' = "WAIT_FOR_REMOVAL"
     \/ CrashedKept /\ lbState' = IF FailedTasks = {} THEN "STABLE" ELSE lbState
  /\ Goto("ready")
  /\ UNCHANGED target

\* poll_servers returns a pair, which is true whether or not it polled: the test runs in
\* every iteration of the STARTING loop.
DecideStarting ==
  /\ pc \in {"ready", "decide"} /\ lbState = "STARTING"
  /\ lbState' = IF IsPoolSteady /\ \A n \in servers : IsReady(srv[n]) THEN "STABLE" ELSE lbState
  /\ Goto("ready")
  /\ UNCHANGED <<tries, target, poolVars, cloudVars>>

\* Mutant of DecideIncreasing: the state moves on before the pool is steady.
DecideIncreasingEarly ==
  /\ Decide("INCREASING")
  /\ lbState' = "WAITING_FOR_NEW_SERVERS"
  /\ ServerListUpdated(ListedNodes)
  /\ Goto("ready")
  /\ UNCHANGED <<target, poolState, cloudVars>>

DecideIncreasing ==
  /\ Decide("INCREASING")
  /\ lbState' = IF IsPoolSteady THEN "WAITING_FOR_NEW_SERVERS" ELSE lbState
  /\ ServerListUpdated(ListedNodes)
  /\ Goto("ready")
  /\ UNCHANGED <<target, poolState, cloudVars>>

DecideWaitingForNew ==
  /\ Decide("WAITING_FOR_NEW_SERVERS")
  /\ IF \A n \in servers : IsReady(srv[n])
     THEN lbState' = "STABLE" /\ ServerListUpdated(ListedNodes)
     ELSE UNCHANGED <<lbState, servers, srv, teamMap, detached>>
  /\ Goto("ready")
  /\ UNCHANGED <<target, poolState, cloudVars>>

\* "Hmm... How'd I get here?"
DecideDecreasing ==
  /\ Decide("DECREASING")
  /\ IF target = None THEN Goto("dead") /\ UNCHANGED lbState
     ELSE /\ Goto("ready")
          /\ lbState' = IF srv[target].state = "DEACTIVATED" THEN "TRIGGER_REMOVAL" ELSE lbState
  /\ UNCHANGED <<target, poolVars, cloudVars>>

\* Mutant of DecideTriggerRemoval: the target is not reset.
DecideTriggerRemovalKept ==
  /\ Decide("TRIGGER_REMOVAL")
  /\ RemovalAsked(target) /\ RemovalAccepted(target) /\ ServerDropped(target)
  /\ lbState' = "WAIT_FOR_REMOVAL"
  /\ Goto("ready")
  /\ UNCHANGED <<target, poolState, mc, plays, goes, order>>

\* servers.remove raises ValueError for an object the list does not hold.
DecideTriggerRemoval ==
  /\ Decide("TRIGGER_REMOVAL")
  /\ \/ /\ target # None /\ RemovalAsked(target)
        /\ RemovalAccepted(target)
        /\ IF target \in servers
           THEN /\ ServerDropped(target)
                /\ lbState' = "WAIT_FOR_REMOVAL" /\ target' = None
                /\ Goto("ready")
           ELSE Goto("dead") /\ UNCHANGED <<servers, srv, teamMap, detached, lbState, target>>
        /\ UNCHANGED <<poolState, mc, plays, goes, order>>
     \/ /\ target # None /\ RemovalAsked(target) => RemovalRefused(target)
        /\ Goto("ready")
        /\ UNCHANGED <<lbState, target, poolVars, cloudVars>>

\* Mutant of DecideWaitForRemoval: the list is not rebuilt after the removal.
DecideWaitForRemovalUnlisted ==
  /\ Decide("WAIT_FOR_REMOVAL")
  /\ lbState' = IF IsPoolSteady THEN "STABLE" ELSE lbState
  /\ Goto("ready")
  /\ UNCHANGED <<target, poolVars, cloudVars>>

\* Mutant of DecideWaitForRemoval: the list is rebuilt and the state stays.
DecideWaitForRemovalForever ==
  /\ Decide("WAIT_FOR_REMOVAL")
  /\ ServerListUpdated(ListedNodes)
  /\ Goto("ready")
  /\ UNCHANGED <<lbState, target, poolState, cloudVars>>

\* Mutant of DecideWaitForRemoval: a flag that is still up is taken for a steady pool.
DecideWaitForRemovalFlagged ==
  /\ Decide("WAIT_FOR_REMOVAL")
  /\ lbState' = IF poolState # "TRANSITIONING" THEN "STABLE" ELSE lbState
  /\ ServerListUpdated(ListedNodes)
  /\ Goto("ready")
  /\ UNCHANGED <<target, poolState, cloudVars>>

DecideWaitForRemoval ==
  /\ Decide("WAIT_FOR_REMOVAL")
  /\ lbState' = IF IsPoolSteady THEN "STABLE" ELSE lbState
  /\ ServerListUpdated(ListedNodes)
  /\ Goto("ready")
  /\ UNCHANGED <<target, poolState, cloudVars>>

DecideStep ==
  \/ DecideStable \/ DecideRestarting \/ DecideStarting \/ DecideIncreasing
  \/ DecideWaitingForNew \/ DecideDecreasing \/ DecideTriggerRemoval \/ DecideWaitForRemoval

-----------------------------------------------------------------------------
(* Commands of the lobby that change the state.  An error reply changes    *)
(* nothing, and neither do STATE, HELLO, LISTSERVERS and QUERYMC.          *)

Listening == pc = "ready" /\ lbState # "STARTING"

CommandServerForTeam(p) ==
  /\ Listening
  /\ plays[p] = None
  /\ \E n \in ServerForTeam(TeamOf[p]) :
       /\ PlayerPlaced(p, n)
       /\ goes' = [goes EXCEPT ![p] = n]
  /\ UNCHANGED <<mainVars, alloc, want, node, mc, plays, order>>

CommandAdd    == Listening /\ AddServer
CommandRemove == Listening /\ FindAndRemove

-----------------------------------------------------------------------------
(* A call of the service or of the teams API that raises.  Nothing catches *)
(* it and the main loop ends, with the pool as the calls before it left it;*)
(* what the process held is gone with it, and is left as it was here.      *)

ReadsList ==
  /\ pc = "decide" /\ IsPoolSteady
  /\ \/ lbState \in {"INCREASING", "WAIT_FOR_REMOVAL"}
     \/ lbState = "WAITING_FOR_NEW_SERVERS" /\ \A n \in servers : IsReady(srv[n])

AddsTask == pc = "decide" /\ lbState = "STABLE" /\ FailedTasks # {}

\* A crashed server is taken out, and the list that is read then or a task that is added
\* after it raises.
RaisesAfterRemoval ==
  /\ pc = "decide" /\ Idle
  /\ IsPoolSteady \/ AddsTask
  /\ \E n \in CrashedServers : RemovalAsked(n) /\ RemovalAccepted(n)
  /\ UNCHANGED <<mc, plays, goes, order>>

\* The pool or its jobs, the resize (BatchPool:116), or the task after the resize.
RaisesInGrowth ==
  /\ (pc = "balance" /\ ShouldAdd) \/ (Listening /\ IsPoolSteady /\ Idle)
  /\ \/ UNCHANGED cloudVars
     \/ ResizeAccepted(Cardinality(servers) + 1) /\ UNCHANGED <<node, mc, plays, goes, order>>

CallRaises ==
  /\ "call_raises" \in Faults
  /\ \/ (pc = "boot" \/ ReadsList \/ AddsTask) /\ UNCHANGED cloudVars
     \/ RaisesAfterRemoval
     \/ RaisesInGrowth
  /\ Goto("dead")
  /\ UNCHANGED <<tries, lbState, target, poolVars>>

-----------------------------------------------------------------------------
\* Bound: the world is not followed further once the load balancer has stopped.
Aside == pc \notin {"exited", "dead"} /\ UNCHANGED <<mainVars, poolVars>>

WorldStep == CloudStep /\ Aside

MainStep == BootPoll \/ Poll \/ DecideStep \/ AutoAdd \/ AutoMerge \/ NoBalance

CommandStep == CommandAdd \/ CommandRemove \/ \E p \in Players : CommandServerForTeam(p)

Next == MainStep \/ CommandStep \/ CallRaises \/ WorldStep

Spec == Init /\ [][Next]_vars

\* The ticks of the main loop come round and the time a retirement is given passes.  Every
\* call returns or raises, which for requests.get (PoolManager:102, no timeout) and for the
\* connect of the API check (Server:362, before the timeout is set) is an assumption on the
\* network.  Azure works on what it accepted, nodes boot, messages under way arrive and
\* nobody plays for ever.  Nothing is assumed of games, joins, commands and faults: a game
\* may never start, or stop and start again at will, and players may join at any time.
Fairness ==
  /\ WF_vars(MainStep)
  /\ SF_vars(PollOnce(TRUE))
  /\ WF_vars(Aside /\ ResizeEnds)
  /\ WF_vars(Aside /\ \E n \in Nodes : AllocateNode(n) \/ GiveUpNode(n))
  /\ \A n \in Nodes : /\ WF_vars(Aside /\ NodeStarts(n))
                      /\ WF_vars(Aside /\ NodeLeaves(n))
                      /\ WF_vars(Aside /\ ObeyOrder(n))
  /\ \A p \in Players : WF_vars(Aside /\ Leave(p))

FairSpec == Spec /\ Fairness

-----------------------------------------------------------------------------
(* Safety.                                                                 *)

\* While the load balancer takes one server out of the pool no other server is on its way
\* out, and it has not lost track of the one that is: signal_remove_server (PoolManager:200)
\* runs again only after the last retirement left the list (LoadBalancerMain:324-327).
RetirementIsExclusive ==
  \A n \in Nodes : srv[n].state \in Retiring => n = target

\* target_deallocation_server names a server of the list exactly in the two states that
\* read it, so neither the exception "How'd I get here?" (LoadBalancerMain:318) nor the
\* ValueError of servers.remove (PoolManager:196) can happen, however commands, ticks
\* and rebuilt lists follow each other.
TargetIsTracked ==
  /\ lbState \in {"DECREASING", "TRIGGER_REMOVAL"} <=> target # None
  /\ target # None => target \in servers

\* A flag set by signal_remove_server (PoolManager:219) has a planner: the balancer is in
\* one of the removal states.  It never holds the flag while it balances, grows or starts.
FlagHasPlanner ==
  poolState = "FLAG_TO_SHIFT" =>
    lbState \in {"DECREASING", "TRIGGER_REMOVAL", "WAIT_FOR_REMOVAL"}

\* A server waits for a merge (Server:380) only while the removal that named it is not
\* finished: it is eligible for new teams again when the balancer is idle again.
MergeWaitEnds ==
  (\E n \in servers : srv[n].state = "WAITING_FOR_MERGE") =>
    lbState \in {"DECREASING", "TRIGGER_REMOVAL", "WAIT_FOR_REMOVAL"}

\* A DEALLOCATE still under way belongs to the retirement in progress or to a node that
\* Azure is taking away, and the server it moves the players to is not on its way out.  It
\* is over before the balancer is idle again.  This is so while an order goes down with its
\* node; one that is still in connect then (Server:362) may reach the next node of that
\* address, and nothing in the code rules it out.
OrderHasPurpose ==
  \A n \in Nodes : order[n] # None =>
    /\ lbState \in {"DECREASING", "TRIGGER_REMOVAL", "WAIT_FOR_REMOVAL"}
    /\ n = target \/ node[n] \in {"removing", "leaving"}
    /\ order[n] # Kill => srv[order[n]].state \notin Retiring

\* The map and the Server objects agree (PoolManager:94-97, 236-239; Server:312): a team
\* that is on a server of the list is mapped, and an entry that update_server_list did
\* not leave behind points to a server that holds the team, or to one that is gone.
\* -1 is no team in this: when a player listed under it is named with a team, its entry
\* stays behind until the next poll.
TeamMapAgrees ==
  /\ \A n \in servers : \A t \in TeamsOn(srv[n]) : teamMap[t] # None
  /\ \A t \in Teams \ detached : teamMap[t] \in servers => t \in TeamsOn(srv[teamMap[t]])

\* Which teams getServerForTeam (PoolManager:236) sends to a server that is being shut down
\* as an empty one: none but those whose entry a rebuilt list left behind
\* (PoolManager:122), and none at all once a poll has come, so no tick decides with such
\* an entry on the map.
NoTeamSentToShutDown ==
  \A n \in servers : srv[n].state \in Retiring /\ srv[n].playercount = 0 =>
    \A t \in AnyTeam : teamMap[t] = n => t \in detached /\ pc # "decide"

\* The list of servers (PoolManager:112) is the pool whenever an idle balancer works on a
\* steady one: no list is read too early to hold the node the pool grew by, and no node
\* that left is still listed and polled.
ListIsPool ==
  Idle /\ alloc = "steady" => servers = In({"running"})

\* The comment in signal_remove_server, "Desired server has players! needs a target server
\* that is stable" (PoolManager:211): a server is told to shut down at once only when
\* nobody plays on it.
KillsOnlyEmptyServers ==
  [][\A n \in Nodes : order[n] # Kill /\ order'[n] = Kill => Online(n) = {}]_vars

\* Growing makes the pool larger, as "expand the batch pool by a countable number of nodes"
\* (PoolManager:166) says: the target that is counted from the list (PoolManager:174)
\* exceeds the nodes the pool has.
ResizeGrows ==
  [][pc # "expanded" /\ pc' = "expanded" => want' > Cardinality(Present)]_vars


\* A retirement is not undone and not cut short: until the service takes its node, a server
\* that was told to retire stays on the list and stays retiring, whatever its node answers
\* (Server:251) and whenever the list is built anew (PoolManager:112); it goes only once it
\* has been found empty or silent (LoadBalancerMain:314, PoolManager:194).
RetirementRunsItsCourse ==
  [][\A n \in servers : srv[n].state \in Retiring =>
       \/ /\ n \in servers' /\ srv'[n].state \in Retiring
          /\ srv[n].state = "DEACTIVATED" => srv'[n].state = "DEACTIVATED"
       \/ /\ srv[n].state = "DEACTIVATED"
          /\ n \notin servers' /\ node'[n] \in {"removing", "leaving"}]_vars

Phase ==
  CASE lbState = "STARTING"                                     -> "starting"
    [] lbState \in {"STABLE", "RESTARTING_TASK"}                -> "idle"
    [] lbState \in {"INCREASING", "WAITING_FOR_NEW_SERVERS"}    -> "growing"
    [] lbState \in {"DECREASING", "TRIGGER_REMOVAL"}            -> "retiring"
    [] lbState = "WAIT_FOR_REMOVAL"                             -> "removing"

Change == INSTANCE PoolChange WITH phase <- Phase, victim <- target, members <- servers

\* Every behaviour of the load balancer takes the pool through one change at a time.
ImplementsPoolChange == Change!Spec

-----------------------------------------------------------------------------
(* Liveness, under FairSpec.                                               *)

\* Start up ends: the servers are all up or declared crashed, or the pool was given up
\* (LoadBalancerMain:91, 116-136).
StartupEnds == Phase = "starting" ~> Phase = "idle" \/ pc = "exited"

\* A resize is followed to its end whether or not the game of the new node ever starts:
\* a server that does not answer is at last CRASHED, which counts as ready (Server:125,
\* LoadBalancerMain:302).
GrowthEnds == Phase = "growing" ~> Phase = "idle"

\* The lobby is told to send somebody to the server that retires: its team is mapped there
\* (PoolManager:236).
JoinsRetiring ==
  target # None /\ \E p \in Players : goes[p] # target /\ goes'[p] = target

\* A server that was told to retire leaves the list, although nobody waits for its reply,
\* unless players are sent to it again and again: a poll that finds one of them there
\* (Server:257) puts the confirmation off.
AcceptedRetirementEnds ==
  \/ (Phase = "retiring" /\ srv[target].state \in Retiring) ~> Phase = "removing"
  \/ []<><<JoinsRetiring>>_vars

\* The balancer does not undo what it has done: the tests for growing and for merging
\* (LoadBalancerMain:368, 386) do not answer each other, and the pool comes to rest once
\* servers no longer crash and the lobby asks for nothing.
PoolComesToRest ==
  \/ <>[][UNCHANGED Phase]_vars
  \/ []<>(CrashedServers # {})
  \/ []<><<CommandStep>>_vars

\* The comment on TRIGGER_REMOVAL, "Manual Removal or Crash will automatically switch State
\* to here" (LoadBalancerMain:320): every retirement goes on, one whose server is found
\* dead included.
RetirementEnds == Phase = "retiring" ~> Phase = "removing"

\* A removal is over once the service is done, when a poll has seen it work.
SeenRemovalEnds ==
  (Phase = "removing" /\ poolState # "FLAG_TO_SHIFT") ~> Phase = "idle"

\* The comment on the flag, "let the planner reset this flag" (PoolManager:76): the planner
\* that waits for the removal (LoadBalancerMain:330) gets past it.
RemovalEnds == Phase = "removing" ~> Phase = "idle"
=============================================================================

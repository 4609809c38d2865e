-------------------------- MODULE ServerObject_proof --------------------------
(***************************************************************************)
(* Lemmas about the methods of a Server object, for every value of the     *)
(* constants: each of them keeps the record well formed, and which states  *)
(* poll() and decommission() can lead to.                                  *)
(***************************************************************************)
EXTENDS ServerObject, FiniteSetTheorems, TLAPS

LEMMA CountOfPlayers ==
  ASSUME NEW S \in SUBSET Players
  PROVE  Cardinality(S) \in Nat
  BY ServerAssumption, FS_Subset, FS_CardinalityType

LEMMA TeamMapType ==
  ASSUME NEW S \in SUBSET Players, NEW f \in [S -> AnyTeam]
  PROVE  f \in TeamMaps
  BY DEF TeamMaps

LEMMA MasterTeamType ==
  \A p \in Players : MasterTeam[p] \in AnyTeam
  BY ServerAssumption DEF AnyTeam

LEMMA NewServerType == NewServer \in ServerRecords
<1> DEFINE none == [p \in {} |-> NoTeam]
<1>1. none \in [{} -> AnyTeam] BY DEF AnyTeam
<1>2. none \in TeamMaps BY <1>1, TeamMapType
<1>3. 0 \in 0 .. FailureCap BY ServerAssumption DEF FailureCap
<1> QED BY <1>2, <1>3 DEF NewServer, ServerRecords, States

LEMMA CounterType ==
  ASSUME NEW s \in ServerRecords
  PROVE  /\ Missed(s) \in ServerRecords
         /\ Forgiven(s) \in ServerRecords
         /\ \A limit \in Nat : CrashedBeyond(s, limit) \in ServerRecords
         /\ \A mc : NotAnswered(s, mc) \in ServerRecords
         /\ \A mc : AliveChecked(s, mc) \in ServerRecords
<1>1. FailureCap \in Nat BY ServerAssumption DEF FailureCap
<1>2. Missed(s) \in ServerRecords BY <1>1 DEF Missed, ServerRecords
<1>3. Forgiven(s) \in ServerRecords BY <1>1 DEF Forgiven, ServerRecords
<1>4. \A limit \in Nat : CrashedBeyond(s, limit) \in ServerRecords
  BY DEF CrashedBeyond, ServerRecords, States
<1>5. \A mc : NotAnswered(s, mc) \in ServerRecords BY <1>2 DEF NotAnswered
<1> QED BY <1>2, <1>3, <1>4, <1>5 DEF AliveChecked

LEMMA SampleType ==
  ASSUME NEW s \in ServerRecords, NEW seen \in SUBSET Players
  PROVE  SampleTaken(s, seen) \in ServerRecords
<1> DEFINE teams == [p \in seen |-> IF p \in DOMAIN s.player_team
                                    THEN s.player_team[p] ELSE MasterTeam[p]]
<1>1. \A p \in DOMAIN s.player_team : s.player_team[p] \in AnyTeam
  BY DEF ServerRecords, TeamMaps
<1>2. teams \in [seen -> AnyTeam] BY <1>1, MasterTeamType
<1>3. teams \in TeamMaps BY <1>2, TeamMapType
<1>4. Cardinality(seen) \in Nat BY CountOfPlayers
<1>5. 0 \in 0 .. FailureCap BY ServerAssumption DEF FailureCap
<1> HIDE DEF teams
<1>6. [s EXCEPT !.player_team = teams, !.playercount = Cardinality(seen), !.countfailures = 0]
        \in ServerRecords
  BY <1>3, <1>4, <1>5 DEF ServerRecords
<1> QED BY <1>6 DEF SampleTaken, teams

LEMMA ApiCheckType ==
  ASSUME NEW s \in ServerRecords, NEW api
  PROVE  ApiChecked(s, api) \in ServerRecords
  BY DEF ApiChecked, ServerRecords, States

LEMMA PolledType ==
  ASSUME NEW s \in ServerRecords, NEW r \in Replies
  PROVE  Polled(s, r) \in ServerRecords
<1> r.seen \in SUBSET Players BY DEF Replies
<1> MaxFails \in Nat /\ 2 * MaxFails \in Nat BY ServerAssumption
<1>1. PollInitializing(s, r) \in ServerRecords
  <2>1. [Forgiven(s) EXCEPT !.state = "STABLE"] \in ServerRecords
    BY CounterType DEF ServerRecords, States
  <2> QED BY <2>1, CounterType DEF PollInitializing
<1>2. PollServing(s, r) \in ServerRecords
  BY CounterType, SampleType, ApiCheckType DEF PollServing
<1>3. PollTaskFailed(s, r) \in ServerRecords
  BY CounterType, SampleType, ApiCheckType DEF PollTaskFailed
<1>4. PollRequested(s, r) \in ServerRecords BY DEF PollRequested, ServerRecords, States
<1>5. PollConfirming(s, r) \in ServerRecords BY DEF PollConfirming, ServerRecords, States
<1>6. PollCrashed(s, r) \in ServerRecords
  <2>1. [Forgiven(s) EXCEPT !.state = "STABLE"] \in ServerRecords
    BY CounterType DEF ServerRecords, States
  <2> QED BY <2>1, CounterType DEF PollCrashed
<1>7. s.state \in States BY DEF ServerRecords
<1> QED BY <1>1, <1>2, <1>3, <1>4, <1>5, <1>6, <1>7 DEF Polled, States

LEMMA PlayerAddedType ==
  ASSUME NEW s \in ServerRecords, NEW p \in Players, NEW t \in AnyTeam
  PROVE  PlayerAdded(s, p, t) \in ServerRecords
<1> DEFINE teams == [q \in DOMAIN s.player_team \cup {p} |->
                       IF q = p THEN t ELSE s.player_team[q]]
<1>1. PICK S \in SUBSET Players : s.player_team \in [S -> AnyTeam]
  BY DEF ServerRecords, TeamMaps
<1>2. S \cup {p} \in SUBSET Players OBVIOUS
<1>3. teams \in [S \cup {p} -> AnyTeam] BY <1>1
<1>4. teams \in TeamMaps BY <1>2, <1>3, TeamMapType
<1> HIDE DEF teams
<1>5. \A f \in TeamMaps, c \in Nat :
        [s EXCEPT !.player_team = f, !.playercount = c] \in ServerRecords
  BY DEF ServerRecords
<1>6. s.playercount + 1 \in Nat BY DEF ServerRecords
<1>7. [s EXCEPT !.player_team = teams, !.playercount = s.playercount + 1] \in ServerRecords
  BY <1>4, <1>5, <1>6
<1> QED BY <1>7 DEF PlayerAdded, teams

LEMMA DecommissionedType ==
  ASSUME NEW s \in ServerRecords, NEW hasTarget, NEW mc
  PROVE  Decommissioned(s, hasTarget, mc) \in ServerRecords
<1>1. Forgiven(s) \in ServerRecords /\ AliveChecked(s, mc) \in ServerRecords BY CounterType
<1>2. \A x \in ServerRecords, st \in States : [x EXCEPT !.state = st] \in ServerRecords
  BY DEF ServerRecords
<1> QED BY <1>1, <1>2 DEF Decommissioned, States

-----------------------------------------------------------------------------
(* Where poll() takes an object, whatever the node answers.                *)

Serving  == {"STABLE", "WAITING_FOR_MERGE", "STABLE_BUT_TASK_FAILED"}
Draining == {"REQUESTED_DEACTIVATION", "CONFIRMING_DEACTIVATION"}

\* poll() starts no retirement and no merge, and takes no server out of a retirement.
PollMove(from, to) ==
  /\ from = "INITIALIZING" => to \in {"INITIALIZING", "STABLE", "CRASHED"}
  /\ from \in Serving => to \in (Serving \ {"WAITING_FOR_MERGE"}) \cup {"CRASHED", from}
  /\ from \in Draining => to \in Draining \cup {"DEACTIVATED"}
  /\ from = "DEACTIVATED" => to = "DEACTIVATED"
  /\ from = "CRASHED" => to \in {"CRASHED", "STABLE"}

LEMMA PolledStates ==
  ASSUME NEW s \in ServerRecords, NEW r \in Replies
  PROVE  PollMove(s.state, Polled(s, r).state)
<1>0. s.state \in States BY DEF ServerRecords
<1>1. CASE s.state = "INITIALIZING"
  <2>1. PollInitializing(s, r).state \in {"INITIALIZING", "STABLE", "CRASHED"}
    BY <1>1 DEF PollInitializing, CrashedBeyond, NotAnswered, Missed, Forgiven, ServerRecords
  <2> QED BY <1>1, <2>1 DEF Polled, PollMove, Serving, Draining
<1>2. CASE s.state \in {"STABLE", "WAITING_FOR_MERGE"}
  <2>1. PollServing(s, r).state \in (Serving \ {"WAITING_FOR_MERGE"}) \cup {"CRASHED", s.state}
    BY <1>2 DEF PollServing, CrashedBeyond, NotAnswered, Missed, SampleTaken, ApiChecked, Serving,
       ServerRecords
  <2> QED BY <1>2, <2>1 DEF Polled, PollMove, Serving, Draining
<1>3. CASE s.state = "STABLE_BUT_TASK_FAILED"
  <2>1. PollTaskFailed(s, r).state \in (Serving \ {"WAITING_FOR_MERGE"}) \cup {"CRASHED"}
    BY <1>3 DEF PollTaskFailed, CrashedBeyond, NotAnswered, Missed, SampleTaken, ApiChecked,
       Serving, ServerRecords
  <2> QED BY <1>3, <2>1 DEF Polled, PollMove, Serving, Draining
<1>4. CASE s.state \in Draining
  BY <1>4 DEF Polled, PollRequested, PollConfirming, PollMove, Serving, Draining, ServerRecords
<1>5. CASE s.state = "CRASHED"
  <2>1. PollCrashed(s, r).state \in {"CRASHED", "STABLE"}
    BY <1>5 DEF PollCrashed, NotAnswered, Missed, Forgiven, ServerRecords
  <2> QED BY <1>5, <2>1 DEF Polled, PollMove, Serving, Draining
<1>6. CASE s.state = "DEACTIVATED"
  BY <1>6 DEF Polled, PollMove, Serving, Draining
<1> QED BY <1>0, <1>1, <1>2, <1>3, <1>4, <1>5, <1>6 DEF States, Draining
=============================================================================

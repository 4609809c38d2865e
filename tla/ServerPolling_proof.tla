-------------------------- MODULE ServerPolling_proof --------------------------
(***************************************************************************)
(* What ServerPolling promises, proved for every set of players and teams  *)
(* and every threshold.  The inductive invariant ties the failure counter  *)
(* of the object to the silence of the node in each state; refinement of   *)
(* ServerLifecycle follows from type correctness alone.                    *)
(***************************************************************************)
EXTENDS ServerPolling, ServerObject_proof

\* While a server boots the counter is the silence; while it serves the counter covers the
\* silence, with at most one failure on top that an API exception left behind.
CounterInv ==
  /\ srv.state = "INITIALIZING" =>
       srv.countfailures = silence /\ silence <= 2 * MaxFails
  /\ srv.state \in Serving =>
       /\ silence <= srv.countfailures /\ srv.countfailures <= silence + 1
       /\ srv.countfailures <= MaxFails
  /\ srv.state = "CRASHED" => silence >= MaxFails \/ probed

IInv == TypeOK /\ CounterInv

LEMMA CapType == FailureCap \in Nat /\ FailureCap = 2 * MaxFails + 1 /\ MaxFails \in Nat
  BY ServerAssumption DEF FailureCap

LEMMA HeardType ==
  ASSUME TypeOK, NEW mc
  PROVE  /\ Heard(mc) \in 0 .. FailureCap
         /\ mc = "answer" => Heard(mc) = 0
         /\ mc = "keyerror" => Heard(mc) = silence
         /\ mc \notin {"answer", "keyerror"} =>
              Heard(mc) = IF silence < FailureCap THEN silence + 1 ELSE silence
  BY CapType DEF TypeOK, Heard

LEMMA InitInv == Init => IInv
<1> SUFFICES ASSUME Init PROVE IInv OBVIOUS
<1>1. TypeOK
  <2>1. 0 \in 0 .. FailureCap BY CapType
  <2>2. FALSE \in BOOLEAN OBVIOUS
  <2> QED BY <2>1, <2>2, NewServerType DEF Init, TypeOK
<1>2. CounterInv BY CapType DEF Init, CounterInv, NewServer, Serving
<1> QED BY <1>1, <1>2 DEF IInv

LEMMA NextType == TypeOK /\ [Next]_vars => TypeOK'
<1> SUFFICES ASSUME TypeOK, [Next]_vars PROVE TypeOK' OBVIOUS
<1>1. ASSUME NEW r \in Replies, Poll(r) PROVE TypeOK'
  BY <1>1, PolledType, HeardType DEF Poll, TypeOK
<1>2. ASSUME NEW p \in Players, NEW t \in Teams, AddPlayer(p, t) PROVE TypeOK'
  BY <1>2, PlayerAddedType DEF AddPlayer, TypeOK, AnyTeam
<1>3. ASSUME NEW hasTarget \in BOOLEAN, NEW mc \in McReplies, Decommission(hasTarget, mc)
      PROVE  TypeOK'
  BY <1>3, DecommissionedType, HeardType DEF Decommission, TypeOK
<1>4. CASE BecomeMergeTarget
  BY <1>4 DEF BecomeMergeTarget, TypeOK, ServerRecords, States
<1>5. CASE UNCHANGED vars BY <1>5 DEF vars, TypeOK
<1> QED BY <1>1, <1>2, <1>3, <1>4, <1>5 DEF Next

\* What a poll makes of the state and of the counter, branch by branch.
LEMMA PollInv ==
  ASSUME IInv, NEW r \in Replies, Poll(r)
  PROVE  CounterInv'
<1> TypeOK BY DEF IInv
<1> USE CapType, HeardType
<1> r.mc \in McReplies BY DEF Replies
<1>0. /\ srv \in ServerRecords /\ srv.countfailures \in 0 .. FailureCap
      /\ silence \in 0 .. FailureCap /\ probed \in BOOLEAN
  BY DEF IInv, TypeOK, ServerRecords
<1>1. CASE srv.state = "INITIALIZING"
  <2>1. srv' = PollInitializing(srv, r) /\ silence' = Heard(r.mc)
    BY <1>1 DEF Poll, Polled, CallsStatus
  <2>2. CASE r.mc = "answer"
    BY <1>0, <2>1, <2>2 DEF PollInitializing, Forgiven, CounterInv, Serving, ServerRecords, IInv
  <2>3. CASE r.mc # "answer"
    BY <1>0, <1>1, <2>1, <2>3 DEF PollInitializing, CrashedBeyond, NotAnswered, Missed, CounterInv,
       Serving, ServerRecords, IInv
  <2> QED BY <2>2, <2>3
<1>2. CASE srv.state \in {"STABLE", "WAITING_FOR_MERGE"}
  <2>1. srv' = PollServing(srv, r) /\ silence' = Heard(r.mc)
    BY <1>2 DEF Poll, Polled, CallsStatus
  <2>2. CASE r.mc = "answer"
    BY <1>0, <1>2, <2>1, <2>2 DEF PollServing, CrashedBeyond, SampleTaken, Missed, ApiChecked,
       CounterInv, Serving, ServerRecords, IInv
  <2>3. CASE r.mc # "answer"
    BY <1>0, <1>2, <2>1, <2>3 DEF PollServing, CrashedBeyond, NotAnswered, Missed, CounterInv,
       Serving, ServerRecords, IInv
  <2> QED BY <2>2, <2>3
<1>3. CASE srv.state = "STABLE_BUT_TASK_FAILED"
  <2>1. srv' = PollTaskFailed(srv, r) /\ silence' = Heard(r.mc)
    BY <1>3 DEF Poll, Polled, CallsStatus
  <2>2. CASE r.mc = "answer"
    BY <1>0, <1>3, <2>1, <2>2 DEF PollTaskFailed, SampleTaken, ApiChecked, CounterInv, Serving,
       ServerRecords, IInv
  <2>3. CASE r.mc # "answer"
    BY <1>0, <1>3, <2>1, <2>3 DEF PollTaskFailed, CrashedBeyond, NotAnswered, Missed, ApiChecked,
       CounterInv, Serving, ServerRecords, IInv
  <2> QED BY <2>2, <2>3
<1>4. CASE srv.state \in Retiring
  BY <1>0, <1>4 DEF Retiring, Poll, Polled, PollRequested, PollConfirming, CounterInv, Serving,
     ServerRecords
<1>5. CASE srv.state = "CRASHED"
  <2>1. srv' = PollCrashed(srv, r) /\ silence' = Heard(r.mc)
        /\ probed' = (probed /\ srv'.state = "CRASHED")
    BY <1>5 DEF Poll, Polled, CallsStatus
  <2>2. CASE r.mc = "answer"
    <3>1. srv'.state = "STABLE" /\ srv'.countfailures = 0
      BY <1>0, <2>1, <2>2 DEF PollCrashed, Forgiven, ServerRecords
    <3>2. silence' = 0 BY <1>0, <2>1, <2>2
    <3> QED BY <3>1, <3>2 DEF CounterInv, Serving
  <2>3. CASE r.mc # "answer"
    <3>1. srv'.state = "CRASHED"
      BY <1>0, <1>5, <2>1, <2>3 DEF PollCrashed, NotAnswered, Missed, ServerRecords
    <3>2. silence >= MaxFails => silence' >= MaxFails BY <1>0, <2>1, <2>3
    <3>3. probed => probed' BY <2>1, <3>1
    <3> QED BY <1>5, <3>1, <3>2, <3>3 DEF CounterInv, Serving, IInv
  <2> QED BY <2>2, <2>3
<1> QED BY <1>0, <1>1, <1>2, <1>3, <1>4, <1>5 DEF ServerRecords, States, Retiring

LEMMA NextInv == IInv /\ [Next]_vars => IInv'
<1> SUFFICES ASSUME IInv, [Next]_vars PROVE CounterInv' BY NextType DEF IInv
<1> USE CapType
<1>0. /\ srv \in ServerRecords /\ silence \in 0 .. FailureCap
  BY DEF IInv, TypeOK
<1>1. ASSUME NEW r \in Replies, Poll(r) PROVE CounterInv' BY <1>1, PollInv
<1>2. ASSUME NEW p \in Players, NEW t \in Teams, AddPlayer(p, t) PROVE CounterInv'
  <2>1. srv'.state = srv.state /\ srv'.countfailures = srv.countfailures
    BY <1>0, <1>2 DEF AddPlayer, PlayerAdded, ServerRecords
  <2> QED BY <1>2, <2>1 DEF AddPlayer, CounterInv, IInv
<1>3. ASSUME NEW hasTarget \in BOOLEAN, NEW mc \in McReplies, Decommission(hasTarget, mc)
      PROVE  CounterInv'
  <2>1. CASE mc = "answer"
    <3>1. srv'.state \in Retiring
      BY <1>0, <1>3, <2>1 DEF Decommission, Decommissioned, Forgiven, Retiring, ServerRecords
    <3> QED BY <3>1 DEF CounterInv, Serving, Retiring
  <2>2. CASE mc # "answer"
    <3>1. srv'.state = "CRASHED" /\ probed'
      BY <1>0, <1>3, <2>2, CounterType DEF Decommission, Decommissioned, ServerRecords
    <3> QED BY <3>1 DEF CounterInv, Serving
  <2> QED BY <2>1, <2>2
<1>4. CASE BecomeMergeTarget
  BY <1>0, <1>4 DEF BecomeMergeTarget, CounterInv, Serving, IInv, ServerRecords
<1>5. CASE UNCHANGED vars BY <1>5 DEF vars, CounterInv, IInv
<1> QED BY <1>1, <1>2, <1>3, <1>4, <1>5 DEF Next

\* The object stays well formed under every sequence of calls and replies (Server:19-42).
THEOREM TypeCorrect == Spec => []TypeOK
<1>1. Init => TypeOK BY InitInv DEF IInv
<1> QED BY <1>1, NextType, PTL DEF Spec

\* The counter of maxFailsBeforeDown (Server:126, 181, 237) misses no silence of a serving
\* node, whatever the threshold.
THEOREM SilenceSeen == Spec => []SilenceIsNoticed
<1>1. IInv => SilenceIsNoticed
  <2> SUFFICES ASSUME IInv, Phase = "serving" PROVE silence <= MaxFails BY DEF SilenceIsNoticed
  <2>1. srv.state \in States BY DEF IInv, TypeOK, ServerRecords
  <2>2. srv.state \in Serving BY <2>1 DEF Phase, States, Serving
  <2>3. srv.countfailures \in Int /\ silence \in Int /\ MaxFails \in Int
    BY CapType DEF IInv, TypeOK, ServerRecords
  <2> QED BY <2>2, <2>3 DEF IInv, CounterInv
<1> QED BY <1>1, InitInv, NextInv, PTL DEF Spec

\* Nor does it take an answering node for a silent one.
THEOREM SilenceCounted == Spec => []CrashedOnlyAfterSilence
<1>1. IInv => CrashedOnlyAfterSilence BY DEF IInv, CounterInv, CrashedOnlyAfterSilence
<1> QED BY <1>1, InitInv, NextInv, PTL DEF Spec

-----------------------------------------------------------------------------
(* Refinement of ServerLifecycle.                                          *)

\* The moves between states that the phases allow.
StateMove(from, to) ==
  /\ from = "INITIALIZING" => to \in {"INITIALIZING", "STABLE", "CRASHED"}
  /\ from \in Serving => to \in Serving \cup Draining \cup {"CRASHED"}
  /\ from \in Draining => to \in Draining \cup {"DEACTIVATED"}
  /\ from = "DEACTIVATED" => to = "DEACTIVATED"
  /\ from = "CRASHED" => to \in {"CRASHED", "STABLE"}

LEMMA PolledMoves ==
  ASSUME NEW s \in ServerRecords, NEW r \in Replies
  PROVE  StateMove(s.state, Polled(s, r).state)
<1>1. s.state \in States BY DEF ServerRecords
<1>2. PollMove(s.state, Polled(s, r).state) BY PolledStates
<1> QED BY <1>1, <1>2 DEF PollMove, StateMove, States, Serving, Draining

LEMMA MovePhase ==
  ASSUME srv.state \in States, srv'.state \in States, StateMove(srv.state, srv'.state)
  PROVE  [Lifecycle!Next]_Phase
<1> USE DEF Phase, Lifecycle!Next, Lifecycle!Move, StateMove, States, Serving, Draining
<1>1. CASE srv.state = "INITIALIZING" BY <1>1 DEF Lifecycle!Boot, Lifecycle!NeverBoots
<1>2. CASE srv.state \in Serving BY <1>2 DEF Lifecycle!Fall, Lifecycle!StartDrain
<1>3. CASE srv.state \in Draining BY <1>3 DEF Lifecycle!EndDrain
<1>4. CASE srv.state = "DEACTIVATED" BY <1>4
<1>5. CASE srv.state = "CRASHED" BY <1>5 DEF Lifecycle!Recover
<1> QED BY <1>1, <1>2, <1>3, <1>4, <1>5

LEMMA NextMoves == TypeOK /\ [Next]_vars => StateMove(srv.state, srv'.state)
<1> SUFFICES ASSUME TypeOK, [Next]_vars PROVE StateMove(srv.state, srv'.state) OBVIOUS
<1>0. srv \in ServerRecords /\ srv.state \in States BY DEF TypeOK, ServerRecords
<1>1. ASSUME NEW r \in Replies, Poll(r) PROVE StateMove(srv.state, srv'.state)
  BY <1>0, <1>1, PolledMoves DEF Poll
<1>2. ASSUME srv'.state = srv.state PROVE StateMove(srv.state, srv'.state)
  BY <1>0, <1>2 DEF StateMove, States, Serving, Draining
<1>3. ASSUME NEW p \in Players, NEW t \in Teams, AddPlayer(p, t)
      PROVE  StateMove(srv.state, srv'.state)
  <2>1. srv'.state = srv.state BY <1>0, <1>3 DEF AddPlayer, PlayerAdded, ServerRecords
  <2> QED BY <1>2, <2>1
<1>4. ASSUME NEW hasTarget \in BOOLEAN, NEW mc \in McReplies, Decommission(hasTarget, mc)
      PROVE  StateMove(srv.state, srv'.state)
  <2>1. srv'.state \in Draining \cup {"CRASHED"}
    <3>1. CASE mc = "answer"
      BY <1>0, <1>4, <3>1 DEF Decommission, Decommissioned, Forgiven, Draining, ServerRecords
    <3>2. CASE mc # "answer"
      BY <1>0, <1>4, <3>2, CounterType DEF Decommission, Decommissioned, ServerRecords
    <3> QED BY <3>1, <3>2
  <2> QED BY <1>4, <2>1 DEF Decommission, StateMove, Serving, Draining
<1>5. ASSUME BecomeMergeTarget PROVE StateMove(srv.state, srv'.state)
  BY <1>0, <1>5 DEF BecomeMergeTarget, StateMove, Serving, Draining, ServerRecords
<1> QED BY <1>1, <1>2, <1>3, <1>4, <1>5 DEF Next, vars

\* The methods of Server, in any order and with any replies, implement ServerLifecycle: a
\* server in retirement never serves again (Server:241-289).
THEOREM LifecycleRefined == Spec => ImplementsLifecycle
<1>1. Init => Lifecycle!Init BY DEF Init, NewServer, Phase, Lifecycle!Init
<1>2. TypeOK /\ TypeOK' /\ [Next]_vars => [Lifecycle!Next]_Phase
  BY MovePhase, NextMoves DEF TypeOK, ServerRecords
<1> QED BY <1>1, <1>2, TypeCorrect, PTL DEF Spec, ImplementsLifecycle, Lifecycle!Spec
=============================================================================

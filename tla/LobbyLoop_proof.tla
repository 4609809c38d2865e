-------------------------- MODULE LobbyLoop_proof --------------------------
(***************************************************************************)
(* The main loop behind the lobby's channel implements RequestReply, for   *)
(* any clients, texts, backlog and number of joins.                        *)
(***************************************************************************)
EXTENDS LobbyLoop, LineChannel_proof

LoopTypeOK ==
  /\ mpc \in {"boot", "clock", "command", "tick", "over", "dead"}
  /\ starting \in BOOLEAN
  /\ due \in BOOLEAN
  /\ modifier \in 0 .. MaxModifier

IInv == ChannelInv /\ LoopTypeOK

LEMMA LoopKeepsType ==
  ASSUME IInv, LoopStep
  PROVE  LoopTypeOK'
<1> USE ModifierAssumption DEF IInv, LoopTypeOK
<1>1. CASE LaunchLobby \/ GiveUp
  BY <1>1 DEF LaunchLobby, GiveUp
<1>2. ASSUME NEW now \in BOOLEAN, ReadClock(now) PROVE LoopTypeOK'
  BY <1>2 DEF ReadClock
<1>3. CASE NoCommand \/ Refuse \/ Reply
  BY <1>3 DEF NoCommand, Refuse, Reply, Hears, AtCommand
<1>4. CASE Join
  BY <1>4 DEF Join, Hears, AtCommand
<1>5. CASE AddOne
  BY <1>5 DEF AddOne, Hears, AtCommand
<1>6. CASE Poll
  <2>1. modifier' \in 0 .. MaxModifier
    BY <1>6 DEF Poll
  <2>2. starting' \in BOOLEAN /\ due' = due
    BY <1>6 DEF Poll, AtTick, StaysOrStarts
  <2> QED
    BY <1>6, <2>1, <2>2 DEF Poll
<1>7. CASE SkipPoll
  BY <1>7 DEF SkipPoll, AtTick
<1>8. CASE NoTick
  <2>1. starting' \in BOOLEAN /\ due' = due
    BY <1>8 DEF NoTick, AtTick, StaysOrStarts
  <2> QED
    BY <1>8, <2>1 DEF NoTick
<1> QED
  BY <1>1, <1>2, <1>3, <1>4, <1>5, <1>6, <1>7, <1>8 DEF LoopStep, Command

LEMMA LoopKeepsChannel ==
  ASSUME IInv, LoopStep
  PROVE  ChannelInv' /\ PromiseStep
<1> USE DEF IInv
<1>1. CASE LaunchLobby
  BY <1>1, ServerMoves DEF LaunchLobby
<1>2. CASE GiveUp
  BY <1>2, UnchangedKeeps DEF GiveUp
<1>3. ASSUME NEW now \in BOOLEAN, ReadClock(now) PROVE ChannelInv' /\ PromiseStep
  BY <1>3, UnchangedKeeps DEF ReadClock
<1>4. CASE NoCommand
  BY <1>4, UnchangedKeeps, DroppingKeeps DEF NoCommand
<1>5. CASE Refuse \/ Reply \/ Join
  BY <1>5, AnsweringKeeps DEF Refuse, Reply, Join
<1>6. CASE AddOne
  BY <1>6, AnsweringKeeps, DroppingKeeps DEF AddOne
<1>7. CASE Poll \/ SkipPoll \/ NoTick
  BY <1>7, UnchangedKeeps DEF Poll, SkipPoll, NoTick, AtTick
<1> QED
  BY <1>1, <1>2, <1>3, <1>4, <1>5, <1>6, <1>7 DEF LoopStep, Command

LEMMA InitIInv == Init => IInv /\ Promise!Init
<1> SUFFICES ASSUME Init PROVE IInv /\ Promise!Init
  OBVIOUS
<1>1. ChannelInv /\ Promise!Init
  BY ChannelStarts DEF Init
<1>2. LoopTypeOK
  <2>1. modifier \in 0 .. MaxModifier
    BY ModifierAssumption DEF Init
  <2>2. starting \in BOOLEAN /\ due \in BOOLEAN
    BY DEF Init
  <2> QED
    BY <2>1, <2>2 DEF Init, LoopTypeOK
<1> QED
  BY <1>1, <1>2 DEF IInv

LEMMA NextIInv == IInv /\ [Next]_vars => IInv' /\ PromiseStep
<1> SUFFICES ASSUME IInv, [Next]_vars PROVE IInv' /\ PromiseStep
  OBVIOUS
<1>1. CASE LoopStep
  BY <1>1, LoopKeepsType, LoopKeepsChannel DEF IInv
<1>2. CASE ThreadStep /\ UNCHANGED loopVars
  BY <1>2, ThreadKeeps DEF IInv, LoopTypeOK, loopVars
<1>3. CASE ClientStep /\ UNCHANGED loopVars
  BY <1>3, ClientKeeps DEF IInv, LoopTypeOK, loopVars
<1>4. CASE UNCHANGED vars
  BY <1>4, UnchangedKeeps DEF IInv, LoopTypeOK, loopVars, vars
<1> QED
  BY <1>1, <1>2, <1>3, <1>4 DEF Next

\* The queues, the connections and the counter of polls put off keep their types
\* (LoadBalancerMain:107-219, TCPServers:42-70).
THEOREM TypeCorrect == Spec => []TypeOK
<1>1. Init => IInv
  BY InitIInv
<1>2. IInv /\ [Next]_vars => IInv'
  BY NextIInv
<1>3. IInv => TypeOK
  BY DEF IInv, ChannelInv, LoopTypeOK, TypeOK
<1> QED
  BY <1>1, <1>2, <1>3, PTL DEF Spec

\* Whatever lines come and whenever the main loop ends, a reply goes to the client that
\* asked, and no second request is taken before (TCPServers:42-70, LoadBalancerMain:118-217).
THEOREM RequestReplyKept == Spec => ImplementsRequestReply
<1>1. Init => IInv /\ Promise!Init
  BY InitIInv
<1>2. IInv /\ [Next]_vars => IInv' /\ [Promise!Next]_<<Asker, Request, Answer>>
  BY NextIInv DEF PromiseStep, promiseVars
<1> QED
  BY <1>1, <1>2, PTL DEF Spec, ImplementsRequestReply, Promise!Spec

-----------------------------------------------------------------------------
(* Which steps of the loop can lose a reply.                               *)

LEMMA LoopLoses ==
  ASSUME IInv, LoopStep, ~ ReplyLost, ReplyLost'
  PROVE  in_queue # <<>> /\ (NextLine = Unreadable \/ mpc' = "dead")
<1> USE DEF IInv, channelVars
<1>1. CASE LaunchLobby \/ GiveUp
  BY <1>1, QueuesLoseNothing DEF LaunchLobby, GiveUp
<1>2. ASSUME NEW now \in BOOLEAN, ReadClock(now) PROVE FALSE
  BY <1>2, QueuesLoseNothing DEF ReadClock
<1>3. CASE NoCommand
  BY <1>3, QueuesLoseNothing DEF NoCommand, LineDropped
<1>4. CASE Refuse \/ Reply \/ Join
  BY <1>4, AnsweringLosesNothing DEF Refuse, Reply, Join
<1>5. CASE AddOne
  BY <1>5, AnsweringLosesNothing DEF AddOne, Hears, HasLine
<1>6. CASE Poll \/ SkipPoll \/ NoTick
  BY <1>6, QueuesLoseNothing DEF Poll, SkipPoll, NoTick, AtTick
<1> QED
  BY <1>1, <1>2, <1>3, <1>4, <1>5, <1>6 DEF LoopStep, Command

\* Nothing but an unreadable line or the end of the main loop leaves the lobby waiting for
\* a reply that does not come (LoadBalancerMain:118-217, TCPServers:61).
THEOREM NoReplyForgotten == Spec => RepliesAreKept
<1>1. ASSUME IInv, [Next]_vars, ~ ReplyLost, ReplyLost'
      PROVE  in_queue # <<>> /\ (NextLine = Unreadable \/ mpc' = "dead")
  <2>1. CASE LoopStep
    BY <1>1, <2>1, LoopLoses
  <2>2. CASE ThreadStep \/ ClientStep
    BY <1>1, <2>2, ThreadLosesNothing DEF IInv
  <2>3. CASE UNCHANGED vars
    BY <1>1, <2>3, QueuesLoseNothing DEF vars, channelVars
  <2> QED
    BY <1>1, <2>1, <2>2, <2>3 DEF Next
<1>2. IInv /\ [Next]_vars =>
        [~ ReplyLost /\ ReplyLost' => in_queue # <<>> /\ (NextLine = Unreadable \/ mpc' = "dead")]_vars
  BY <1>1
<1>3. Init => IInv
  BY InitIInv
<1>4. IInv /\ [Next]_vars => IInv'
  BY NextIInv
<1> QED
  BY <1>2, <1>3, <1>4, PTL DEF Spec, RepliesAreKept
=============================================================================

--------------------------- MODULE MCServer_proof ---------------------------
(***************************************************************************)
(* The listener implements RequestReply, and an order that is under way to *)
(* the game is one it has recorded, for any clients, texts and scripts.    *)
(***************************************************************************)
EXTENDS MCServer, LineChannel_proof

ListenerTypeOK ==
  /\ state \in States
  /\ lpc \in {"start", "idle", "send", "kill", "joining", "over", "ended"}
  /\ letter \in Orders
  /\ letters \in SUBSET (Orders \cup {"SAY"})

NodeTypeOK ==
  /\ game \in {"down", "booting", "up", "closing", "leaving"}
  /\ looking \in 0 .. MaxScripts
  /\ starting \in 0 .. MaxScripts
  /\ looking + starting <= MaxScripts

\* A task ends with its letters, so the next one, which has recorded nothing, starts
\* without any.
EndsWithoutLetters == lpc \in {"start", "ended"} => letters = {}

IInv == ChannelInv /\ ListenerTypeOK /\ NodeTypeOK /\ OrderIsRecorded /\ EndsWithoutLetters

Retired == {"REQUESTED_DEACTIVATION", "DEACTIVATED"}

LEMMA TestKeepsState ==
  ASSUME state \in States
  PROVE  Tested \in States /\ (state \in Retired => Tested \in Retired)
  BY DEF Tested, States, Retired

LEMMA LaunchKeepsNode ==
  ASSUME NodeTypeOK, ScriptLaunched
  PROVE  NodeTypeOK'
  BY ScriptAssumption DEF NodeTypeOK, ScriptLaunched

-----------------------------------------------------------------------------
(* The variables of the listener and of the node.                          *)

Own == ListenerTypeOK /\ NodeTypeOK /\ OrderIsRecorded /\ EndsWithoutLetters

LEMMA UnchangedOwn ==
  ASSUME Own, UNCHANGED <<listenerVars, nodeVars>>
  PROVE  Own'
  BY DEF Own, ListenerTypeOK, NodeTypeOK, OrderIsRecorded, EndsWithoutLetters, listenerVars, nodeVars

LEMMA ListenerKeepsOwn ==
  ASSUME Own, ListenerStep \/ Relaunch \/ TaskKilled \/ TaskRestarted
  PROVE  Own'
<1> USE DEF Own, OrderIsRecorded, EndsWithoutLetters, Retired
<1>1. CASE Boot
  <2>1. NodeTypeOK'
    BY <1>1, LaunchKeepsNode DEF Boot, nodeVars, NodeTypeOK
  <2> QED
    BY <1>1, <2>1, TestKeepsState DEF Boot, ListenerTypeOK
<1>2. CASE SkipLine \/ HelloOrUnknown
  BY <1>2, UnchangedOwn DEF SkipLine, HelloOrUnknown
<1>3. CASE Launch \/ Relaunch
  <2>1. NodeTypeOK'
    BY <1>3, LaunchKeepsNode DEF Launch, Relaunch
  <2> QED
    BY <1>3, <2>1 DEF Launch, Relaunch, ListenerTypeOK, listenerVars
<1>4. CASE Probe \/ StopRefused \/ StopAccepted
  <2>1. NodeTypeOK' /\ letters' = letters /\ letter' \in Orders /\ state' = Tested
    BY <1>4 DEF Probe, StopRefused, StopAccepted, nodeVars, NodeTypeOK, ListenerTypeOK, Orders
  <2> QED
    BY <1>4, <2>1, TestKeepsState DEF Probe, StopRefused, StopAccepted, Hears, ListenerTypeOK
<1>5. CASE PassMsg
  <2>1. NodeTypeOK' /\ letters' \subseteq letters \cup {"SAY"} /\ state' = Tested
    BY <1>5 DEF PassMsg, Sent, nodeVars, NodeTypeOK
  <2>2. letters' \cap Orders = {} \/ letters \cap Orders # {}
    BY <2>1 DEF Orders
  <2> QED
    BY <1>5, <2>1, <2>2, TestKeepsState DEF PassMsg, Hears, ListenerTypeOK
<1>6. CASE StopBroken
  BY <1>6, TestKeepsState DEF StopBroken, Hears, ListenerTypeOK, nodeVars, NodeTypeOK
<1>7. CASE SendOrder
  BY <1>7 DEF SendOrder, ListenerTypeOK, States, nodeVars, NodeTypeOK
<1>8. CASE Abort \/ KillComms \/ CommsJoined
  BY <1>8 DEF Abort, Hears, KillComms, CommsJoined, ListenerTypeOK, nodeVars, NodeTypeOK
<1>9. CASE ProcessEnds \/ TaskKilled \/ TaskRestarted
  BY <1>9 DEF ProcessEnds, TaskKilled, TaskRestarted, ListenerTypeOK, States, nodeVars, NodeTypeOK
<1> QED
  BY <1>1, <1>2, <1>3, <1>4, <1>5, <1>6, <1>7, <1>8, <1>9 DEF ListenerStep

LEMMA NodeKeepsOwn ==
  ASSUME Own, NodeStep
  PROVE  Own'
<1> USE DEF Own
<1>1. ASSUME NEW msg \in letters, Deliver(msg) PROVE Own'
  BY <1>1 DEF Deliver, ListenerTypeOK, NodeTypeOK, OrderIsRecorded, EndsWithoutLetters
<1>2. CASE GameIsUp \/ GameLeaves \/ GameCrashes
  BY <1>2 DEF GameIsUp, GameLeaves, GameCrashes, GameStep, ListenerTypeOK, NodeTypeOK,
              OrderIsRecorded, EndsWithoutLetters, listenerVars
<1>3. CASE ScriptLooks \/ ScriptStarts
  BY <1>3, ScriptAssumption DEF ScriptLooks, ScriptStarts, ListenerTypeOK, NodeTypeOK,
              OrderIsRecorded, EndsWithoutLetters, listenerVars
<1> QED
  BY <1>1, <1>2, <1>3 DEF NodeStep

-----------------------------------------------------------------------------
(* The channel.                                                            *)

LEMMA ListenerKeepsChannel ==
  ASSUME ChannelInv, ListenerStep \/ Relaunch \/ TaskKilled \/ TaskRestarted
  PROVE  ChannelInv' /\ PromiseStep
<1>1. CASE Boot \/ KillComms
  BY <1>1, ServerMoves DEF Boot, KillComms
<1>2. CASE SkipLine
  BY <1>2, DroppingKeeps DEF SkipLine
<1>3. CASE HelloOrUnknown \/ Abort \/ Launch \/ Probe \/ PassMsg \/ StopRefused \/ StopAccepted
  BY <1>3, AnsweringKeeps DEF HelloOrUnknown, Abort, Launch, Probe, PassMsg, StopRefused, StopAccepted
<1>4. CASE StopBroken
  BY <1>4, DroppingKeeps DEF StopBroken
<1>5. CASE SendOrder \/ CommsJoined \/ TaskRestarted
  BY <1>5, UnchangedKeeps DEF SendOrder, CommsJoined, TaskRestarted
<1>6. CASE Relaunch
  BY <1>6, UnchangedKeeps, DroppingKeeps DEF Relaunch, Quiet
<1>7. CASE ProcessEnds \/ TaskKilled
  BY <1>7, ClosingKeeps DEF ProcessEnds, TaskKilled
<1> QED
  BY <1>1, <1>2, <1>3, <1>4, <1>5, <1>6, <1>7 DEF ListenerStep

LEMMA NodeLeavesChannel ==
  ASSUME ChannelInv, NodeStep
  PROVE  ChannelInv' /\ PromiseStep
<1>1. UNCHANGED channelVars
  BY DEF NodeStep, Deliver, GameIsUp, GameLeaves, GameCrashes, GameStep, ScriptLooks, ScriptStarts
<1> QED
  BY <1>1, UnchangedKeeps

-----------------------------------------------------------------------------
LEMMA InitIInv == Init => IInv /\ Promise!Init
  BY ChannelStarts, ScriptAssumption
     DEF Init, IInv, ListenerTypeOK, NodeTypeOK, OrderIsRecorded, EndsWithoutLetters, States, Orders

LEMMA NextIInv == IInv /\ [Next]_vars => IInv' /\ PromiseStep
<1> SUFFICES ASSUME IInv, [Next]_vars PROVE IInv' /\ PromiseStep
  OBVIOUS
<1> USE DEF IInv, Own
<1>1. CASE ListenerStep \/ Relaunch \/ TaskKilled \/ TaskRestarted
  BY <1>1, ListenerKeepsOwn, ListenerKeepsChannel
<1>2. CASE NodeStep
  BY <1>2, NodeKeepsOwn, NodeLeavesChannel
<1>3. CASE ThreadStep /\ UNCHANGED <<listenerVars, nodeVars>>
  BY <1>3, ThreadKeeps, UnchangedOwn
<1>4. CASE ClientStep /\ UNCHANGED <<listenerVars, nodeVars>>
  BY <1>4, ClientKeeps, UnchangedOwn
<1>5. CASE UNCHANGED vars
  BY <1>5, UnchangedKeeps, UnchangedOwn DEF vars
<1> QED
  BY <1>1, <1>2, <1>3, <1>4, <1>5 DEF Next

LEMMA IInvHolds == Spec => []IInv
<1>1. Init => IInv
  BY InitIInv
<1>2. IInv /\ [Next]_vars => IInv'
  BY NextIInv
<1> QED
  BY <1>1, <1>2, PTL DEF Spec

\* Channel, listener and node keep their types over restarts (MCServerMain:34-55, 206-293).
THEOREM TypeCorrect == Spec => []TypeOK
<1>1. IInv => TypeOK
  BY DEF IInv, ChannelInv, ListenerTypeOK, NodeTypeOK, TypeOK
<1> QED
  BY <1>1, IInvHolds, PTL

\* No KILL and no DEALLOC is on its way to the game from a listener that would still call
\* itself active (MCServerMain:155-171, 241-263).
THEOREM OrdersRecorded == Spec => []OrderIsRecorded
<1>1. IInv => OrderIsRecorded
  BY DEF IInv
<1> QED
  BY <1>1, IInvHolds, PTL

\* Over stops, aborts, ends and restarts of the task, a reply goes to the client that asked
\* (MCServerMain:206-293, TCPServers:42-70).
THEOREM RequestReplyKept == Spec => ImplementsRequestReply
<1>1. Init => IInv /\ Promise!Init
  BY InitIInv
<1>2. IInv /\ [Next]_vars => IInv' /\ [Promise!Next]_<<Asker, Request, Answer>>
  BY NextIInv DEF PromiseStep, promiseVars
<1> QED
  BY <1>1, <1>2, PTL DEF Spec, ImplementsRequestReply, Promise!Spec

-----------------------------------------------------------------------------
(* Which steps of the listener can lose a reply.                           *)

LEMMA ListenerLoses ==
  ASSUME IInv, ListenerStep \/ Relaunch \/ TaskKilled \/ TaskRestarted, ~ ReplyLost, ReplyLost'
  PROVE  in_queue # <<>> /\ (NextLine = Unreadable \/ lpc' = "over")
<1> USE DEF IInv, channelVars
<1>1. CASE Boot \/ KillComms \/ SendOrder \/ CommsJoined \/ TaskRestarted
  BY <1>1, QueuesLoseNothing DEF Boot, KillComms, SendOrder, CommsJoined, TaskRestarted
<1>2. CASE SkipLine \/ Relaunch
  BY <1>2, QueuesLoseNothing DEF SkipLine, Relaunch, Quiet, LineDropped
<1>3. CASE HelloOrUnknown \/ Abort \/ Launch \/ Probe \/ PassMsg \/ StopRefused \/ StopAccepted
  BY <1>3, AnsweringLosesNothing
     DEF HelloOrUnknown, Abort, Launch, Probe, PassMsg, StopRefused, StopAccepted
<1>4. CASE StopBroken
  BY <1>4 DEF StopBroken, Hears, HasLine
<1>5. CASE ProcessEnds \/ TaskKilled
  BY <1>5, ThreadLosesNothing DEF ProcessEnds, TaskKilled
<1> QED
  BY <1>1, <1>2, <1>3, <1>4, <1>5 DEF ListenerStep

\* Over stops, aborts and restarts, a client waits in vain only for an unreadable line or a
\* stop whose argument ends the process (MCServerMain:206-293, TCPServers:61).
THEOREM NoReplyForgotten == Spec => RepliesAreKept
<1>1. ASSUME IInv, [Next]_vars, ~ ReplyLost, ReplyLost'
      PROVE  in_queue # <<>> /\ (NextLine = Unreadable \/ lpc' = "over")
  <2>1. CASE ListenerStep \/ Relaunch \/ TaskKilled \/ TaskRestarted
    BY <1>1, <2>1, ListenerLoses
  <2>2. CASE NodeStep
    <3>1. UNCHANGED channelVars
      BY <2>2 DEF NodeStep, Deliver, GameIsUp, GameLeaves, GameCrashes, GameStep, ScriptLooks,
                  ScriptStarts
    <3> QED
      BY <1>1, <3>1, QueuesLoseNothing DEF channelVars
  <2>3. CASE ThreadStep \/ ClientStep
    BY <1>1, <2>3, ThreadLosesNothing DEF IInv
  <2>4. CASE UNCHANGED vars
    BY <1>1, <2>4, QueuesLoseNothing DEF vars, channelVars
  <2> QED
    BY <1>1, <2>1, <2>2, <2>3, <2>4 DEF Next
<1>2. IInv /\ [Next]_vars =>
        [~ ReplyLost /\ ReplyLost' => in_queue # <<>> /\ (NextLine = Unreadable \/ lpc' = "over")]_vars
  BY <1>1
<1> QED
  BY <1>2, IInvHolds, PTL DEF Spec, RepliesAreKept
=============================================================================

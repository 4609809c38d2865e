------------------------------ MODULE LobbyLoop ------------------------------
(***************************************************************************)
(* The main loop of main/LoadBalancerMain.py as the lobby meets it: one    *)
(* iteration reads the clock, takes at most one line from the channel and  *)
(* answers it, and then polls the servers if the clock says so and no join *)
(* has put the poll off.  What commands and polls do to the pool is the    *)
(* subject of LoadBalancer; here it is open whether they succeed.          *)
(*                                                                         *)
(* A text is the set of the command words it contains.                     *)
(***************************************************************************)
EXTENDS LineChannel

CONSTANT MaxModifier   \* bound: joins that can put polls off at a time

ASSUME ModifierAssumption == MaxModifier \in Nat /\ MaxModifier >= 2

VARIABLES
  mpc,        \* where the main thread is: in an iteration, or "boot", "over", "dead"
  starting,   \* is the state STARTING
  due,        \* did the second read by this iteration call for a poll
  modifier    \* polls still to be skipped

loopVars == <<mpc, starting, due, modifier>>
vars == <<channelVars, loopVars>>

TypeOK ==
  /\ ChannelTypeOK
  /\ mpc \in {"boot", "clock", "command", "tick", "over", "dead"}
  /\ starting \in BOOLEAN
  /\ due \in BOOLEAN
  /\ modifier \in 0 .. MaxModifier

Init ==
  /\ ChannelInit
  /\ mpc = "boot"
  /\ starting = TRUE
  /\ due = FALSE
  /\ modifier = 0

Stopped == mpc \in {"over", "dead"}

-----------------------------------------------------------------------------
\* The lobby thread is launched once the pool is there.
LaunchLobby ==
  /\ mpc = "boot" /\ mpc' = "clock"
  /\ server' = "up"
  /\ UNCHANGED <<backlog, serving, awaiting, said, gone, in_queue, out_queue>>
  /\ UNCHANGED <<starting, due, modifier>>

GiveUp ==
  /\ mpc = "boot" /\ mpc' = "over"
  /\ UNCHANGED <<channelVars, starting, due, modifier>>

ReadClock(now) ==
  /\ mpc = "clock" /\ mpc' = "command"
  /\ due' = now
  /\ UNCHANGED <<channelVars, starting, modifier>>

-----------------------------------------------------------------------------
(* One line at most.                                                       *)

CommandOrder == <<"status", "hello", "poll_mc", "list_all", "get_server_for_team",
                  "add_one_server", "remove_one_server">>

AtCommand == mpc = "command" /\ UNCHANGED <<starting, due>>

NoCommand ==
  /\ AtCommand
  /\ \/ in_queue = <<>> /\ UNCHANGED channelVars
     \/ LineDropped
  /\ mpc' = "tick"
  /\ UNCHANGED modifier

\* "Err: Load Balancer Connecting to Servers."
Refuse ==
  /\ AtCommand /\ starting
  /\ LineAnswered
  /\ mpc' = "tick"
  /\ UNCHANGED modifier

Hears(commands) == AtCommand /\ ~ starting /\ HasLine /\ CommandIn(NextLine, CommandOrder) \in commands

\* Commands that are answered in any case, a removal that is not possible included.
Reply ==
  /\ Hears({"status", "hello", "poll_mc", "list_all", "remove_one_server", "unknown"})
  /\ LineAnswered
  /\ mpc' = "tick"
  /\ UNCHANGED modifier

\* Mutant of Join: an error in the request is caught and not answered.
JoinUnanswered ==
  /\ Hears({"get_server_for_team"})
  /\ \/ LineAnswered /\ modifier < MaxModifier /\ modifier' = modifier + 1
     \/ LineUnanswered /\ UNCHANGED modifier
  /\ mpc' = "tick"

\* Every exception of a join is caught and answered; a join that succeeds puts a poll off.
Join ==
  /\ Hears({"get_server_for_team"})
  /\ LineAnswered
  /\ \/ modifier < MaxModifier /\ modifier' = modifier + 1
     \/ UNCHANGED modifier
  /\ mpc' = "tick"

\* The resize may raise, and nothing catches it.
AddOne ==
  /\ Hears({"add_one_server"})
  /\ \/ LineAnswered /\ mpc' = "tick"
     \/ LineUnanswered /\ mpc' = "dead"
  /\ UNCHANGED modifier

Command == NoCommand \/ Refuse \/ Reply \/ Join \/ AddOne

-----------------------------------------------------------------------------
(* The tick: poll_servers and what follows it.                             *)

AtTick == mpc = "tick" /\ UNCHANGED <<channelVars, due>>

\* In STARTING the test for readiness follows every call of poll_servers, polled or not.
StaysOrStarts == starting' \in {starting, FALSE}

\* A poll may raise; a removal triggered after it puts the next two polls off.
Poll ==
  /\ AtTick /\ due /\ modifier = 0
  /\ StaysOrStarts
  /\ \/ mpc' = "dead" /\ UNCHANGED modifier
     \/ /\ mpc' = "clock"
        /\ modifier' \in IF starting THEN {0} ELSE {0, 2}

\* Mutant of SkipPoll: the modifier is not counted down.
SkipPollForever ==
  /\ AtTick /\ due /\ modifier > 0
  /\ mpc' = "clock"
  /\ UNCHANGED <<starting, modifier>>

\* Mutant of SkipPoll: it counts down without looking at where it is.
SkipPollBelowZero ==
  /\ AtTick /\ due
  /\ modifier' = modifier - 1
  /\ mpc' = "clock"
  /\ UNCHANGED starting

SkipPoll ==
  /\ AtTick /\ due /\ modifier > 0
  /\ modifier' = modifier - 1
  /\ mpc' = "clock"
  /\ UNCHANGED starting

NoTick ==
  /\ AtTick /\ ~ due
  /\ StaysOrStarts
  /\ mpc' = "clock"
  /\ UNCHANGED modifier

LoopStep ==
  LaunchLobby \/ GiveUp \/ (\E now \in BOOLEAN : ReadClock(now)) \/ Command
    \/ Poll \/ SkipPoll \/ NoTick

-----------------------------------------------------------------------------
Next ==
  \/ LoopStep
  \/ ThreadStep /\ UNCHANGED loopVars
  \/ ClientStep /\ UNCHANGED loopVars

Spec == Init /\ [][Next]_vars

\* The client that is served speaks or leaves.  The code does not see to that: its
\* readline has no timeout.
ClientIsQuick ==
  \E c \in Clients : /\ c = serving
                     /\ HangUp(c) \/ \E line \in Texts \cup {Blank} : SendLine(c, line)
                     /\ UNCHANGED loopVars

\* The main loop never blocks, its clock shows a polling second now and then, and the
\* thread of the channel goes on unless it waits.
Fairness ==
  /\ WF_vars(LoopStep)
  /\ SF_vars(ReadClock(TRUE))
  /\ WF_vars(ThreadStep /\ UNCHANGED loopVars)
  /\ WF_vars(ClientIsQuick)

FairSpec == Spec /\ Fairness

-----------------------------------------------------------------------------
\* The two queues and the one thread keep requests and replies together, although neither
\* names a client: "if more than one sender will exist, include the client_address in the
\* queue" (TCPServers:36) is not needed as long as the handler waits without a timeout.
ImplementsRequestReply == Promise!Spec

\* A line that the main loop can read is answered and its client released, whatever the
\* line says and whatever state the loop is in, unless the loop has ended
\* (LoadBalancerMain:118-217, TCPServers:52-70).
RequestsAreAnswered == HasLine ~> ~ awaiting \/ Stopped

\* A reply is lost, and with it the one thread that serves the lobby (TCPServers:61), only
\* through a line nobody can read or an exception that ends the main loop: no branch of the
\* dispatch forgets its reply, no exception of a join does (LoadBalancerMain:199), and none
\* is taken by another handler.
RepliesAreKept ==
  [][~ ReplyLost /\ ReplyLost' => in_queue # <<>> /\ (NextLine = Unreadable \/ mpc' = "dead")]_vars

\* The one thread comes round to every connection the socket holds, clients that leave
\* early or send an empty line included, as long as no reply is lost (TCPServers:42-50).
WaitersAreServed == \A c \in Clients : c \in Waiting ~> c \notin Waiting \/ ReplyLost \/ Stopped

\* Joins put polls off (LoadBalancerMain:190, 230-232); when they stop, the servers are
\* polled again and again, however many polls were put off.
PollsComeRound ==
  <>[][~ Join]_vars => []<><<Poll>>_vars \/ <>Stopped
=============================================================================

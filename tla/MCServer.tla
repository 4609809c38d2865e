------------------------------- MODULE MCServer -------------------------------
(***************************************************************************)
(* main/MCServerMain.py: the listener that runs as a task on a node.  It   *)
(* takes lines from its channel, starts the game with a script and passes  *)
(* messages on to the game, each from a thread of its own.  The game, the  *)
(* script and the task live and die beside it.                             *)
(*                                                                         *)
(* A text is a record: the command words it contains, and what a json      *)
(* argument of it holds.                                                   *)
(***************************************************************************)
EXTENDS LineChannel

CONSTANT MaxScripts   \* bound: start scripts that run at a time

ASSUME ScriptAssumption == MaxScripts \in Nat \ {0}

VARIABLES
  state,     \* the listener's state
  lpc,       \* where its main thread is
  letter,    \* the order that an accepted stop is about to send
  letters,   \* messages to the game that their threads have not delivered
  game,      \* the Minecraft server
  looking,   \* start scripts that have yet to see whether a game runs
  starting   \* start scripts that wait for the old game to go

listenerVars == <<state, lpc, letter, letters>>
nodeVars == <<game, looking, starting>>
vars == <<channelVars, listenerVars, nodeVars>>

States == {"STARTING", "ACTIVE", "REQUESTED_DEACTIVATION", "DEACTIVATED", "CRASHED"}
Orders == {"KILL", "DEALLOC"}

TypeOK ==
  /\ ChannelTypeOK
  /\ state \in States
  /\ lpc \in {"start", "idle", "send", "kill", "joining", "over", "ended"}
  /\ letter \in Orders
  /\ letters \in SUBSET (Orders \cup {"SAY"})
  /\ game \in {"down", "booting", "up", "closing", "leaving"}
  /\ looking \in 0 .. MaxScripts
  /\ starting \in 0 .. MaxScripts
  /\ looking + starting <= MaxScripts

\* A task starts on a new node, or on one where an earlier task has left a game.
Init ==
  /\ ChannelInit
  /\ state = "STARTING"
  /\ lpc = "start"
  /\ letter = "KILL"
  /\ letters = {}
  /\ game \in {"down", "up"}
  /\ looking = 0
  /\ starting = 0

-----------------------------------------------------------------------------
(* test_mc_status and the start of the game.                               *)

\* A game that closes has been told to be gone in ten minutes, and answers until then.
Answers == game \in {"up", "closing"}

\* Mutant of Tested: a game that answers makes the listener active, whatever it was.
TestedEagerly ==
  IF Answers THEN "ACTIVE"
  ELSE CASE state = "ACTIVE"                 -> "CRASHED"
         [] state = "REQUESTED_DEACTIVATION" -> "DEACTIVATED"
         [] OTHER                            -> state

\* The state after a status test.  Nothing leads back from CRASHED or DEACTIVATED, not
\* even a game that was started again.
Tested ==
  CASE state = "STARTING" /\ Answers                 -> "ACTIVE"
    [] state = "ACTIVE" /\ ~ Answers                 -> "CRASHED"
    [] state = "REQUESTED_DEACTIVATION" /\ ~ Answers -> "DEACTIVATED"
    [] OTHER                                         -> state

\* _launch_minecraft does not wait for its script, nor look for one that runs.
\* Bound: scripts beyond MaxScripts are not followed.
ScriptLaunched ==
  /\ looking' = IF looking + starting < MaxScripts THEN looking + 1 ELSE looking
  /\ UNCHANGED <<game, starting>>

Boot ==
  /\ lpc = "start" /\ lpc' = "idle"
  /\ server' = "up"
  /\ state' = Tested
  /\ IF Answers THEN UNCHANGED nodeVars ELSE ScriptLaunched
  /\ UNCHANGED <<backlog, serving, awaiting, said, gone, in_queue, out_queue, letter, letters>>

-----------------------------------------------------------------------------
(* The loop: one action per branch of the dispatch.                        *)

CommandOrder == <<"hello", "abort", "launch_mc", "mc_alive", "stop", "pass_msg", "mcstatus",
                  "request_state">>

Quiet == (in_queue = <<>> /\ UNCHANGED channelVars) \/ LineDropped

SkipLine ==
  /\ lpc = "idle"
  /\ LineDropped
  /\ UNCHANGED <<listenerVars, nodeVars>>

\* At 3 AM, when no line is there to be handled.
Relaunch ==
  /\ lpc = "idle"
  /\ Quiet
  /\ ScriptLaunched
  /\ UNCHANGED listenerVars

Hears(commands) ==
  lpc = "idle" /\ HasLine /\ CommandIn(NextLine.words, CommandOrder) \in commands

HelloOrUnknown ==
  /\ Hears({"hello", "unknown"})
  /\ LineAnswered
  /\ UNCHANGED <<listenerVars, nodeVars>>

Abort ==
  /\ Hears({"abort"})
  /\ LineAnswered
  /\ lpc' = "kill"
  /\ UNCHANGED <<state, letter, letters, nodeVars>>

\* Mutant of Launch: the reply is forgotten.
LaunchUnanswered ==
  /\ Hears({"launch_mc"})
  /\ LineUnanswered
  /\ ScriptLaunched
  /\ UNCHANGED listenerVars

Launch ==
  /\ Hears({"launch_mc"})
  /\ LineAnswered
  /\ ScriptLaunched
  /\ UNCHANGED listenerVars

\* request_state, too, tests before it tells the state.
Probe ==
  /\ Hears({"mc_alive", "mcstatus", "request_state"})
  /\ LineAnswered
  /\ state' = Tested
  /\ UNCHANGED <<lpc, letter, letters, nodeVars>>

\* check_and_send_msg
Sent(msg) ==
  /\ state' = Tested
  /\ letters' = IF Answers THEN letters \cup {msg} ELSE letters

PassMsg ==
  /\ Hears({"pass_msg"})
  /\ LineAnswered
  /\ Sent("SAY")
  /\ UNCHANGED <<lpc, letter, nodeVars>>

StopRefused ==
  /\ Hears({"stop"}) /\ ~ Answers
  /\ LineAnswered
  /\ state' = Tested
  /\ UNCHANGED <<lpc, letter, letters, nodeVars>>

\* json.loads raises, and nothing catches it.
StopBroken ==
  /\ Hears({"stop"}) /\ Answers /\ NextLine.arg = "broken"
  /\ LineUnanswered
  /\ state' = Tested
  /\ lpc' = "over"
  /\ UNCHANGED <<letter, letters, nodeVars>>

\* Without an address to move the players to, the game is killed.
StopAccepted ==
  /\ Hears({"stop"}) /\ Answers /\ NextLine.arg # "broken"
  /\ LineAnswered
  /\ state' = Tested
  /\ letter' = IF NextLine.arg = "address" THEN "DEALLOC" ELSE "KILL"
  /\ lpc' = "send"
  /\ UNCHANGED <<letters, nodeVars>>

\* Mutant of SendOrder: the state is recorded and the message is not sent.
SendOrderUnsent ==
  /\ lpc = "send" /\ lpc' = "idle"
  /\ state' = "REQUESTED_DEACTIVATION"
  /\ UNCHANGED <<letter, letters, channelVars, nodeVars>>

\* The game is tested again, and by now it may be down; its players have been told that
\* they move, and the state is set in either case.
SendOrder ==
  /\ lpc = "send" /\ lpc' = "idle"
  /\ letters' = IF Answers THEN letters \cup {letter} ELSE letters
  /\ state' = "REQUESTED_DEACTIVATION"
  /\ UNCHANGED <<letter, channelVars, nodeVars>>

-----------------------------------------------------------------------------
(* The end of the process.                                                 *)

\* shutdown() sets its request and then waits for the thread of the channel.
KillComms ==
  /\ lpc = "kill" /\ lpc' = "joining"
  /\ server' = "stopping"
  /\ UNCHANGED <<backlog, serving, awaiting, said, gone, in_queue, out_queue>>
  /\ UNCHANGED <<state, letter, letters, nodeVars>>

CommsJoined ==
  /\ lpc = "joining" /\ server = "down"
  /\ lpc' = "over"
  /\ UNCHANGED <<channelVars, state, letter, letters, nodeVars>>

\* The thread of the channel is a daemon, the threads of the letters are not.
ProcessEnds ==
  /\ lpc = "over" /\ letters = {}
  /\ lpc' = "ended"
  /\ ConnectionsClosed
  /\ UNCHANGED <<state, letter, letters, nodeVars>>

\* The task is killed from outside.
TaskKilled ==
  /\ lpc # "ended" /\ lpc' = "ended"
  /\ letters' = {}
  /\ ConnectionsClosed
  /\ UNCHANGED <<state, letter, nodeVars>>

\* The load balancer adds a task for a listener that does not answer.
TaskRestarted ==
  /\ lpc = "ended" /\ lpc' = "start"
  /\ state' = "STARTING"
  /\ UNCHANGED <<letter, letters, channelVars, nodeVars>>

ListenerStep ==
  \/ Boot \/ SkipLine \/ HelloOrUnknown \/ Abort \/ Launch \/ Probe \/ PassMsg
  \/ StopRefused \/ StopBroken \/ StopAccepted \/ SendOrder
  \/ KillComms \/ CommsJoined \/ ProcessEnds

-----------------------------------------------------------------------------
(* The node beside the listener.                                           *)

\* send_message_to_minecraft_api: the thread ends when the game has answered, or refused
\* the connection because it is not up.  KILL shuts it down at once, DEALLOC in ten minutes.
Deliver(msg) ==
  /\ msg \in letters /\ letters' = letters \ {msg}
  /\ game' = CASE Answers /\ msg = "KILL"    -> "leaving"
               [] Answers /\ msg = "DEALLOC" -> "closing"
               [] OTHER                      -> game
  /\ UNCHANGED <<state, lpc, letter, channelVars, looking, starting>>

GameStep(from, to) ==
  /\ game = from /\ game' = to
  /\ UNCHANGED <<looking, starting, listenerVars, channelVars>>

GameIsUp    == GameStep("booting", "up")
GameLeaves  == GameStep("leaving", "down") \/ GameStep("closing", "down")
GameCrashes == GameStep("booting", "down") \/ GameStep("up", "down")

\* Mutant of ScriptLooks: the script that stopped a game looks once more.
ScriptLooksAgain ==
  /\ looking > 0
  /\ IF game = "down" THEN game' = "booting" /\ UNCHANGED starting
                      ELSE game' = "leaving" /\ starting' = starting + 1
  /\ UNCHANGED <<looking, listenerVars, channelVars>>

\* A game that runs is told to stop, and the script goes on ten seconds later.
ScriptLooks ==
  /\ looking > 0 /\ looking' = looking - 1
  /\ IF game = "down" THEN game' = "booting" /\ UNCHANGED starting
                      ELSE game' = "leaving" /\ starting' = starting + 1
  /\ UNCHANGED <<listenerVars, channelVars>>

\* If the old game is still there, the new one cannot have its port and ends at once.
ScriptStarts ==
  /\ starting > 0 /\ starting' = starting - 1
  /\ game' = IF game = "down" THEN "booting" ELSE game
  /\ UNCHANGED <<looking, listenerVars, channelVars>>

NodeStep ==
  \/ \E msg \in letters : Deliver(msg)
  \/ GameIsUp \/ GameLeaves \/ GameCrashes \/ ScriptLooks \/ ScriptStarts

-----------------------------------------------------------------------------
Next ==
  \/ ListenerStep \/ Relaunch \/ TaskKilled \/ TaskRestarted
  \/ NodeStep
  \/ (ThreadStep \/ ClientStep) /\ UNCHANGED <<listenerVars, nodeVars>>

Spec == Init /\ [][Next]_vars

\* The listener and its threads go on unless they wait, and a game that was told to go
\* goes.  Nothing is assumed of clients, of the clock, of tasks and of games.
Fairness ==
  /\ WF_vars(ListenerStep)
  /\ WF_vars(ThreadStep /\ UNCHANGED <<listenerVars, nodeVars>>)
  /\ \A msg \in Orders \cup {"SAY"} : WF_vars(Deliver(msg))
  /\ WF_vars(GameLeaves)

FairSpec == Spec /\ Fairness

-----------------------------------------------------------------------------
\* The listener keeps requests and replies together, over a stop that is handled in two
\* steps, an abort, and the end and restart of its task (MCServerMain:206-293).
ImplementsRequestReply == Promise!Spec

\* A client whose line has reached the listener is released: by a reply, the one to an
\* abort included, or because the process ends and its connections with it
\* (MCServerMain:221-293).
RequestsAreAnswered == lpc = "idle" /\ HasLine ~> ~ awaiting

\* A reply is lost, and with it the one thread that serves the listener's clients
\* (TCPServers:61), only through a line nobody can read or a json argument that is none:
\* over stops and aborts, which go on after their reply, every line has one
\* (MCServerMain:221-293).
RepliesAreKept ==
  [][~ ReplyLost /\ ReplyLost' => in_queue # <<>> /\ (NextLine = Unreadable \/ lpc' = "over")]_vars

\* The thread of the channel still has a connection although the reply to the abort is out.
LateConnection == lpc = "joining" /\ serving # NoClient /\ out_queue = <<>>

\* shutdown() (MCServerMain:292) returns and the process ends after an abort, unless the
\* thread has accepted one more connection between the reply and the call: that one may
\* never send its line, and if it does nobody answers it.
AbortEnds == lpc = "kill" ~> lpc = "ended" \/ LateConnection

\* An order to shut down is on its way to the game only when the listener has recorded the
\* retirement, and no status test or relaunch makes it forget (MCServerMain:155-171, 263).
OrderIsRecorded ==
  letters \cap Orders # {} => state \in {"REQUESTED_DEACTIVATION", "DEACTIVATED"}

\* A stop that was answered with "Deallocating Server" (MCServerMain:250, 256) takes the
\* game down or finds it down, unless the task ends first.
OrderTakesEffect == lpc = "send" ~> ~ Answers \/ lpc = "ended"
=============================================================================

----------------------------- MODULE LineChannel -----------------------------
(***************************************************************************)
(* modules/comms/TCPServers.py and TCPQueueCommunicator.py: a thread that  *)
(* serves one connection after the other, reads one line from it, hands the*)
(* line to the main thread through a queue, waits for whatever appears in  *)
(* the other queue and sends that back.  LobbyLoop is the load balancer    *)
(* behind such a channel, MCServer the listener on a node.                 *)
(*                                                                         *)
(* A queue holds texts in the code.  Here an item also names the client it *)
(* came from or answers; nothing the code does depends on that name.       *)
(***************************************************************************)
EXTENDS Integers, Sequences

CONSTANTS
  Clients,      \* connections that can be open at a time
  NoClient,     \* no connection
  Texts,        \* lines that are not empty after strip()
  Unreadable,   \* the text whose bytes all drop out of the decoding
  Blank,        \* a line that is empty after strip(), or the end of the connection
  NoLine,       \* nothing has been sent yet
  Backlog       \* connections the socket holds before they are accepted (5 in socketserver)

ASSUME ChannelAssumption ==
  /\ NoClient \notin Clients
  /\ Blank \notin Texts
  /\ NoLine \notin Texts \cup {Blank}
  /\ Backlog \in Nat

VARIABLES
  server,      \* "down", "up", or "stopping" from shutdown() on
  backlog,     \* connections not yet accepted, in order
  serving,     \* the connection whose handler runs
  awaiting,    \* is the handler in process_response
  said,        \* the line each open connection has sent and no handler has read
  gone,        \* clients that have closed their end
  in_queue,    \* lines for the main thread
  out_queue    \* replies of the main thread

channelVars == <<server, backlog, serving, awaiting, said, gone, in_queue, out_queue>>

Requests == [from : Clients, line : Texts]

ChannelTypeOK ==
  /\ server \in {"down", "up", "stopping"}
  /\ backlog \in Seq(Clients)
  /\ serving \in Clients \cup {NoClient}
  /\ awaiting \in BOOLEAN
  /\ said \in [Clients -> Texts \cup {Blank, NoLine}]
  /\ gone \in SUBSET Clients
  /\ in_queue \in Seq(Requests)
  /\ out_queue \in Seq(Clients)

ChannelInit ==
  /\ server = "down"
  /\ backlog = <<>>
  /\ serving = NoClient
  /\ awaiting = FALSE
  /\ said = [c \in Clients |-> NoLine]
  /\ gone = {}
  /\ in_queue = <<>>
  /\ out_queue = <<>>

\* The process ends, and the next one begins with queues of its own.
ConnectionsClosed ==
  /\ server' = "down" /\ backlog' = <<>>
  /\ serving' = NoClient /\ awaiting' = FALSE
  /\ said' = [c \in Clients |-> NoLine] /\ gone' = {}
  /\ in_queue' = <<>> /\ out_queue' = <<>>

-----------------------------------------------------------------------------
(* The clients.                                                            *)

Waiting == {backlog[i] : i \in DOMAIN backlog}
IsOpen(c) == c = serving \/ c \in Waiting

Connect(c) ==
  /\ server # "down"
  /\ ~ IsOpen(c)
  /\ Len(backlog) < Backlog
  /\ backlog' = Append(backlog, c)
  /\ said' = [said EXCEPT ![c] = NoLine]
  /\ gone' = gone \ {c}
  /\ UNCHANGED <<server, serving, awaiting, in_queue, out_queue>>

MaySpeak(c) == IsOpen(c) /\ c \notin gone /\ ~ (c = serving /\ awaiting)

SendLine(c, line) ==
  /\ MaySpeak(c)
  /\ said[c] = NoLine
  /\ said' = [said EXCEPT ![c] = line]
  /\ UNCHANGED <<server, backlog, serving, awaiting, gone, in_queue, out_queue>>

\* A client that leaves does not take back what it has sent: send_msg_to_server gives up
\* after two seconds (Server:363), with its command still to be read.
HangUp(c) ==
  /\ IsOpen(c) /\ c \notin gone
  /\ gone' = gone \cup {c}
  /\ said' = [said EXCEPT ![c] = IF @ = NoLine THEN Blank ELSE @]
  /\ UNCHANGED <<server, backlog, serving, awaiting, in_queue, out_queue>>

ClientStep ==
  \E c \in Clients : \/ Connect(c) \/ HangUp(c)
                     \/ \E line \in Texts \cup {Blank} : SendLine(c, line)

-----------------------------------------------------------------------------
(* The thread: serve_forever and the handler it calls.                     *)

Accept ==
  /\ server = "up" /\ serving = NoClient /\ backlog # <<>>
  /\ serving' = Head(backlog) /\ backlog' = Tail(backlog)
  /\ UNCHANGED <<server, awaiting, said, gone, in_queue, out_queue>>

\* Mutant of ReadLine: an empty line does not end the handler.
ReadLineAgain ==
  /\ serving # NoClient /\ ~ awaiting
  /\ said[serving] # NoLine
  /\ IF said[serving] = Blank
     THEN UNCHANGED <<awaiting, in_queue>>
     ELSE /\ in_queue' = Append(in_queue, [from |-> serving, line |-> said[serving]])
          /\ awaiting' = TRUE
  /\ said' = [said EXCEPT ![serving] = NoLine]
  /\ UNCHANGED <<server, backlog, serving, gone, out_queue>>

\* readline blocks as long as the client neither sends a line nor leaves.
ReadLine ==
  /\ serving # NoClient /\ ~ awaiting
  /\ said[serving] # NoLine
  /\ IF said[serving] = Blank
     THEN serving' = NoClient /\ UNCHANGED <<awaiting, in_queue>>
     ELSE /\ in_queue' = Append(in_queue, [from |-> serving, line |-> said[serving]])
          /\ awaiting' = TRUE
          /\ UNCHANGED serving
  /\ said' = [said EXCEPT ![serving] = NoLine]
  /\ UNCHANGED <<server, backlog, gone, out_queue>>

\* Mutant of SendReply: the handler does not wait for ever, as in the line that is
\* commented out (TCPServers:60).
SendReplyInTime ==
  /\ awaiting
  /\ out_queue' = IF out_queue = <<>> THEN <<>> ELSE Tail(out_queue)
  /\ awaiting' = FALSE /\ serving' = NoClient
  /\ UNCHANGED <<server, backlog, said, gone, in_queue>>

\* process_response sends the next reply there is, whoever it is for.  A client that has
\* left makes sendall raise, which ends the handler just the same.
SendReply ==
  /\ awaiting /\ out_queue # <<>>
  /\ out_queue' = Tail(out_queue)
  /\ awaiting' = FALSE /\ serving' = NoClient
  /\ UNCHANGED <<server, backlog, said, gone, in_queue>>

\* Mutant of StopServing: connections that wait are not abandoned.
StopServingLast ==
  /\ server = "stopping" /\ serving = NoClient /\ backlog = <<>>
  /\ server' = "down"
  /\ UNCHANGED <<backlog, serving, awaiting, said, gone, in_queue, out_queue>>

\* serve_forever looks at the request to shut down only between two connections.
StopServing ==
  /\ server = "stopping" /\ serving = NoClient
  /\ server' = "down" /\ backlog' = <<>>
  /\ UNCHANGED <<serving, awaiting, said, gone, in_queue, out_queue>>

ThreadStep == Accept \/ ReadLine \/ SendReply \/ StopServing

-----------------------------------------------------------------------------
(* What the main thread does with the queues.                              *)

NextLine == Head(in_queue).line
HasLine == in_queue # <<>> /\ NextLine # Unreadable

\* A text that decodes to nothing looks like an empty queue to the main thread: it has
\* been taken, and nobody answers it.
LineDropped ==
  /\ in_queue # <<>> /\ NextLine = Unreadable
  /\ in_queue' = Tail(in_queue)
  /\ UNCHANGED <<server, backlog, serving, awaiting, said, gone, out_queue>>

\* The line is taken and its reply put.
LineAnswered ==
  /\ HasLine
  /\ in_queue' = Tail(in_queue)
  /\ out_queue' = Append(out_queue, Head(in_queue).from)
  /\ UNCHANGED <<server, backlog, serving, awaiting, said, gone>>

\* The line is taken and an exception ends the main thread.
LineUnanswered ==
  /\ HasLine
  /\ in_queue' = Tail(in_queue)
  /\ UNCHANGED <<server, backlog, serving, awaiting, said, gone, out_queue>>

\* Both main threads look for the words of their commands in the line, one after the other
\* and anywhere in it: the first of order that is among the words of the line counts.
CommandIn(words, order) ==
  LET spoken == {i \in DOMAIN order : order[i] \in words}
  IN  IF spoken = {} THEN "unknown"
      ELSE order[CHOOSE i \in spoken : \A j \in spoken : i <= j]

\* A line was taken and no reply will come: its handler waits, and nothing is on its way.
ReplyLost == awaiting /\ in_queue = <<>> /\ out_queue = <<>>

Asker   == IF awaiting THEN serving ELSE NoClient
Request == IF in_queue = <<>> THEN NoClient ELSE Head(in_queue).from
Answer  == IF out_queue = <<>> THEN NoClient ELSE Head(out_queue)

Promise == INSTANCE RequestReply WITH asker <- Asker, request <- Request, answer <- Answer
=============================================================================

---------------------------- MODULE RequestReply ----------------------------
(***************************************************************************)
(* What a program behind a TCPQueueCommunicator promises its clients: one  *)
(* request is in the program at a time, it is worked on once, and its reply*)
(* goes to the client that asked.  The program may lose a request, and then*)
(* its client waits.                                                       *)
(***************************************************************************)
CONSTANTS Clients, NoClient

VARIABLES
  asker,     \* the client that waits for a reply, or NoClient
  request,   \* the client whose request the program has
  answer     \* the client whose request was answered, until the reply is delivered

Free == asker = NoClient /\ request = NoClient /\ answer = NoClient

Init == Free

Ask ==
  /\ Free
  /\ \E c \in Clients : asker' = c /\ request' = c
  /\ UNCHANGED answer

Answer ==
  /\ request # NoClient /\ answer = NoClient
  /\ answer' = request /\ request' = NoClient
  /\ UNCHANGED asker

Deliver ==
  /\ answer # NoClient /\ answer = asker
  /\ asker' = NoClient /\ answer' = NoClient
  /\ UNCHANGED request

Lose == request' = NoClient /\ UNCHANGED <<asker, answer>>

\* The process ends, and its connections with it.
Reset == asker' = NoClient /\ request' = NoClient /\ answer' = NoClient

Next == Ask \/ Answer \/ Deliver \/ Lose \/ Reset

Spec == Init /\ [][Next]_<<asker, request, answer>>
=============================================================================

-------------------------- MODULE LineChannel_proof --------------------------
(***************************************************************************)
(* What every step on a channel keeps and which step of RequestReply it is.*)
(* LobbyLoop_proof and MCServer_proof put these lemmas together.           *)
(***************************************************************************)
EXTENDS LineChannel, TLAPS

\* At most one request is between the thread and the main loop, as a line or as its
\* reply, and it is that of the connection whose handler waits.
OneRequest ==
  /\ ~ awaiting => in_queue = <<>> /\ out_queue = <<>>
  /\ awaiting => serving # NoClient /\ (in_queue = <<>> \/ out_queue = <<>>)
  /\ in_queue # <<>> => \E l \in Texts : in_queue = <<[from |-> serving, line |-> l]>>
  /\ out_queue # <<>> => out_queue = <<serving>>

ChannelInv == ChannelTypeOK /\ OneRequest

promiseVars == <<Asker, Request, Answer>>

PromiseStep == [Promise!Next]_promiseVars

\* A new channel has no request.
LEMMA ChannelStarts ==
  ASSUME ChannelInit
  PROVE  ChannelInv /\ Promise!Init
<1>1. ChannelTypeOK
  <2>1. backlog \in Seq(Clients) /\ in_queue \in Seq(Requests) /\ out_queue \in Seq(Clients)
    BY DEF ChannelInit
  <2>2. said \in [Clients -> Texts \cup {Blank, NoLine}]
    BY DEF ChannelInit
  <2> QED
    BY <2>1, <2>2 DEF ChannelInit, ChannelTypeOK
<1>2. OneRequest
  BY DEF ChannelInit, OneRequest
<1>3. Promise!Init
  BY DEF ChannelInit, Promise!Init, Promise!Free, Asker, Request, Answer
<1> QED
  BY <1>1, <1>2, <1>3 DEF ChannelInv

\* A step that leaves the handler and the queues alone is none of RequestReply.
LEMMA OthersStutter ==
  ASSUME UNCHANGED <<serving, awaiting, in_queue, out_queue>>
  PROVE  /\ PromiseStep
         /\ OneRequest => OneRequest'
  BY DEF PromiseStep, promiseVars, OneRequest, Asker, Request, Answer

LEMMA UnchangedKeeps ==
  ASSUME ChannelInv, UNCHANGED channelVars
  PROVE  ChannelInv' /\ PromiseStep
  BY OthersStutter DEF ChannelInv, ChannelTypeOK, channelVars

LEMMA ServerMoves ==
  ASSUME ChannelInv, server' \in {"down", "up", "stopping"},
         UNCHANGED <<backlog, serving, awaiting, said, gone, in_queue, out_queue>>
  PROVE  ChannelInv' /\ PromiseStep
  BY OthersStutter DEF ChannelInv, ChannelTypeOK

LEMMA ClientKeeps ==
  ASSUME ChannelInv, ClientStep
  PROVE  ChannelInv' /\ PromiseStep
<1>1. UNCHANGED <<serving, awaiting, in_queue, out_queue>>
  BY DEF ClientStep, Connect, HangUp, SendLine
<1>2. ASSUME NEW c \in Clients, Connect(c) PROVE ChannelTypeOK'
  BY <1>2 DEF Connect, ChannelInv, ChannelTypeOK
<1>3. ASSUME NEW c \in Clients, HangUp(c) PROVE ChannelTypeOK'
  BY <1>3 DEF HangUp, ChannelInv, ChannelTypeOK
<1>4. ASSUME NEW c \in Clients, NEW line \in Texts \cup {Blank}, SendLine(c, line)
      PROVE  ChannelTypeOK'
  BY <1>4 DEF SendLine, ChannelInv, ChannelTypeOK
<1> QED
  BY <1>1, <1>2, <1>3, <1>4, OthersStutter DEF ChannelInv, ClientStep

LEMMA AcceptKeeps ==
  ASSUME ChannelInv, Accept
  PROVE  ChannelInv' /\ PromiseStep
<1>1. ~ awaiting
  BY DEF ChannelInv, OneRequest, Accept
<1>2. ChannelTypeOK'
  BY DEF Accept, ChannelInv, ChannelTypeOK
<1> QED
  BY <1>1, <1>2 DEF Accept, ChannelInv, OneRequest, PromiseStep, promiseVars, Asker, Request, Answer

LEMMA ReadLineKeeps ==
  ASSUME ChannelInv, ReadLine
  PROVE  ChannelInv' /\ PromiseStep
<1>1. in_queue = <<>> /\ out_queue = <<>> /\ serving \in Clients /\ serving # NoClient
  BY DEF ChannelInv, ChannelTypeOK, OneRequest, ReadLine
<1>2. CASE said[serving] = Blank
  BY <1>1, <1>2, ChannelAssumption
     DEF ReadLine, ChannelInv, ChannelTypeOK, OneRequest, PromiseStep, promiseVars, Asker, Request, Answer
<1>3. CASE said[serving] # Blank
  <2> DEFINE r == [from |-> serving, line |-> said[serving]]
  <2>1. said[serving] \in Texts /\ r \in Requests
    BY <1>1, <1>3, ChannelAssumption DEF ReadLine, ChannelInv, ChannelTypeOK, Requests
  <2>2. in_queue' = <<r>> /\ out_queue' = <<>> /\ awaiting' /\ serving' = serving
    BY <1>1, <1>3 DEF ReadLine
  <2>3. ChannelTypeOK'
    BY <1>1, <1>3, <2>1, <2>2, ChannelAssumption DEF ReadLine, ChannelInv, ChannelTypeOK
  <2>4. OneRequest'
    BY <1>1, <2>1, <2>2 DEF OneRequest
  <2>5. /\ Asker = NoClient /\ Request = NoClient /\ Answer = NoClient
        /\ Asker' = serving /\ Request' = serving /\ Answer' = NoClient
    BY <1>1, <2>2 DEF ReadLine, Asker, Request, Answer
  <2>6. Promise!Ask
    BY <1>1, <2>5 DEF Promise!Ask, Promise!Free
  <2> QED
    BY <2>3, <2>4, <2>6 DEF ChannelInv, PromiseStep, Promise!Next
<1> QED
  BY <1>2, <1>3

\* The reply that a handler finds is the one to its own client, because it never left
\* one behind.
LEMMA SendReplyKeeps ==
  ASSUME ChannelInv, SendReply
  PROVE  ChannelInv' /\ PromiseStep
<1>1. in_queue = <<>> /\ out_queue = <<serving>> /\ serving # NoClient
  BY DEF ChannelInv, OneRequest, SendReply
<1>2. /\ in_queue' = <<>> /\ out_queue' = <<>> /\ ~ awaiting' /\ serving' = NoClient
  BY <1>1 DEF SendReply
<1>3. ChannelTypeOK'
  <2>1. in_queue' \in Seq(Requests) /\ out_queue' \in Seq(Clients)
    BY <1>2
  <2> QED
    BY <1>2, <2>1 DEF SendReply, ChannelInv, ChannelTypeOK
<1>4. /\ Asker = serving /\ Request = NoClient /\ Answer = serving
      /\ Asker' = NoClient /\ Request' = NoClient /\ Answer' = NoClient
  BY <1>1, <1>2 DEF SendReply, Asker, Request, Answer
<1>5. Promise!Deliver
  BY <1>1, <1>4 DEF Promise!Deliver
<1> QED
  BY <1>2, <1>3, <1>5 DEF ChannelInv, OneRequest, PromiseStep, Promise!Next

LEMMA StopServingKeeps ==
  ASSUME ChannelInv, StopServing
  PROVE  ChannelInv' /\ PromiseStep
<1>1. UNCHANGED <<serving, awaiting, in_queue, out_queue>> /\ ChannelTypeOK'
  BY DEF StopServing, ChannelInv, ChannelTypeOK
<1> QED
  BY <1>1, OthersStutter DEF ChannelInv

LEMMA ThreadKeeps ==
  ASSUME ChannelInv, ThreadStep
  PROVE  ChannelInv' /\ PromiseStep
  BY AcceptKeeps, ReadLineKeeps, SendReplyKeeps, StopServingKeeps DEF ThreadStep

\* What the main loop may find in its queue.
LEMMA LineIsAsked ==
  ASSUME ChannelInv, in_queue # <<>>
  PROVE  /\ awaiting /\ serving \in Clients /\ out_queue = <<>>
         /\ Tail(in_queue) = <<>> /\ Head(in_queue).from = serving
<1>1. PICK l \in Texts : in_queue = <<[from |-> serving, line |-> l]>>
  BY DEF ChannelInv, OneRequest
<1>2. Tail(in_queue) = <<>> /\ Head(in_queue).from = serving
  BY <1>1
<1> QED
  BY <1>2 DEF ChannelInv, ChannelTypeOK, OneRequest

\* A line that is taken without a reply is lost.
LEMMA LosingKeeps ==
  ASSUME ChannelInv, in_queue # <<>>, in_queue' = Tail(in_queue),
         UNCHANGED <<server, backlog, serving, awaiting, said, gone, out_queue>>
  PROVE  ChannelInv' /\ PromiseStep
<1>1. in_queue' = <<>> /\ awaiting /\ out_queue = <<>> /\ serving \in Clients
  BY LineIsAsked
<1>2. ChannelTypeOK'
  BY <1>1 DEF ChannelInv, ChannelTypeOK
<1>3. Promise!Lose
  BY <1>1 DEF Promise!Lose, Asker, Request, Answer
<1> QED
  BY <1>1, <1>2, <1>3 DEF ChannelInv, OneRequest, PromiseStep, Promise!Next

LEMMA DroppingKeeps ==
  ASSUME ChannelInv, LineDropped \/ LineUnanswered
  PROVE  ChannelInv' /\ PromiseStep
  BY LosingKeeps DEF LineDropped, LineUnanswered, HasLine

LEMMA AnsweringKeeps ==
  ASSUME ChannelInv, LineAnswered
  PROVE  ChannelInv' /\ PromiseStep
<1>1. /\ in_queue # <<>> /\ awaiting /\ serving \in Clients /\ out_queue = <<>>
      /\ Tail(in_queue) = <<>> /\ Head(in_queue).from = serving
  BY LineIsAsked DEF LineAnswered, HasLine
<1>2. in_queue' = <<>> /\ out_queue' = <<serving>> /\ awaiting' /\ serving' = serving
  BY <1>1 DEF LineAnswered
<1>3. ChannelTypeOK'
  BY <1>1, <1>2 DEF LineAnswered, ChannelInv, ChannelTypeOK
<1>4. /\ Asker = serving /\ Request = serving /\ Answer = NoClient
      /\ Asker' = serving /\ Request' = NoClient /\ Answer' = serving
  BY <1>1, <1>2 DEF Asker, Request, Answer
<1>5. serving # NoClient
  BY <1>1, ChannelAssumption
<1>6. Promise!Answer
  BY <1>4, <1>5 DEF Promise!Answer
<1> QED
  BY <1>1, <1>2, <1>3, <1>5, <1>6 DEF ChannelInv, OneRequest, PromiseStep, Promise!Next

LEMMA ClosingKeeps ==
  ASSUME ChannelInv, ConnectionsClosed
  PROVE  ChannelInv' /\ PromiseStep
<1>1. ChannelTypeOK'
  <2>1. backlog' \in Seq(Clients) /\ in_queue' \in Seq(Requests) /\ out_queue' \in Seq(Clients)
    BY DEF ConnectionsClosed
  <2>2. said' \in [Clients -> Texts \cup {Blank, NoLine}]
    BY DEF ConnectionsClosed
  <2> QED
    BY <2>1, <2>2 DEF ConnectionsClosed, ChannelTypeOK
<1>3. OneRequest'
  BY DEF ConnectionsClosed, OneRequest
<1>2. Promise!Reset
  BY DEF ConnectionsClosed, Promise!Reset, Asker, Request, Answer
<1> QED
  BY <1>1, <1>2, <1>3 DEF ChannelInv, PromiseStep, Promise!Next

-----------------------------------------------------------------------------
(* Which steps can lose a reply.                                           *)

LEMMA QueuesLoseNothing ==
  ASSUME UNCHANGED <<awaiting, in_queue, out_queue>>
  PROVE  ReplyLost' => ReplyLost
  BY DEF ReplyLost

\* The thread takes a reply only to hand it over, and leaves a line where it puts it.
LEMMA ThreadLosesNothing ==
  ASSUME ChannelInv, ThreadStep \/ ClientStep \/ ConnectionsClosed
  PROVE  ReplyLost' => ReplyLost
<1> USE DEF ReplyLost
<1>1. CASE Accept \/ StopServing
  BY <1>1 DEF Accept, StopServing
<1>2. CASE ReadLine
  <2>1. ~ awaiting /\ in_queue = <<>>
    BY <1>2 DEF ReadLine, ChannelInv, OneRequest
  <2>2. CASE said[serving] = Blank
    BY <1>2, <2>1, <2>2 DEF ReadLine
  <2>3. CASE said[serving] # Blank
    <3> DEFINE r == [from |-> serving, line |-> said[serving]]
    <3>1. in_queue' = <<r>>
      BY <1>2, <2>1, <2>3 DEF ReadLine
    <3> HIDE DEF r
    <3> QED
      BY <3>1
  <2> QED
    BY <2>2, <2>3
<1>3. CASE SendReply \/ ConnectionsClosed
  BY <1>3 DEF SendReply, ConnectionsClosed
<1>4. CASE ClientStep
  BY <1>4 DEF ClientStep, Connect, HangUp, SendLine
<1> QED
  BY <1>1, <1>2, <1>3, <1>4 DEF ThreadStep

LEMMA AnsweringLosesNothing ==
  ASSUME ChannelInv, LineAnswered
  PROVE  ~ ReplyLost'
<1>1. out_queue = <<>>
  BY LineIsAsked DEF LineAnswered, HasLine
<1> QED
  BY <1>1 DEF LineAnswered, ReplyLost
=============================================================================

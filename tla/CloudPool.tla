------------------------------ MODULE CloudPool ------------------------------
(***************************************************************************)
(* The world the load balancer acts on and which is not in src/: the Azure *)
(* Batch pool, the game nodes and the players.  It is modelled from how    *)
(* modules/BatchPool.py, PoolManager.py and Server.py use it.              *)
(*                                                                         *)
(* Azure accepts a resize or a node removal only while the allocation      *)
(* state is steady, and then works on it in its own time.  A node is named *)
(* by its address: the frontend port of a node that has left can be given  *)
(* to a later one.                                                         *)
(***************************************************************************)
EXTENDS ServerObject   \* for Players

CONSTANTS
  Nodes,     \* addresses the pool can hand out
  None,      \* no node
  Kill,      \* the order to shut down at once
  Faults,    \* what may go wrong in this instance, a subset of AllFaults
  PlayingAtStart   \* players that may be online when the load balancer starts

AllFaults == {"start_failed",   \* the start task of a node fails
              "node_lost",      \* a node becomes unusable
              "slow_answer",    \* status() of a game that is up times out
              "order_lost",     \* the thread that sends an order fails
              "late_order",     \* an order that is being sent outlives the node it was for
              "batch_error",    \* reading the pool raises
              "remove_error",   \* a removal is refused although the pool is steady
              "call_raises",    \* a call of the service or of the teams API raises
              "api_exception"}  \* the API check raises something else than a refusal

ASSUME CloudAssumption ==
  /\ IsFiniteSet(Nodes)
  /\ None \notin Nodes
  /\ Kill \notin Nodes
  /\ Kill # None
  /\ Faults \subseteq AllFaults
  /\ PlayingAtStart \subseteq Players

VARIABLES
  alloc,   \* allocation state of the pool
  want,    \* target_dedicated_nodes
  node,    \* state of each compute node
  mc,      \* does the Minecraft server of the node answer
  plays,   \* the node each player is connected to, or None
  goes,    \* the node the lobby was told to send the player to, or None
  order    \* the DEALLOCATE message on its way to a node: Kill, the node to move to, or None

cloudVars == <<alloc, want, node, mc, plays, goes, order>>

\* "running" stands for running and idle; "removing" is a node whose removal was
\* accepted while it is still listed as running.
NodeStates == {"absent", "starting", "start_failed", "running", "removing", "leaving", "unusable"}

CloudTypeOK ==
  /\ alloc \in {"steady", "resizing"}
  /\ want \in Nat
  /\ node \in [Nodes -> NodeStates]
  /\ mc \in [Nodes -> BOOLEAN]
  /\ plays \in [Players -> Nodes \cup {None}]
  /\ goes \in [Players -> Nodes \cup {None}]
  /\ order \in [Nodes -> Nodes \cup {None, Kill}]

In(states) == {n \in Nodes : node[n] \in states}
Present == In({"starting", "start_failed", "running", "unusable"})
Online(n) == {p \in Players : plays[p] = n}

\* Games that may answer too late for status().
Slow == IF "slow_answer" \in Faults THEN {n \in Nodes : mc[n]} ELSE {}

-----------------------------------------------------------------------------
(* Requests of the load balancer, as the service takes them.               *)

ResizeAccepted(size) ==
  /\ alloc = "steady"
  /\ alloc' = "resizing"
  /\ want' = size

RemovalAccepted(n) ==
  /\ alloc = "steady"
  /\ n \in Present
  /\ alloc' = "resizing"
  /\ want' = want - 1
  /\ \E st \in {"removing", "leaving"} : node' = [node EXCEPT ![n] = st]

RemovalRefused(n) ==
  \/ alloc # "steady"
  \/ n \notin Present
  \/ "remove_error" \in Faults

-----------------------------------------------------------------------------
(* What Azure does.                                                        *)

Becomes(n, from, to) == node[n] \in from /\ node' = [node EXCEPT ![n] = to]

AllocateNode(n) ==
  /\ alloc = "resizing"
  /\ Cardinality(Present) < want
  /\ Becomes(n, {"absent"}, "starting")
  /\ UNCHANGED <<alloc, want, mc, plays, goes, order>>

\* A target below the number of nodes lets the service choose what to give up.
GiveUpNode(n) ==
  /\ alloc = "resizing"
  /\ Cardinality(Present) > want
  /\ Becomes(n, {"starting", "start_failed", "running", "unusable"}, "leaving")
  /\ UNCHANGED <<alloc, want, mc, plays, goes, order>>

NodeStarts(n) ==
  /\ Becomes(n, {"starting"}, "running")
  /\ UNCHANGED <<alloc, want, mc, plays, goes, order>>

NodeStartFails(n) ==
  /\ "start_failed" \in Faults
  /\ Becomes(n, {"starting"}, "start_failed")
  /\ UNCHANGED <<alloc, want, mc, plays, goes, order>>

Disconnected(n) == plays' = [p \in Players |-> IF plays[p] = n THEN None ELSE plays[p]]

\* An order under way goes down with its node, unless the thread that sends it is still
\* in connect, which has no timeout: then it may reach the next node of that address.
OrderDropped(n) ==
  \/ order' = [order EXCEPT ![n] = None]
  \/ "late_order" \in Faults /\ UNCHANGED order

NodeLost(n) ==
  /\ "node_lost" \in Faults
  /\ Becomes(n, {"running"}, "unusable")
  /\ mc' = [mc EXCEPT ![n] = FALSE]
  /\ OrderDropped(n)
  /\ Disconnected(n)
  /\ UNCHANGED <<alloc, want, goes>>

NodeLeaves(n) ==
  /\ Becomes(n, {"removing", "leaving"}, "absent")
  /\ mc' = [mc EXCEPT ![n] = FALSE]
  /\ OrderDropped(n)
  /\ Disconnected(n)
  /\ UNCHANGED <<alloc, want, goes>>

\* The pool is steady again once nothing leaves and the target is met or out of reach.
ResizeEnds ==
  /\ alloc = "resizing"
  /\ In({"removing", "leaving"}) = {}
  /\ Cardinality(Present) = want \/ (Cardinality(Present) < want /\ In({"absent"}) = {})
  /\ alloc' = "steady"
  /\ UNCHANGED <<want, node, mc, plays, goes, order>>

-----------------------------------------------------------------------------
(* What the nodes and the players do.                                      *)

GameStarts(n) ==
  /\ node[n] = "running" /\ ~ mc[n]
  /\ mc' = [mc EXCEPT ![n] = TRUE]
  /\ UNCHANGED <<alloc, want, node, plays, goes, order>>

GameStops(n) ==
  /\ mc[n]
  /\ mc' = [mc EXCEPT ![n] = FALSE]
  /\ Disconnected(n)
  /\ UNCHANGED <<alloc, want, node, goes, order>>

Connect(p) ==
  /\ goes[p] # None
  /\ plays' = [plays EXCEPT ![p] = IF mc[goes[p]] THEN goes[p] ELSE @]
  /\ goes' = [goes EXCEPT ![p] = None]
  /\ UNCHANGED <<alloc, want, node, mc, order>>

Leave(p) ==
  /\ plays[p] # None
  /\ plays' = [plays EXCEPT ![p] = None]
  /\ UNCHANGED <<alloc, want, node, mc, goes, order>>

\* MCServerMain passes the order to Minecraft: KILL stops it, DEALLOC moves its
\* players to the other server and then stops it.  A server that is down ignores it.
ObeyOrder(n) ==
  /\ order[n] # None
  /\ order' = [order EXCEPT ![n] = None]
  /\ IF mc[n]
     THEN /\ mc' = [mc EXCEPT ![n] = FALSE]
          /\ LET there == IF order[n] = Kill THEN None
                          ELSE IF mc[order[n]] THEN order[n] ELSE None
             IN  plays' = [p \in Players |-> IF plays[p] = n THEN there ELSE plays[p]]
     ELSE UNCHANGED <<mc, plays>>
  /\ UNCHANGED <<alloc, want, node, goes>>

LoseOrder(n) ==
  /\ "order_lost" \in Faults
  /\ order[n] # None
  /\ order' = [order EXCEPT ![n] = None]
  /\ UNCHANGED <<alloc, want, node, mc, plays, goes>>

CloudStep ==
  \/ ResizeEnds
  \/ \E n \in Nodes : \/ AllocateNode(n) \/ GiveUpNode(n) \/ NodeStarts(n)
                      \/ NodeStartFails(n) \/ NodeLost(n) \/ NodeLeaves(n)
                      \/ GameStarts(n) \/ GameStops(n) \/ ObeyOrder(n) \/ LoseOrder(n)
  \/ \E p \in Players : Connect(p) \/ Leave(p)

\* A load balancer starts next to a pool that runs, with players on it, or next to
\* one that has just been created (BatchPool.check_or_create_pool).
CloudInit(size) ==
  /\ goes = [p \in Players |-> None]
  /\ order = [n \in Nodes |-> None]
  /\ \/ /\ alloc = "resizing"
        /\ want = size
        /\ node = [n \in Nodes |-> "absent"]
        /\ mc = [n \in Nodes |-> FALSE]
        /\ plays = [p \in Players |-> None]
     \/ /\ alloc = "steady"
        /\ node \in [Nodes -> {"absent", "running"}]
        /\ want = Cardinality(In({"running"}))
        /\ mc \in [Nodes -> BOOLEAN]
        /\ \A n \in Nodes : mc[n] => node[n] = "running"
        /\ plays \in [Players -> Nodes \cup {None}]
        /\ \A p \in Players : plays[p] # None => p \in PlayingAtStart /\ mc[plays[p]]
=============================================================================

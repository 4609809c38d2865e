----------------------------- MODULE PoolChange -----------------------------
(***************************************************************************)
(* What the load balancer promises about the servers it lists: the pool    *)
(* changes one step at a time.  While it grows nothing is retired; the     *)
(* server chosen for retirement stays the chosen one, and it is the only   *)
(* one that leaves the list; the list is read again only after a change.   *)
(***************************************************************************)
CONSTANTS Nodes, None

VARIABLES
  phase,     \* what the balancer is doing
  victim,    \* the server that is being retired, or None
  members    \* the servers listed

changeVars == <<phase, victim, members>>

Phases == {"starting", "idle", "growing", "retiring", "removing"}

ChangeTypeOK ==
  /\ phase \in Phases
  /\ victim \in Nodes \cup {None}
  /\ members \in SUBSET Nodes

Init == phase = "starting" /\ victim = None /\ members = {}

Move(from, to) == phase = from /\ phase' = to

ListRead == members' \in SUBSET Nodes

Discover == Move("starting", "starting") /\ members = {} /\ ListRead /\ UNCHANGED victim

Open == Move("starting", "idle") /\ UNCHANGED <<victim, members>>

Grow == Move("idle", "growing") /\ UNCHANGED <<victim, members>>

\* The list is read when the resize is over and again when the new server is up.
Grown ==
  /\ Move("growing", "growing") \/ Move("growing", "idle")
  /\ ListRead
  /\ UNCHANGED victim

Retire ==
  /\ Move("idle", "retiring")
  /\ victim' \in members
  /\ UNCHANGED members

Remove ==
  /\ Move("retiring", "removing")
  /\ members' = members \ {victim}
  /\ victim' = None

\* A crashed server needs no retirement.
Expel ==
  /\ Move("idle", "idle") \/ Move("idle", "removing")
  /\ ListRead
  /\ UNCHANGED victim

Removed == Move("removing", "idle") /\ ListRead /\ UNCHANGED victim

Next == Discover \/ Open \/ Grow \/ Grown \/ Retire \/ Remove \/ Expel \/ Removed

Spec == Init /\ [][Next]_changeVars
=============================================================================

---------------------------- MODULE ServerPolling ----------------------------
(***************************************************************************)
(* One Server object driven by every sequence of polls, joins, retirements *)
(* and replies, with the failure thresholds of the code.  The composition  *)
(* LoadBalancer uses the same operators with fewer replies; here every     *)
(* outcome of a remote call is possible at every poll.                     *)
(***************************************************************************)
EXTENDS ServerObject

CONSTANT MaxCount   \* bound: joins accepted by the object between two polls

VARIABLES
  srv,       \* the object
  silence,   \* history: counted failures of status() since the last answer
  probed     \* history: decommission found the server dead

vars == <<srv, silence, probed>>

TypeOK ==
  /\ srv \in ServerRecords
  /\ silence \in 0 .. FailureCap
  /\ probed \in BOOLEAN

Init ==
  /\ srv = NewServer
  /\ silence = 0
  /\ probed = FALSE

\* The states in which poll() calls status(): not while the request is being processed
\* and not once the server is deactivated.
CallsStatus(s) == s.state \notin {"REQUESTED_DEACTIVATION", "DEACTIVATED"}

Heard(mc) ==
  CASE mc = "answer"   -> 0
    [] mc = "keyerror" -> silence
    [] OTHER           -> IF silence < FailureCap THEN silence + 1 ELSE silence

Poll(r) ==
  /\ ~ PollRaises(srv, r)
  /\ srv' = Polled(srv, r)
  /\ silence' = IF CallsStatus(srv) THEN Heard(r.mc) ELSE silence
  /\ probed' = (probed /\ srv'.state = "CRASHED")

AddPlayer(p, t) ==
  /\ srv.playercount < MaxCount
  /\ srv' = PlayerAdded(srv, p, t)
  /\ UNCHANGED <<silence, probed>>

\* PoolManager.signal_remove_server calls it on a STABLE server only.
Decommission(hasTarget, mc) ==
  /\ srv.state = "STABLE"
  /\ hasTarget \/ srv.playercount = 0
  /\ srv' = Decommissioned(srv, hasTarget, mc)
  /\ silence' = Heard(mc)
  /\ probed' = (mc # "answer")

\* Another server's decommission names this one as its target; LoadBalancer shows that
\* the target is STABLE whenever that happens.
BecomeMergeTarget ==
  /\ srv.state = "STABLE"
  /\ srv' = [srv EXCEPT !.state = "WAITING_FOR_MERGE"]
  /\ UNCHANGED <<silence, probed>>

Next ==
  \/ \E r \in Replies : Poll(r)
  \/ \E p \in Players, t \in Teams : AddPlayer(p, t)
  \/ \E hasTarget \in BOOLEAN, mc \in McReplies : Decommission(hasTarget, mc)
  \/ BecomeMergeTarget

Spec == Init /\ [][Next]_vars

-----------------------------------------------------------------------------
Phase ==
  CASE srv.state = "INITIALIZING" -> "booting"
    [] srv.state \in {"STABLE", "WAITING_FOR_MERGE", "STABLE_BUT_TASK_FAILED"} -> "serving"
    [] srv.state \in {"REQUESTED_DEACTIVATION", "CONFIRMING_DEACTIVATION"} -> "draining"
    [] srv.state = "DEACTIVATED" -> "drained"
    [] srv.state = "CRASHED" -> "down"

Lifecycle == INSTANCE ServerLifecycle WITH phase <- Phase

\* Every sequence of method calls and replies takes the object through the phases of
\* ServerLifecycle: poll() (Server.py:119) never takes a server back out of retirement,
\* not even when the node crashes, and a DEACTIVATED server stays DEACTIVATED.
ImplementsLifecycle == Lifecycle!Spec

\* A server is declared CRASHED (Server.py:126, 182, 238) only after maxFailsBeforeDown
\* counted failures in a row, or when decommission found it dead.  An exception of the
\* API check after a good status call also leaves one failure in the counter, so it is
\* maxFailsBeforeDown failures and not one more.
CrashedOnlyAfterSilence ==
  srv.state = "CRASHED" => silence >= MaxFails \/ probed

\* A server that players may be sent to or that players are on has not been silent for
\* more than maxFailsBeforeDown counted failures: the threshold is never skipped by a
\* KeyError, an API failure, a merge or a restarted task in between.
SilenceIsNoticed ==
  Phase = "serving" => silence <= MaxFails
=============================================================================

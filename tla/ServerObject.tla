---------------------------- MODULE ServerObject ----------------------------
(***************************************************************************)
(* The class Server of modules/Server.py as operators on records: what one *)
(* load-balancer-side Server object holds and what each of its methods     *)
(* makes of it.  There are no variables here: ServerPolling runs a single  *)
(* object against every reply a node can give, LoadBalancer runs one       *)
(* object per node of the pool.                                            *)
(*                                                                         *)
(* A remote call is modelled by its outcome.  What the constructor         *)
(* `MinecraftServer(ip, port)`, `status()` and the API socket do is not in *)
(* src/, only the results the code tells apart are kept.                   *)
(***************************************************************************)
EXTENDS Integers, FiniteSets

CONSTANTS
  Players,      \* player UUIDs
  Teams,        \* team ids known to the lobby
  NoTeam,       \* the id -1 of a player the teams API does not list
  MasterTeam,   \* master_player_team_map: the team the teams API gives a player
  MaxFails,     \* maxFailsBeforeDown (13 in the code)
  MaxTeams      \* maxTeamsPerServer of azurebatch.cfg

ASSUME ServerAssumption ==
  /\ IsFiniteSet(Players)
  /\ NoTeam \notin Teams
  /\ MasterTeam \in [Players -> Teams \cup {NoTeam}]
  /\ MaxFails \in Nat
  /\ MaxTeams \in Nat

States == {"INITIALIZING", "STABLE", "WAITING_FOR_MERGE", "REQUESTED_DEACTIVATION",
           "CONFIRMING_DEACTIVATION", "DEACTIVATED", "STABLE_BUT_TASK_FAILED", "CRASHED"}

\* What mcServer.status() does: return, raise timeout or ConnectionRefusedError,
\* raise KeyError, raise anything else.
McReplies == {"answer", "unreachable", "keyerror", "exception"}

\* What the HELLO sent to the node's API port does: a reply, an empty reply,
\* ConnectionRefusedError, any other exception (a receive timeout among them).
ApiOutcomes == {"reply", "empty", "refused", "exception"}

\* The outcomes one poll() meets.  seen is the player sample of an answer, due tells
\* whether maxRequestProcessTime has passed since last_request_time.
Replies == [mc : McReplies, seen : SUBSET Players, api : ApiOutcomes, due : BOOLEAN]

AnyTeam == Teams \cup {NoTeam}
TeamMaps == UNION {[S -> AnyTeam] : S \in SUBSET Players}

\* countfailures grows without bound in a crashed server; every test of it is
\* `> MaxFails` or `> 2 * MaxFails`, so it saturates here just above the larger.
FailureCap == 2 * MaxFails + 1

ServerRecords == [state : States, playercount : Nat, player_team : TeamMaps,
                  countfailures : 0 .. FailureCap]

NewServer == [state |-> "INITIALIZING", playercount |-> 0,
              player_team |-> [p \in {} |-> NoTeam], countfailures |-> 0]

\* The list `teams`, which the code always recomputes from player_team.
TeamsOn(s) == {s.player_team[p] : p \in DOMAIN s.player_team}

\* Mutant of IsReady: a crashed server is waited for.
IsReadyIfStable(s) == s.state = "STABLE"

\* The enum order puts only INITIALIZING below STABLE: `state < STABLE`.
IsReady(s) == s.state # "INITIALIZING"

EligibleForNewTeams(s) == s.state = "STABLE" /\ Cardinality(TeamsOn(s)) < MaxTeams

-----------------------------------------------------------------------------
(* The failure counter.                                                    *)

Missed(s) == [s EXCEPT !.countfailures = IF @ < FailureCap THEN @ + 1 ELSE @]

Forgiven(s) == [s EXCEPT !.countfailures = 0]

CrashedBeyond(s, limit) ==
  IF s.countfailures > limit THEN [s EXCEPT !.state = "CRASHED"] ELSE s

\* A failed status call: KeyError is the only failure that is not counted.
NotAnswered(s, mc) == IF mc = "keyerror" THEN s ELSE Missed(s)

\* _is_mc_alive: the object after the call; the call returns mc = "answer".
AliveChecked(s, mc) == IF mc = "answer" THEN Forgiven(s) ELSE NotAnswered(s, mc)

-----------------------------------------------------------------------------
(* poll(), one operator per branch on the state.                           *)

\* Mutant of SampleTaken: the name of an unlisted player stands for the team.
SampleTakenByName(s, seen) ==
  [s EXCEPT !.player_team = [p \in seen |-> p], !.playercount = Cardinality(seen),
            !.countfailures = 0]

\* Mutant of SampleTaken: an answer does not reset the failure counter.
SampleTakenUnforgiving(s, seen) ==
  [s EXCEPT !.player_team = [p \in seen |-> MasterTeam[p]], !.playercount = Cardinality(seen)]

\* Players no longer in the sample are dropped, the remaining ones keep the team
\* they were added with, the others get the one of the teams API.
SampleTaken(s, seen) ==
  [s EXCEPT !.player_team = [p \in seen |-> IF p \in DOMAIN s.player_team
                                            THEN s.player_team[p] ELSE MasterTeam[p]],
            !.playercount = Cardinality(seen),
            !.countfailures = 0]

\* check_is_server_api_alive, when it returns.
ApiChecked(s, api) ==
  IF s.state = "STABLE_BUT_TASK_FAILED" /\ api = "reply"
  THEN [s EXCEPT !.state = "STABLE"]
  ELSE IF s.state = "STABLE" /\ api = "refused"
       THEN [s EXCEPT !.state = "STABLE_BUT_TASK_FAILED"] ELSE s

\* Mutant of PollInitializing: a server that never boots is never given up.
PollInitializingForever(s, r) ==
  IF r.mc = "answer" THEN [Forgiven(s) EXCEPT !.state = "STABLE"] ELSE NotAnswered(s, r.mc)

PollInitializing(s, r) ==
  IF r.mc = "answer" THEN [Forgiven(s) EXCEPT !.state = "STABLE"]
                     ELSE CrashedBeyond(NotAnswered(s, r.mc), 2 * MaxFails)

\* STABLE and WAITING_FOR_MERGE.  The TypeError that check_is_server_api_alive raises
\* out of its own `except Exception` is caught here and counted as a failed poll.
PollServing(s, r) ==
  IF r.mc = "answer"
  THEN IF r.api = "exception"
       THEN CrashedBeyond(Missed(SampleTaken(s, r.seen)), MaxFails)
       ELSE ApiChecked(SampleTaken(s, r.seen), r.api)
  ELSE CrashedBeyond(NotAnswered(s, r.mc), MaxFails)

\* Mutant of PollTaskFailed: the failures are counted and not looked at.
PollTaskFailedForever(s, r) ==
  LET checked == ApiChecked(s, r.api)
  IN  IF r.mc = "answer" THEN SampleTaken(checked, r.seen) ELSE NotAnswered(checked, r.mc)

PollTaskFailed(s, r) ==
  LET checked == ApiChecked(s, r.api)
  IN  IF r.mc = "answer" THEN SampleTaken(checked, r.seen)
                         ELSE CrashedBeyond(NotAnswered(checked, r.mc), MaxFails)

PollRequested(s, r) ==
  IF r.due THEN [s EXCEPT !.state = "CONFIRMING_DEACTIVATION"] ELSE s

\* Mutant of PollConfirming: silence is taken for a crash.
PollConfirmingCrash(s, r) ==
  IF r.mc = "unreachable" THEN [s EXCEPT !.state = "CRASHED"]
  ELSE IF r.mc = "answer" /\ r.seen = {} THEN [s EXCEPT !.state = "DEACTIVATED"] ELSE s

\* Mutant of PollConfirming: only a server that still answers can confirm.
PollConfirmingAnswer(s, r) ==
  IF r.mc = "answer" /\ r.seen = {} THEN [s EXCEPT !.state = "DEACTIVATED"] ELSE s

PollConfirming(s, r) ==
  IF \/ r.mc = "unreachable"
     \/ r.mc = "answer" /\ r.seen = {}
  THEN [s EXCEPT !.state = "DEACTIVATED"] ELSE s

PollCrashed(s, r) ==
  IF r.mc = "answer" THEN [Forgiven(s) EXCEPT !.state = "STABLE"]
                     ELSE NotAnswered(s, r.mc)

Polled(s, r) ==
  CASE s.state = "INITIALIZING"                        -> PollInitializing(s, r)
    [] s.state \in {"STABLE", "WAITING_FOR_MERGE"}     -> PollServing(s, r)
    [] s.state = "STABLE_BUT_TASK_FAILED"              -> PollTaskFailed(s, r)
    [] s.state = "REQUESTED_DEACTIVATION"              -> PollRequested(s, r)
    [] s.state = "CONFIRMING_DEACTIVATION"             -> PollConfirming(s, r)
    [] s.state = "CRASHED"                             -> PollCrashed(s, r)
    [] s.state = "DEACTIVATED"                         -> s

\* In STABLE_BUT_TASK_FAILED the API check stands outside every try block: its
\* TypeError (str + exception in the General Error message) leaves poll().
PollRaises(s, r) == s.state = "STABLE_BUT_TASK_FAILED" /\ r.api = "exception"

-----------------------------------------------------------------------------
(* The other methods.                                                      *)

\* playercount is incremented even for a player the object already holds.
PlayerAdded(s, p, t) ==
  [s EXCEPT !.player_team = [q \in DOMAIN s.player_team \cup {p} |->
                               IF q = p THEN t ELSE s.player_team[q]],
            !.playercount = @ + 1]

\* decommission(newServer): hasTarget tells whether newServer is given, mc is the
\* outcome of its _is_mc_alive.
Decommissioned(s, hasTarget, mc) ==
  IF s.state # "STABLE" THEN s
  ELSE IF mc # "answer" THEN [AliveChecked(s, mc) EXCEPT !.state = "CRASHED"]
  ELSE IF hasTarget THEN [Forgiven(s) EXCEPT !.state = "REQUESTED_DEACTIVATION"]
  ELSE IF s.playercount > 0 THEN Forgiven(s)
  ELSE [Forgiven(s) EXCEPT !.state = "CONFIRMING_DEACTIVATION"]

\* The DEALLOCATE message is sent exactly when decommission changes the state to a
\* retiring one.
RetirementSent(s, hasTarget, mc) ==
  s.state = "STABLE" /\ mc = "answer" /\ (hasTarget \/ s.playercount = 0)

Retiring == {"REQUESTED_DEACTIVATION", "CONFIRMING_DEACTIVATION", "DEACTIVATED"}
=============================================================================

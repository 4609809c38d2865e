--------------------------- MODULE ServerLifecycle ---------------------------
(***************************************************************************)
(* What the load balancer relies on about one Server object, whatever the  *)
(* node answers: the phases it goes through and the only moves between     *)
(* them.  A draining server never serves again, a drained one stays so.    *)
(***************************************************************************)
VARIABLE phase

Phases == {"booting", "serving", "draining", "drained", "down"}

Init == phase = "booting"

Move(from, to) == phase = from /\ phase' = to

Boot       == Move("booting", "serving")
NeverBoots == Move("booting", "down")
Fall       == Move("serving", "down")
Recover    == Move("down", "serving")
StartDrain == Move("serving", "draining")
EndDrain   == Move("draining", "drained")

Next == Boot \/ NeverBoots \/ Fall \/ Recover \/ StartDrain \/ EndDrain

Spec == Init /\ [][Next]_phase
=============================================================================

-------------------------------- MODULE Probe --------------------------------
(***************************************************************************)
(* What captive_portal_check promises to wifi_connect: asked, it answers    *)
(* once, whatever lwIP and the servers do.  CaptiveProbe implements this    *)
(* and WifiConnect is built on it.                                          *)
(***************************************************************************)
VARIABLES
  asking,     \* a check is under way
  verdict     \* of the check asked last

Init == asking = FALSE /\ verdict = "none"

Ask == ~asking /\ asking' = TRUE /\ verdict' = "none"

Answer(v) == asking /\ asking' = FALSE /\ verdict' = v

Next == Ask \/ \E v \in {"online", "portal"} : Answer(v)

Spec == Init /\ [][Next]_<<asking, verdict>>

FairSpec ==
  Spec /\ WF_<<asking, verdict>>(\E v \in {"online", "portal"} : Answer(v))
=============================================================================

---------------------------- MODULE SingleFlight ----------------------------
(***************************************************************************)
(* What the guards of this program promise, without saying how: a resource *)
(* (a simulation, an analysis tree, an image) is worked on by one holder at*)
(* a time.  Inflight and DriverGate are shown to implement it.            *)
(***************************************************************************)
CONSTANTS Holder, Resource

VARIABLE active   \* the pairs <<h, r>> such that h is working on r

Init == active = {}

Begin(h, r) ==
  /\ \A g \in Holder : <<g, r>> \notin active
  /\ active' = active \cup {<<h, r>>}

End(h, r) ==
  /\ <<h, r>> \in active
  /\ active' = active \ {<<h, r>>}

Next == \E h \in Holder, r \in Resource : Begin(h, r) \/ End(h, r)

Spec == Init /\ [][Next]_active
=============================================================================

--------------------------- MODULE MCSessionLock ---------------------------
(* Three threads and two sessions that share an overflow lock, for TLC. *)
EXTENDS SessionLock, TLC

CONSTANTS t1, t2, t3, s1, s2, h1

TwoOnOneShard == s1 :> h1 @@ s2 :> h1

(* A behaviour ends when every call of the bound is over. *)
Finished ==
  /\ counter = MaxStamp
  /\ \A t \in Threads : pc[t] = "idle"
  /\ UNCHANGED vars

MCSpec == Init /\ [][Next \/ Finished]_vars
MCFairSpec == MCSpec /\ Fairness
=============================================================================

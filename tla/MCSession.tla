----------------------------- MODULE MCSession -----------------------------
(***************************************************************************)
(* What a session keeps, in two parts that share no state, one of them in  *)
(* a behaviour: the log of its turns, and its semantic network.            *)
(***************************************************************************)
EXTENDS MCTurnCommit, MCNetworkOwner

VARIABLE part

SessionInit ==
  \/ part = "turns"   /\ Init /\ NetworkInit /\ ~unattended /\ seed = Nothing
  \/ part = "network" /\ Init /\ NetworkInit

SessionNext ==
  /\ UNCHANGED part
  /\ \/ part = "turns"   /\ Next        /\ UNCHANGED networkVars
     \/ part = "network" /\ NetworkNext /\ UNCHANGED vars

SessionSpec == SessionInit /\ [][SessionNext]_<<vars, networkVars, part>>
=============================================================================

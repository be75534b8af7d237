--------------------------- MODULE MCTurnCommit ---------------------------
(* Two processes over one session file. *)
EXTENDS TurnCommit, TLC

CONSTANTS p1, p2

ProcSymmetry == Permutations({p1, p2})
=============================================================================

----------------------------- MODULE MCSidecar -----------------------------
(* A small sidecar for TLC.  Requests of one session and worker processes  *)
(* are interchangeable.                                                    *)
EXTENDS Sidecar, TLC

CONSTANTS r1, r2, r3, w1, w2, w3, s1, s2

OneSession  == [r \in Requests |-> s1]
TwoSessions == [r \in Requests |-> IF r = r3 THEN s2 ELSE s1]

SymmetryAll == Permutations(Requests) \cup Permutations(Workers)
=============================================================================

--------------------------- MODULE MCLearningJobs ---------------------------
(* A small learning queue for TLC: two processes with one applier each, or *)
(* one process with two appliers.                                          *)
EXTENDS LearningJobs, TLC

CONSTANTS r1, r2, p1, p2, a1, a2, t1, t2

TwoTopics == [r \in Requests |-> IF r = r1 THEN t1 ELSE t2]
OneTopic  == [r \in Requests |-> t1]
TwoParts  == 1..2

OwnHome    == [a \in Appliers |-> IF a = a1 THEN p1 ELSE p2]
SharedHome == [a \in Appliers |-> p1]

(* The two processes with their appliers can be swapped, and the requests. *)
Swap == (p1 :> p2) @@ (p2 :> p1) @@ (a1 :> a2) @@ (a2 :> a1)
SymmetryProcs == Permutations(Requests) \cup {Swap}
=============================================================================

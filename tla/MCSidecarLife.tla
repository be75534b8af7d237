--------------------------- MODULE MCSidecarLife ---------------------------
(* Three requests of two sessions and two probes. *)
EXTENDS SidecarLife, TLC

CONSTANTS r1, r2, r3, s1, s2, q1, q2

TwoSessions == [r \in Requests |-> IF r = r3 THEN s2 ELSE s1]

SymmetryLife == Permutations({r1, r2}) \cup Permutations(Probes)
=============================================================================

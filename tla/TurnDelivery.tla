---------------------------- MODULE TurnDelivery ----------------------------
(***************************************************************************)
(* What the client of the HTTP sidecar may rely on for one turn request:   *)
(* its turn is started at most once, never after the answer, and never     *)
(* when the answer says that the turn was refused.                         *)
(***************************************************************************)
EXTENDS Naturals

CONSTANT Requests

VARIABLES outcome, runs

Init == /\ outcome = [r \in Requests |-> "pending"]
        /\ runs = [r \in Requests |-> 0]

Run(r) == /\ outcome[r] = "pending"
          /\ runs[r] = 0
          /\ runs' = [runs EXCEPT ![r] = 1]
          /\ UNCHANGED outcome

Refuse(r) == /\ outcome[r] = "pending"
             /\ runs[r] = 0
             /\ outcome' = [outcome EXCEPT ![r] = "refused"]
             /\ UNCHANGED runs

(* A result, a failure, "outcome unknown", or a connection that is closed. *)
Report(r) == /\ outcome[r] = "pending"
             /\ \E o \in {"ok", "error", "unknown", "lost"} :
                  outcome' = [outcome EXCEPT ![r] = o]
             /\ UNCHANGED runs

Next == \E r \in Requests : Run(r) \/ Refuse(r) \/ Report(r)

Spec == Init /\ [][Next]_<<outcome, runs>>
=============================================================================

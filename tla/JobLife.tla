------------------------------ MODULE JobLife ------------------------------
(***************************************************************************)
(* What the learning queue promises about a request: while it is           *)
(* unfinished it is the only one of its topic; it is answered once; and    *)
(* its findings reach the semantic graph all together, with its success,   *)
(* or never.                                                               *)
(***************************************************************************)
CONSTANTS Requests, TopicOf, Parts
VARIABLES phase,    \* request -> where it is in its life
          graph     \* the parts of answers that the graph holds

Unfinished == {r \in Requests : phase[r] \in {"open", "answered"}}

Init ==
  /\ phase = [r \in Requests |-> "none"]
  /\ graph = {}

Enter(S, from, to) ==
  /\ \A r \in S : phase[r] \in from
  /\ phase' = [r \in Requests |-> IF r \in S THEN to ELSE phase[r]]

Open(r) ==
  /\ Enter({r}, {"none"}, "open")
  /\ \A q \in Unfinished : TopicOf[q] # TopicOf[r]
  /\ UNCHANGED graph

Answer(r) == Enter({r}, {"open"}, "answered") /\ UNCHANGED graph

Succeed(S) ==
  /\ Enter(S, {"answered"}, "succeeded")
  /\ graph' = graph \cup (S \X Parts)

Fail(S) == Enter(S, {"open", "answered"}, "failed") /\ UNCHANGED graph

(* A claim may fail exhausted requests on its way. *)
Next ==
  \/ \E r \in Requests : Open(r) \/ Answer(r)
  \/ \E S \in SUBSET Unfinished : Succeed(S) \/ Fail(S)

Spec == Init /\ [][Next]_<<phase, graph>>
=============================================================================

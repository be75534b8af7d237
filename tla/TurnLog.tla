------------------------------ MODULE TurnLog ------------------------------
(***************************************************************************)
(* What the persistence of one session promises, without processes or      *)
(* transactions: a revision counter that every write advances, and a log   *)
(* of the turns that are durable.  A turn is named by the revision that    *)
(* committed it.                                                           *)
(***************************************************************************)
EXTENDS Naturals, Sequences

VARIABLES revision, log, readable

Init == revision = 0 /\ log = <<>> /\ readable = TRUE

(* Every write advances the revision by one. *)
Write == revision' = revision + 1 /\ readable' = TRUE

CommitTurn == Write /\ readable /\ log' = Append(log, revision + 1)

(* Only the turn of the very last write can be taken back. *)
RetractTurn == Write /\ readable /\ log = Append(log', revision)

Resave == Write /\ readable /\ UNCHANGED log

(* The stored state becomes undecodable; only then may the log restart. *)
Damage  == readable /\ readable' = FALSE /\ UNCHANGED <<revision, log>>
Restart == Write /\ ~readable /\ log' = <<revision + 1>>

Next == CommitTurn \/ RetractTurn \/ Resave \/ Damage \/ Restart

Spec == Init /\ [][Next]_<<revision, log, readable>>
=============================================================================

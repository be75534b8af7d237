------------------------------ MODULE MCDbPool ------------------------------
(* Two threads and a pool of two connections for TLC. *)
EXTENDS DbPool

CONSTANTS t1, t2, c1, c2, c3, c4
=============================================================================

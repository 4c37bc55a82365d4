--------------------------- MODULE MCMplScheduler ---------------------------
(* A small instance of MplScheduler for TLC. *)
EXTENDS MplScheduler

CONSTANTS w1, w2, w3

MCWorkers2 == {w1, w2}
MCWorkers3 == {w1, w2, w3}
=============================================================================

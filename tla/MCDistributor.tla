--------------------------- MODULE MCDistributor ---------------------------
(* A small instance of Distributor for TLC: two configured threads, room for *)
(* three more, and three questions.                                          *)
EXTENDS Distributor

CONSTANTS q1, q2, q3, t1, t2, t3, t4, t5
=============================================================================

--------------------------- MODULE MCCommunicator ---------------------------
(* A small instance of Communicator for TLC: a packet handler thread, one that *)
(* asks with priority, the communicator thread, and two zones.                 *)
EXTENDS Communicator

CONSTANTS handler, notified, d1, d2
=============================================================================

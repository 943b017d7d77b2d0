--------------------------- MODULE MCBindBackend ---------------------------
(* One or two resolving threads, the control thread and the communicator. *)
EXTENDS BindBackend, TLC

CONSTANTS r1, r2, control, transfer, nobody

Symmetric == Permutations(Resolvers)
=============================================================================

------------------------- MODULE MCRecursorQueries -------------------------
(* Small instances of RecursorQueries for TLC.                               *)
EXTENDS RecursorQueries

CONSTANTS m1, m2, m3, q1, q2, f1, f2
=============================================================================

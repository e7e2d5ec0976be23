----------------------------- MODULE MCBeamTeam -----------------------------
(* Three elements for one team: one whose last vector is padded, one whose   *)
(* nodes fill its vectors and that finds the larger one's values in scratch  *)
(* memory, and one with fewer nodes and quadrature points than threads.      *)
EXTENDS BeamTeam

MCElements ==
    << [nodes |-> 3, qps |-> 3, damped |-> TRUE],
       [nodes |-> 2, qps |-> 1, damped |-> FALSE],
       [nodes |-> 1, qps |-> 2, damped |-> TRUE] >>
=============================================================================

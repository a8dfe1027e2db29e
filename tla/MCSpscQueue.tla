---------------------------- MODULE MCSpscQueue -----------------------------
(***************************************************************************)
(* Two queues: one constructed for a single element, whose first block     *)
(* holds it and which grows by blocks of twice the size; and one that gets *)
(* its several blocks from the constructor.                                *)
(***************************************************************************)
EXTENDS SpscQueue

MCConstructions ==
  {[maxSize |-> 1, MAX_BLOCK_SIZE |-> 4], [maxSize |-> 4, MAX_BLOCK_SIZE |-> 2]}
=============================================================================

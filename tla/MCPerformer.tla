---------------------------- MODULE MCPerformer -----------------------------
(***************************************************************************)
(* Performer with two controllers configured, one of which the network     *)
(* does not drive, and a pool and a queue that reach their capacity.  Two  *)
(* Events carry three messages, so that a message always comes in an Event *)
(* that carried another.                                                   *)
(***************************************************************************)
EXTENDS Performer

MCKinds == {"note", "controlled", "other"}
MCVals == {0, 1}
=============================================================================

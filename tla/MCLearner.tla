----------------------------- MODULE MCLearner ------------------------------
(***************************************************************************)
(* Learner with three controllers, of three outputs, of two and of one,    *)
(* whose examples vary them over a wide range, over one narrower than the  *)
(* outputs, and not at all, and change a fourth; an octave and more, a     *)
(* note struck again, one released twice, and a note-on of velocity 0; a   *)
(* network of two hidden layers of one block.                              *)
(***************************************************************************)
EXTENDS Learner

Wide == [min |-> 20, max |-> 80]
Narrow == [min |-> 0, max |-> 1]
Untouched == [min |-> 127, max |-> 0]

MCControllers == {7, 11, 12}
MCOutputCount == (7 :> 3) @@ (11 :> 2) @@ (12 :> 1)
MCCtrlDefaults == (7 :> 36) @@ (11 :> 0) @@ (12 :> 1)
MCFeatures == {SOME_NOTE_ON, NOTE_STRUCK, NOTE_RELEASED, VELOCITY, INTERVAL}
MCMinMaxes == {(7 :> Wide) @@ (11 :> Untouched) @@ (12 :> Narrow),
               (7 :> Narrow) @@ (11 :> Wide) @@ (12 :> Untouched),
               (7 :> Narrow) @@ (11 :> Wide) @@ (12 :> Wide)}
MCNoteEvents == {[type |-> "on", pitch |-> 60, velocity |-> 127],
                 [type |-> "on", pitch |-> 47, velocity |-> 1],
                 [type |-> "on", pitch |-> 60, velocity |-> 0]}
MCChanged == {1, 7, 11, 12}
MCCtrlValues == {64}

Architecture == INSTANCE LstmArchitecture WITH Inputs <- 1, Outputs <- 1, BlockCounts <- <<1, 1>>
MCUnitCount == Architecture!TotalUnits
MCConnections == Architecture!AddedConnections
MCCells == Architecture!CellIds
MCSelfConnGater == Architecture!SelfGates
MCGatedConns == Architecture!Gates
=============================================================================

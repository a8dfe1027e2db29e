-------------------------- MODULE MCTrainingStream --------------------------
(***************************************************************************)
(* TrainingStream with an example that begins and ends with a note and has *)
(* a controller change between update times, and one that ends with a      *)
(* controller change at the time of its note.  The durations are 1 and 3,  *)
(* so that sixths of a tempo are as good as any.                           *)
(***************************************************************************)
EXTENDS TrainingStream

Note(t) == [type |-> "note", time |-> t]
Change(t) == [type |-> "ctrl", time |-> t]

MCExamples == {<<Note(5), Change(6), Note(9)>>, <<Change(2), Note(3), Change(3)>>}
MCConfigs == Config
MCPaddings == {-4, 0, 1, 4}
=============================================================================

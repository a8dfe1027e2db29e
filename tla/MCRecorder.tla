----------------------------- MODULE MCRecorder -----------------------------
(* Recorder with as many Events as messages and a queue that gets full. *)
EXTENDS Recorder

MCKinds == {"note", "controlled", "uncontrolled", "other"}
=============================================================================

--------------------------- MODULE MidiTranslator ---------------------------
(***************************************************************************)
(* The MidiTranslator: note events and controller values in, the input,    *)
(* the target and the meaning of the outputs of the network out.           *)
(*                                                                         *)
(* A translator is a record, a method an operator from the record before   *)
(* to the record after.  Every number it puts in an input or a target is 0 *)
(* or 1 (velocity included: line 281 divides two integers), so a vector is *)
(* the set of the places that hold a 1; the part of a vector that stands   *)
(* for a controller is one-hot and is represented by its hot index.        *)
(* The arithmetic on doubles is taken to be exact.                         *)
(***************************************************************************)
EXTENDS Integers, FiniteSets, FiniteSetsExt

CONSTANTS
  Controllers,    \* those of the lists controllers and controller_defaults
  OutputCount,    \* _ctrl_output_counts: a function of the controllers it has
  CtrlDefaults,   \* _ctrl_defaults, as configured
  Features,       \* _input_feature_config
  Training        \* whether _mode is TRAIN

MidiValue == 0 .. 127
NOTE_MAX == 127
VEL_MAX == 127

\* input_feature_list, which is in the order of these numbers
SOME_NOTE_ON == 0
NOTE_STRUCK == 1
NOTE_RELEASED == 2
VELOCITY == 3
INTERVAL == 4

\* What the configuration accepts: a default for each controller
\* (midi_config.cpp:61) of 0 .. 127 (config_parameter.cpp:179), and a count of 1
\* or more (representation_config.cpp:77) for any controllers.  A count for one
\* that has no default is accepted too, and left out here: the first update throws
\* out_of_range (lstm_trainer.cpp:88).
ASSUME TranslatorAssumption ==
  /\ Controllers \subseteq MidiValue
  /\ DOMAIN OutputCount \subseteq Controllers
  /\ OutputCount \in [DOMAIN OutputCount -> Nat \ {0}]
  /\ CtrlDefaults \in [Controllers -> MidiValue]
  /\ Features \subseteq 0 .. 4
  /\ Training \in BOOLEAN

NoteEvent == [type : {"on", "off"}, pitch : MidiValue, velocity : MidiValue]
\* What the examples made of a controller; one they never change has min 127 and max 0.
MinMax == {r \in [min : MidiValue, max : MidiValue] :
             r.min <= r.max \/ (r.min = 127 /\ r.max = 0)}

-----------------------------------------------------------------------------
(* The places of an input and of a target.                                 *)

SumOf(sizes) == MapThenSumSet(LAMBDA k : sizes[k], DOMAIN sizes)
\* The first place of a key when the keys' places follow each other in order.
Begin(sizes, key) == SumOf([k \in {k \in DOMAIN sizes : k < key} |-> sizes[k]])

FeatureSizes == [f \in Features |-> IF f = INTERVAL THEN 12 + 2 + 2 ELSE 1]
FeatureBegin(f) == Begin(FeatureSizes, f)
InputFeatureCount == SumOf(FeatureSizes)
OutputBegin(c) == Begin(OutputCount, c)
TotalOutputCount == SumOf(OutputCount)
InputCount == InputFeatureCount + TotalOutputCount

\* A vector of _output_count places, from the hot index of each controller.
Hot(hotIndexes) == {OutputBegin(c) + hotIndexes[c] : c \in Controllers}

-----------------------------------------------------------------------------
(* The values a controller can be given: linspace( min, max, count ), here *)
(* times count - 1 so as to stay among the integers.                       *)

Spaced(range, count, i) == range.min * (count - 1) + i * (range.max - range.min)

\* _output_to_ctrl_value: lround, of numbers that are not negative; a single
\* value is the minimum
OutputValue(range, count, i) ==
  IF count = 1 THEN range.min
  ELSE (2 * Spaced(range, count, i) + (count - 1)) \div (2 * (count - 1))

\* index_of_closest_value: the upper of two that are as close
ClosestIndex(range, count, value) ==
  LET v == value * (count - 1)
      upper == Min({i \in 0 .. count - 1 : Spaced(range, count, i) > v})
  IN  IF v - Spaced(range, count, upper - 1) < Spaced(range, count, upper) - v
      THEN upper - 1 ELSE upper

\* Slip: the values from the maximum on get the place after the last.
HotIndexPastEnd(range, count, value) ==
  CASE value <= range.min -> 0
    [] value >= range.max /\ value > range.min -> count
    [] OTHER -> ClosestIndex(range, count, value)

\* _ctrl_value_to_hot_index, as setup_ctrl_maps fills it
HotIndex(range, count, value) ==
  CASE value <= range.min -> 0
    [] value >= range.max /\ value > range.min -> count - 1
    [] OTHER -> ClosestIndex(range, count, value)

\* adjust_ctrl_values
Adjusted(minMax, values) ==
  [c \in Controllers |->
     OutputValue(minMax[c], OutputCount[c], HotIndex(minMax[c], OutputCount[c], values[c]))]

\* fill_target
Target(t) ==
  [c \in Controllers |-> HotIndex(t.minMax[c], OutputCount[c], t.targetCtrlValues[c])]

-----------------------------------------------------------------------------
(* The methods.                                                            *)

\* The constructor reads past no end of a vector.  A controller without a count
\* has no map to adjust its default with (line 89); and a value between the
\* minimum and the maximum has no upper neighbour among one (line 202).
Constructible(minMax) ==
  \A c \in Controllers :
    /\ c \in DOMAIN OutputCount
    /\ OutputCount[c] = 1 => minMax[c].max <= minMax[c].min + 1

\* The constructor.  pitches: the keys of the keyboard.
NewTranslator(minMax, pitches) ==
  LET defaults == Adjusted(minMax, CtrlDefaults)
      hot == [c \in Controllers |-> HotIndex(minMax[c], OutputCount[c], defaults[c])]
  IN  [minMax |-> minMax, ctrlDefaults |-> defaults,
       noteVelocities |-> [p \in pitches |-> 0],
       lastEventType |-> "none", lastPitch |-> NOTE_MAX + 1,
       lastVelocity |-> 0, lastInterval |-> 0,
       previousOutput |-> hot, previousTarget |-> hot,
       targetCtrlValues |-> defaults, outputCtrlValues |-> defaults]

\* Slip: the keys held are kept.
ResetTranslatorHeld(t) ==
  LET s == [t EXCEPT !.targetCtrlValues = t.ctrlDefaults, !.outputCtrlValues = t.ctrlDefaults]
  IN  [s EXCEPT !.previousOutput = Target(s)]

\* reset
ResetTranslator(t) ==
  LET s == [t EXCEPT !.targetCtrlValues = t.ctrlDefaults, !.outputCtrlValues = t.ctrlDefaults]
  IN  [s EXCEPT !.previousOutput = Target(s),
                !.noteVelocities = [p \in DOMAIN t.noteVelocities |-> 0]]

\* A note-on of velocity 0 is a note-off.
Struck(e) == e.type = "on" /\ e.velocity > 0

\* What report_note_event keeps of an event it does not ignore.
NoteTaken(t, e) ==
  LET previous == IF t.lastPitch > NOTE_MAX THEN e.pitch ELSE t.lastPitch
      interval == INTERVAL \in Features /\ Struck(e)
      velocity == IF Struck(e) THEN e.velocity ELSE 0
  IN  [t EXCEPT !.lastEventType = IF Struck(e) THEN "on" ELSE "off",
                !.noteVelocities[e.pitch] = velocity,
                !.lastVelocity = velocity,
                !.lastInterval = IF interval THEN e.pitch - previous ELSE @,
                !.lastPitch = IF interval THEN e.pitch ELSE @]

\* Slip: a repeated note-off counts as a release.
ReportNoteEventRepeated(t, e) == NoteTaken(t, e)

\* report_note_event
ReportNoteEvent(t, e) ==
  IF ~Struck(e) /\ t.noteVelocities[e.pitch] = 0 THEN t ELSE NoteTaken(t, e)

\* Slip: the value is not adjusted.
UpdateCtrlValueUnadjusted(t, c, value) == [t EXCEPT !.targetCtrlValues[c] = value]

\* update_ctrl_value
UpdateCtrlValue(t, c, value) ==
  IF t.targetCtrlValues[c] = value THEN t
  ELSE [t EXCEPT !.targetCtrlValues = Adjusted(t.minMax, [@ EXCEPT ![c] = value])]

\* fill_input, first part: the places of the features.
FeatureInput(t) ==
  LET distance == IF t.lastInterval < 0 THEN -t.lastInterval ELSE t.lastInterval
      begin == FeatureBegin(INTERVAL)
      When(cond, i) == IF cond THEN {i} ELSE {}
      single == {f \in {SOME_NOTE_ON, NOTE_STRUCK, NOTE_RELEASED, VELOCITY} \cap Features :
                   \/ f = SOME_NOTE_ON /\ \E p \in DOMAIN t.noteVelocities : t.noteVelocities[p] > 0
                   \/ f = NOTE_STRUCK /\ t.lastEventType = "on"
                   \/ f = NOTE_RELEASED /\ t.lastEventType = "off"
                   \/ f = VELOCITY /\ t.lastVelocity \div VEL_MAX = 1}
  IN  {FeatureBegin(f) : f \in single} \cup
      IF INTERVAL \in Features /\ t.lastEventType = "on"
      THEN {begin + (distance % 12)} \cup When(t.lastInterval > 0, begin + 12)
             \cup When(t.lastInterval < 0, begin + 13) \cup When(distance >= 12, begin + 14)
      ELSE {}

\* fill_input, second part: what is fed back.
Feedback(t, source) ==
  {InputFeatureCount + i : i \in Hot(IF source = "output" THEN t.previousOutput
                                                          ELSE t.previousTarget)}

\* get_input
Input(t, source) == FeatureInput(t) \cup Feedback(t, source)

\* fill_input, on the translator.
InputTaken(t) == [t EXCEPT !.lastEventType = "none", !.lastInterval = 0]

\* report_output; hot: the index of each controller's largest output.
ReportOutput(t, hot) ==
  [t EXCEPT !.previousOutput = hot,
            !.outputCtrlValues =
               [c \in Controllers |-> OutputValue(t.minMax[c], OutputCount[c], hot[c])],
            !.previousTarget = IF Training THEN Target(t) ELSE @]
=============================================================================

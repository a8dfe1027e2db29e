------------------------------- MODULE Learner ------------------------------
(***************************************************************************)
(* What LstmTrainer makes of a MidiTranslator and an LstmNetwork, sequence *)
(* after sequence: the inside of run_training_epoch and of validate.  When *)
(* an epoch is run and when it is followed by a validation is Trainer's    *)
(* business, and which events there are, when, TrainingStream's: here an   *)
(* epoch may always follow, a validation may follow an epoch, and any      *)
(* event may be next.                                                      *)
(*                                                                         *)
(* The sequences are numbered, and the number stands in the network for    *)
(* all that comes from the sequence.  What the network puts out is not     *)
(* calculated: any output of each controller may be the largest.           *)
(*                                                                         *)
(* A configuration that passes its tests, or an example, may make the      *)
(* translator read past the end of a vector.  The program is then          *)
(* "undefined", does nothing more here, and nothing is claimed of it.      *)
(***************************************************************************)
EXTENDS MidiTranslator, LstmNetwork

CONSTANTS
  MinMaxes,        \* what the training examples may have made of the controllers
  NoteEvents,      \* the note events of the sequences
  Changed,         \* the controllers that are changed in them
  CtrlValues,      \* and their values
  NoNote,          \* the update is due to the time
  ZeroEachEpoch,   \* zero_network_before_each_epoch
  ZeroValidation,  \* outcomes of prob_bool( zero_network_before_validation )
  ZeroOnReset,     \* outcomes of prob_bool( zero_network_on_reset )
  MaxSequences,    \* bound: training and validation sequences
  MaxUpdates       \* bound: updates of a sequence

ASSUME LearnerAssumption ==
  /\ MinMaxes \subseteq [Controllers -> MinMax]
  /\ NoteEvents \subseteq NoteEvent /\ NoNote \notin NoteEvent
  /\ Changed \subseteq MidiValue /\ CtrlValues \subseteq MidiValue
  /\ ZeroEachEpoch \in BOOLEAN /\ ZeroValidation \subseteq BOOLEAN
  /\ ZeroOnReset \subseteq BOOLEAN
  /\ MaxSequences \in Nat /\ MaxUpdates \in Nat

VARIABLES
  translator,   \* _midi_translator
  net,          \* _network
  pc,           \* the next step of the program
  input,        \* the last input
  sequence,     \* the number of the sequence
  updates,      \* the updates of the sequence
  validations,  \* history: the sequences that were validations
  targetOf,     \* history: the sequence _previous_target was filled in
  since,        \* history: the sequences fed forward since the network was zeroed
  heard,        \* history: what was presented at each update of the sequence
  fresh         \* history: a translator built at the last reset

histories == <<validations, targetOf, since, heard, fresh>>
vars == <<translator, net, pc, input, sequence, updates, histories>>

Pitches == {e.pitch : e \in NoteEvents}
HotIndexes == {hot \in [Controllers -> 0 .. TotalOutputCount] :
                 \A c \in Controllers : hot[c] < OutputCount[c]}
Validating == sequence \in validations

Init ==
  /\ \E minMax \in MinMaxes :
       IF Constructible(minMax)
       THEN translator = NewTranslator(minMax, Pitches) /\ pc = "between"
       ELSE translator = [minMax |-> minMax] /\ pc = "undefined"
  /\ net = ZeroNetwork(NewNetwork)
  /\ input = {} /\ sequence = 0 /\ updates = 0
  /\ validations = {} /\ targetOf = 0 /\ since = {} /\ heard = <<>>
  /\ fresh = translator

\* _network.zero_network(), if zero.
Zeroed(zero, n) == IF zero THEN ZeroNetwork(n) ELSE n
SinceZeroed(zero) == IF zero THEN {} ELSE since

\* What run_training_epoch and validate begin with.
StartSequence(zero) ==
  /\ pc = "between" /\ sequence < MaxSequences
  /\ pc' = "advance" /\ sequence' = sequence + 1 /\ updates' = 0
  /\ net' = Zeroed(zero, net) /\ since' = SinceZeroed(zero)
  /\ translator' = ResetTranslator(translator)
  /\ fresh' = NewTranslator(translator.minMax, Pitches)
  /\ heard' = <<>>
  /\ UNCHANGED <<input, targetOf>>

StartEpoch ==
  /\ StartSequence(ZeroEachEpoch)
  /\ UNCHANGED validations

StartValidation ==
  /\ sequence > 0 /\ ~Validating
  /\ \E zero \in ZeroValidation : StartSequence(zero \/ ZeroEachEpoch)
  /\ validations' = validations \cup {sequence + 1}

\* advance_stream_until_update_time: a controller change before the update.
ControlChange ==
  /\ pc = "advance" /\ updates < MaxUpdates
  /\ \E c \in Controllers \cap Changed, value \in CtrlValues :
       /\ translator' = UpdateCtrlValue(translator, c, value)
       /\ fresh' = UpdateCtrlValue(fresh, c, value)
  /\ UNCHANGED <<net, pc, input, sequence, updates, validations, targetOf, since, heard>>

\* One of a controller that is not configured (any more), which has no map
\* to adjust its value with (midi_translator.cpp:89).
StrayChange ==
  /\ pc = "advance" /\ updates < MaxUpdates /\ Changed \ Controllers # {}
  /\ pc' = "undefined"
  /\ UNCHANGED <<translator, net, input, sequence, updates, histories>>

Reported(t, e) == IF e = NoNote THEN t ELSE ReportNoteEvent(t, e)

\* The note or the time that advance_stream_until_update_time ends with,
\* and feed_forward_next.
Update ==
  /\ pc = "advance" /\ updates < MaxUpdates
  /\ \E e \in NoteEvents \cup {NoNote}, hot \in HotIndexes :
       LET source == IF Validating THEN "output" ELSE "target"
           from == {sequence} \cup IF Validating THEN {} ELSE {targetOf}
           t == Reported(translator, e)
       IN  /\ input' = Input(t, source)
           /\ net' = FeedForward(net, from)
           /\ since' = since \cup from
           /\ translator' = ReportOutput(InputTaken(t), hot)
           /\ fresh' = ReportOutput(InputTaken(Reported(fresh, e)), hot)
           /\ heard' = Append(heard, e)
  /\ targetOf' = IF Training THEN sequence ELSE targetOf
  /\ pc' = "judge" /\ updates' = updates + 1
  /\ UNCHANGED <<sequence, validations>>

\* calculate_error is 0
Correct == translator.outputCtrlValues = translator.targetCtrlValues

\* The rest of the loop's body in run_training_epoch.
Learn ==
  /\ pc = "judge" /\ ~Validating
  /\ \E train, abandon \in BOOLEAN, zero \in ZeroOnReset :
       /\ ~Correct => train
       /\ Correct => ~abandon
       /\ LET n == IF train THEN Backpropagate(net, {sequence}) ELSE net
          IN  net' = Zeroed(abandon /\ zero, n)
       /\ since' = SinceZeroed(abandon /\ zero)
       /\ pc' = IF abandon THEN "between" ELSE "advance"
  /\ UNCHANGED <<translator, input, sequence, updates, validations, targetOf, heard, fresh>>

\* The rest of the loop's body in validate, which only adds to the result.
Assess ==
  /\ pc = "judge" /\ Validating
  /\ pc' = "advance"
  /\ UNCHANGED <<translator, net, input, sequence, updates, histories>>

\* has_next() is false.
EndSequence ==
  /\ pc = "advance" /\ updates > 0
  /\ pc' = "between"
  /\ UNCHANGED <<translator, net, input, sequence, updates, histories>>

Next ==
  \/ StartEpoch \/ StartValidation \/ ControlChange \/ StrayChange \/ Update
  \/ Learn \/ Assess \/ EndSequence

Spec == Init /\ [][Next]_vars

-----------------------------------------------------------------------------
Usable == {minMax \in [Controllers -> MinMax] : Constructible(minMax)}
Translator ==
  [minMax : Usable, ctrlDefaults : [Controllers -> MidiValue],
   noteVelocities : [Pitches -> MidiValue], lastEventType : {"none", "on", "off"},
   lastPitch : 0 .. NOTE_MAX + 1, lastVelocity : MidiValue,
   lastInterval : -NOTE_MAX .. NOTE_MAX,
   previousOutput : HotIndexes, previousTarget : HotIndexes,
   targetCtrlValues : [Controllers -> MidiValue], outputCtrlValues : [Controllers -> MidiValue]]

\* The places of an input are those the network has, and those of a
\* translator's vectors the translator's: no vector is indexed past its end,
\* unless a controller has no output count, or a single output for a range of
\* values, or the examples change one that is not configured.
TypeOK ==
  /\ pc \in {"between", "advance", "judge", "undefined"}
  /\ IF pc = "undefined"
     THEN ~Constructible(translator.minMax) \/ Changed \ Controllers # {}
     ELSE translator \in Translator /\ fresh \in Translator
  /\ input \subseteq 0 .. InputCount - 1
  /\ sequence \in 0 .. MaxSequences /\ updates \in 0 .. MaxUpdates
  /\ validations \subseteq 1 .. sequence /\ targetOf \in 0 .. sequence
  /\ since \subseteq 0 .. sequence
  /\ heard \in Seq(NoteEvents \cup {NoNote})

\* Struck and released keys, by the events of the sequence alone.
StruckAt(i) == heard[i] # NoNote /\ Struck(heard[i])
HeldAfter(i, p) ==
  \E j \in 1 .. i : /\ StruckAt(j) /\ heard[j].pitch = p
                    /\ \A k \in j + 1 .. i : heard[k] # NoNote => heard[k].pitch # p \/ StruckAt(k)

\* The features of an input but the velocity (see VelocityIndicated) say what
\* docs/topics.md says of them, whatever keys were struck twice or released
\* twice and whatever the translator was left with by the sequences before:
\* whether a key is held, whether one was struck or released at this update, and
\* how far a note that was struck is from the one struck before it in the sequence.
FeaturesTrue ==
  pc = "judge" =>
    LET n == Len(heard)
        On(f) == FeatureBegin(f) \in input
        earlier == {j \in 1 .. n - 1 : StruckAt(j)}
        interval == heard[n].pitch - heard[Max(earlier)].pitch
        distance == IF interval < 0 THEN -interval ELSE interval
    IN  /\ SOME_NOTE_ON \in Features =>
             (On(SOME_NOTE_ON) <=> \E p \in Pitches : HeldAfter(n, p))
        /\ NOTE_STRUCK \in Features => (On(NOTE_STRUCK) <=> StruckAt(n))
        /\ NOTE_RELEASED \in Features =>
             (On(NOTE_RELEASED) <=>
                heard[n] # NoNote /\ ~StruckAt(n) /\ HeldAfter(n - 1, heard[n].pitch))
        /\ INTERVAL \in Features /\ StruckAt(n) /\ earlier # {} =>
             {i - FeatureBegin(INTERVAL) : i \in {i \in input : i >= FeatureBegin(INTERVAL)
                                                             /\ i < InputFeatureCount}}
               = {distance % 12} \cup {i \in 12 .. 14 : \/ i = 12 /\ interval > 0
                                                        \/ i = 13 /\ interval < 0
                                                        \/ i = 14 /\ distance >= 12}

\* A sequence begins as with a new translator (midi_translator.cpp:185):
\* what reset() keeps of the sequence before is gone after the first update,
\* or, for the last note, after the first update with a note that is struck.
Kept == {"lastPitch", "lastVelocity", "lastInterval"}
ResetForgets ==
  sequence > 0 =>
    /\ \A f \in DOMAIN fresh \ (Kept \cup {"previousTarget"}) : translator[f] = fresh[f]
    /\ updates > 0 /\ Training => translator.previousTarget = fresh.previousTarget
    /\ (\E i \in 1 .. Len(heard) : StruckAt(i)) => translator = fresh

\* A zeroed network has forgotten: what it calculates from then on depends
\* on the sequences presented since and on no other, though zero_network
\* leaves _old_states as they are (lstm_network.cpp:196).
ZeroForgets ==
  \A u \in Units : net.activations[u] \cup net.states[u] \subseteq since

\* A network that puts out what it was trained to put out makes no error
\* (lstm_trainer.cpp:80), so the values that stand for the outputs and the
\* outputs that stand for the values agree: a value that was adjusted is not
\* moved by being adjusted again, and the output that is the target for it
\* means that value.
TargetsReachable ==
  pc # "undefined" =>
    LET values == translator.targetCtrlValues
    IN  /\ Adjusted(translator.minMax, values) = values
        /\ ReportOutput(translator, Target(translator)).outputCtrlValues = values

\* "During validation the network will not be changed at all"
\* (docs/topics.md:298): no weight comes to depend on a validation sequence.
ValidationNotLearned ==
  \A conn \in Connections : net.weights[conn] \cap validations = {}

\* What docs/topics.md:205-206 says: if a note was struck, the velocity feature
\* indicates its velocity, and the velocity of a note that is struck is not 0.
VelocityIndicated ==
  pc = "judge" /\ VELOCITY \in Features /\ StruckAt(Len(heard)) =>
    FeatureBegin(VELOCITY) \in input
=============================================================================

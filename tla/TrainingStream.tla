--------------------------- MODULE TrainingStream ---------------------------
(***************************************************************************)
(* What a network in training hears of the examples: TrainingEventStream,  *)
(* which makes a new stream of events for every pass, and LstmTrainer,     *)
(* which walks along it and decides when the network is updated.           *)
(*                                                                         *)
(* A stream is the examples, each a number of times, in random order, at a *)
(* random tempo; before each there may be a random silence, which begins   *)
(* with an event that puts every controller back to its default.  Random   *)
(* numbers are any of the values they can have.                            *)
(***************************************************************************)
EXTENDS Integers, Sequences, SequencesExt, FiniteSetsExt

CONSTANTS
  Examples,     \* the training examples: sequences of events
  CtrlCount,    \* the number of controllers that have a default value
  Period,       \* _update_period
  Repetitions,  \* the counts reset may be given
  Paddings,     \* the values of _rand_gen.normal, made integers
  Configs,      \* the settings considered
  TempoUnit,    \* multipliers of the tempo are multiples of 1 / TempoUnit
  MaxPasses     \* bound: passes through the examples

Events == [type : {"note", "ctrl"}, time : Nat]
Config == [pads : BOOLEAN, adjusts : BOOLEAN]

ASSUME StreamAssumption ==
  /\ IsFiniteSet(Examples)
  /\ \A e \in Examples :
       e \in Seq(Events) /\ e # <<>> /\ \A i \in 2 .. Len(e) : e[i - 1].time <= e[i].time
  /\ CtrlCount \in Nat \ {0} /\ Period \in Nat \ {0}
  /\ Repetitions \subseteq Nat \ {0}
  /\ Paddings \subseteq Int /\ Configs \subseteq Config /\ MaxPasses \in Nat
  /\ TempoUnit \in Nat \ {0}

VARIABLES
  config,          \* is there a silence before each example, is the tempo adjusted
  pc,              \* the next step
  passes,          \* number of calls of reset
  seqs,            \* the shuffled examples that are not in the stream yet
  stream, streamI,                \* _event_stream, and how many of it were taken
  lastEventTime, nextEventTime,   \* last_event_time, next_event_time of reset
  currentTime, nextUpdateTime,    \* _current_time, _next_update_time
  updates          \* history: [time, heard, note] for every update of the pass

resetVars == <<passes, seqs, stream, lastEventTime, nextEventTime>>
walkVars == <<streamI, currentTime, nextUpdateTime, updates>>
vars == <<config, pc, resetVars, walkVars>>

Init ==
  /\ config \in Configs
  /\ pc = "idle" /\ passes = 0
  /\ seqs = <<>> /\ stream = <<>> /\ streamI = 0
  /\ lastEventTime = 0 /\ nextEventTime = 0
  /\ currentTime = 0 /\ nextUpdateTime = 0 /\ updates = <<>>

-----------------------------------------------------------------------------
(* reset                                                                   *)

\* The examples, each `count` times, in any order.
Shuffled(count) ==
  {s \in [1 .. count * Cardinality(Examples) -> Examples] :
     \A e \in Examples : Cardinality({i \in DOMAIN s : s[i] = e}) = count}

\* run_training_epoch and validate put their times back and call reset.
Reset(count) ==
  /\ pc = "idle" /\ passes < MaxPasses
  /\ passes' = passes + 1
  /\ seqs' \in Shuffled(count)
  /\ stream' = <<>> /\ streamI' = 0
  /\ lastEventTime' = 0 /\ nextEventTime' = 0
  /\ currentTime' = 0 /\ nextUpdateTime' = 0 /\ updates' = <<>>
  /\ pc' = "fill"
  /\ UNCHANGED config

\* The multiplier of an example's tempo, from a half to two, in units.
Tempos ==
  IF config.adjusts THEN (TempoUnit + 1) \div 2 .. 2 * TempoUnit ELSE {TempoUnit}

\* What the tempo, the jitter of an event, which is another such multiplier, and
\* the conversion to an integer can make of a duration.
Adjusted(duration, tempo) ==
  IF config.adjusts
  THEN (duration * tempo) \div (2 * TempoUnit) .. (2 * duration * tempo) \div TempoUnit
  ELSE {duration}

\* adjust_events: the times an example's events can get, the first at 0.
AdjustedTimes(example) ==
  LET duration(i) == example[i].time - example[i - 1].time
      latest == 4 * (Last(example).time - example[1].time)
  IN  {t \in [DOMAIN example -> 0 .. latest] :
         /\ t[1] = 0
         /\ \A i, j \in DOMAIN example : i <= j => t[i] <= t[j]
         /\ \E tempo \in Tempos : \A i \in 2 .. Len(example) :
              t[i] - t[i - 1] \in Adjusted(duration(i), tempo)}

\* Slip: a silence may be of no length, or end before it began.
SilencesUnchecked == Paddings

Silences == {IF padding <= 0 THEN 1 ELSE padding : padding \in Paddings}

\* The events that put the controllers back: the first comes when the next event
\* is due, the others just after the last event before it.
PaddingEvents ==
  [k \in 1 .. CtrlCount |->
     [type |-> "ctrl", example |-> 0,
      time |-> IF k = 1 THEN nextEventTime ELSE lastEventTime + k]]

\* What goes before an example, and the times at which it can begin.
Lead == IF config.pads THEN PaddingEvents ELSE <<>>

Starts ==
  IF config.pads THEN {lastEventTime + CtrlCount + silence : silence \in Silences}
  ELSE {nextEventTime}

\* A turn of the loop over the examples.
AddSequence ==
  /\ pc = "fill" /\ seqs # <<>>
  /\ \E start \in Starts, t \in AdjustedTimes(Head(seqs)) :
       LET played == [i \in DOMAIN Head(seqs) |->
                        [type |-> Head(seqs)[i].type, example |-> Len(seqs), time |-> start + t[i]]]
       IN  /\ stream' = stream \o Lead \o played
           /\ lastEventTime' = start + Last(t)
           /\ nextEventTime' = lastEventTime' + Period
  /\ seqs' = Tail(seqs)
  /\ UNCHANGED <<config, pc, passes, walkVars>>

Filled ==
  /\ pc = "fill" /\ seqs = <<>>
  /\ pc' = "next"
  /\ UNCHANGED <<config, resetVars, walkVars>>

-----------------------------------------------------------------------------
(* advance_stream_until_update_time                                        *)

HasNext == streamI < Len(stream)
NextEvent == stream[streamI + 1]

\* while( has_next() && !reset ): the pass may be given up after any update.
Continue ==
  /\ pc = "next" /\ HasNext
  /\ pc' = "advance"
  /\ UNCHANGED <<config, resetVars, walkVars>>

Finish ==
  /\ pc = "next" /\ (HasNext => updates # <<>>)
  /\ pc' = "idle"
  /\ UNCHANGED <<config, resetVars, walkVars>>

\* Slip: a note is not looked at from the point of view of the clock.
DueNoteAlways == NextEvent.time <= nextUpdateTime \/ NextEvent.type = "note"

\* Slip: what comes at the time of the update is left to the next one.
DueStrictly == NextEvent.time < nextUpdateTime

Due == NextEvent.time <= nextUpdateTime

\* The network is passed through at `time`, having heard the first `heard` events.
UpdateNetwork(time, heard, note) ==
  /\ updates' = Append(updates, [time |-> time, heard |-> heard, note |-> note])
  /\ pc' = "next"

\* Nothing happens before the next update.
PeriodicUpdate ==
  /\ pc = "advance" /\ ~Due
  /\ currentTime' = nextUpdateTime
  /\ nextUpdateTime' = nextUpdateTime + Period
  /\ UpdateNetwork(nextUpdateTime, streamI, FALSE)
  /\ UNCHANGED <<config, resetVars, streamI>>

\* Slip: a note waits for the next update, as a controller change does.
PresentNoteLater ==
  /\ pc = "advance" /\ Due /\ NextEvent.type = "note"
  /\ streamI' = streamI + 1
  /\ pc' = IF streamI' < Len(stream) THEN "advance" ELSE "next"
  /\ UNCHANGED <<config, resetVars, currentTime, nextUpdateTime, updates>>

\* A note is presented at once, and puts the next update off.
PresentNote ==
  /\ pc = "advance" /\ Due /\ NextEvent.type = "note"
  /\ streamI' = streamI + 1
  /\ currentTime' = NextEvent.time
  /\ nextUpdateTime' = NextEvent.time + Period
  /\ UpdateNetwork(NextEvent.time, streamI + 1, TRUE)
  /\ UNCHANGED <<config, resetVars>>

\* Slip: the end of the stream is left to the next turn of the loop.
ApplyCtrlOn ==
  /\ pc = "advance" /\ Due /\ NextEvent.type = "ctrl"
  /\ streamI' = streamI + 1
  /\ UNCHANGED <<config, pc, resetVars, currentTime, nextUpdateTime, updates>>

\* Slip: the event is looked at and not taken.
ApplyCtrlPeeked ==
  /\ pc = "advance" /\ Due /\ NextEvent.type = "ctrl"
  /\ UNCHANGED vars

\* A controller change sets the target of the updates to come; if it is the last
\* event, the network is updated for it, at no new time.
ApplyCtrl ==
  /\ pc = "advance" /\ Due /\ NextEvent.type = "ctrl"
  /\ streamI' = streamI + 1
  /\ IF streamI' < Len(stream)
     THEN UNCHANGED <<pc, updates>>
     ELSE UpdateNetwork(currentTime, streamI', FALSE)
  /\ UNCHANGED <<config, resetVars, currentTime, nextUpdateTime>>

Walk == Continue \/ Finish \/ PeriodicUpdate \/ PresentNote \/ ApplyCtrl

Stopped == pc = "idle" /\ passes = MaxPasses /\ UNCHANGED vars

Next == (\E count \in Repetitions : Reset(count)) \/ AddSequence \/ Filled \/ Walk \/ Stopped

Spec == Init /\ [][Next]_vars /\ WF_vars(AddSequence \/ Filled \/ Walk)

-----------------------------------------------------------------------------
(* Properties.                                                             *)

StreamEvent == [type : {"note", "ctrl"}, example : Nat, time : Int]

\* The variables have their types, and the walk never reads past the stream.
TypeOK ==
  /\ config \in Configs
  /\ pc \in {"idle", "fill", "next", "advance"}
  /\ passes \in 0 .. MaxPasses
  /\ seqs \in Seq(Examples) /\ stream \in Seq(StreamEvent)
  /\ streamI \in 0 .. Len(stream)
  /\ {lastEventTime, nextEventTime, currentTime, nextUpdateTime} \subseteq Nat
  /\ updates \in Seq([time : Nat, heard : Nat, note : BOOLEAN])
  /\ pc = "advance" => HasNext

\* An example is never mixed with the one before it, nor with what the last pass
\* left: its events come in their order, each of them later than every event of
\* the examples before it, however short the silence between them.
ExamplesApart ==
  \A i, j \in DOMAIN stream :
    i < j /\ stream[i].example > 0 /\ stream[j].example > 0 =>
      /\ stream[i].example >= stream[j].example
      /\ IF stream[i].example = stream[j].example
         THEN stream[i].time <= stream[j].time ELSE stream[i].time < stream[j].time

\* Updates are never further apart than the update period, whatever the stream
\* does, so that training is not coarser than performing.
UpdatesWithinPeriod ==
  \A i \in 1 .. Len(updates) - 1 : updates[i + 1].time <= updates[i].time + Period

\* Every note heard was heard by an update of its own, at its time.
NotesPresentedAtOnce ==
  pc \in {"next", "advance"} =>
    \A i \in 1 .. streamI :
      stream[i].type = "note" =>
        \E u \in Range(updates) : u.note /\ u.heard = i /\ u.time = stream[i].time

\* Without silences, an update between notes knows of every controller change that
\* is due by then, and of none that is not.
TargetsUpToDate ==
  ~config.pads =>
    \A u \in Range(updates) :
      ~u.note /\ u.heard < Len(stream) =>
        \A i \in DOMAIN stream : i <= u.heard <=> stream[i].time <= u.time

\* A pass through the examples comes to an end.
PassesEnd == pc # "idle" ~> pc = "idle"
=============================================================================

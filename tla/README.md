# Verification of Larasynth

Larasynth learns, from examples, how a musician moves the continuous
controllers of a synthesizer while playing notes, and then moves them live. It
is one program, `lara`, with the commands `config`, `record`, `import`, `train`
and `perform` on a project directory. This directory holds TLA+ models of its
concurrent and long-running parts, of what its translator and its network
remember, and of the processes that share a project, with their TLC
configurations and TLAPS proofs.

## The system

| component | source (`src/src/`) | state | operations | interacts with |
|---|---|---|---|---|
| SPSC queue | `readerwriterqueue/readerwriterqueue.h` | circular list of ring buffers; front indexes owned by the consumer, tail indexes by the producer | enqueue, try_enqueue, try_dequeue, peek | one producer and one consumer thread, no lock |
| event transport | `readerwriterqueue_lock_free_queue.hpp`, `event_queue.*`, `event_pool.*`, `rtmidi_client.*` | the input queue and the pool of `Event`s | input_callback, has/get/return_input_event, destructor | RtMidi's thread fills the queue from the pool, the main thread the pool from the queue |
| Performer | `performer.cpp` | notes to play, messages to forward, current and new controller values, next update time | the polling loop | transport, translator, network, clock, SIGINT flag |
| Recorder | `recorder.cpp`, `write_training_example.cpp` | events kept | the polling loop, writing | transport, SIGINT flag, file system |
| Trainer | `trainer.cpp`, `lstm_trainer.cpp`, `training_results.cpp` | epoch, streaks, failures, best result and weights | epoch, validation, saving | stream, translator, network, SIGINT flag |
| training event stream | `training_event_stream.cpp` | the shuffled, padded sequence of an epoch | reset, get_next | Trainer |
| MIDI translator | `midi_translator.cpp`, `midi_min_max.cpp` | velocities of the held notes, last event, previous output and target | report_note_event, fill_input, report_output, reset | Performer, Trainer |
| LSTM network | `littlelstm/` | unit states, traces, weights | feed_forward, backpropagate, zero_network | Performer, Trainer |
| project directory | `config_directory.cpp`, `training_results.cpp` | the files of a project | process_directory, new file names, write | every command, and other `lara` processes |
| configuration | `lexer.cpp`, `tokens.cpp`, `config_parser.cpp`, `*_config.cpp` | tokens, sections, parameters | parse, set_var | every command |
| MIDI files, prompt, entry point | `midi_file_reader.cpp`, `training_sequence_parser.cpp`, `interactive_prompt.cpp`, `lara.cpp` | | | |

What is hard about it: two threads share two lock-free queues, one in each
direction, through which pointers to recycled memory travel; the main thread
polls and is interrupted by SIGINT anywhere; notes, controllers and other
messages must come out in the right order and at the right times; and training
is a long sequence of counters, chances and comparisons that decides when to
validate, to give up, to stop, and what to keep. The translator and the network
carry state from one sequence to the next, some of it on purpose; and several
commands may work in one directory with no lock. `PROJECT.json` lists these
hazards at their lines with the properties that would catch them.

What makes each part correct: the SPSC queue is a FIFO whose threads never touch
the same slot; every `Event` has one owner at any time; a performance delivers
each message once, in order, after the controllers calculated for it; a
recording has everything that was played, in order; a training saves the best
network it validated and stops when it should; the translator's features and
targets mean what they are documented to, whatever it was left with; a file of
the project that was once whole is neither lost nor changed, unless another of
the same kind was given the same name.

## The modules

* `Fifo` is the abstract specification of a queue used by one producer and one
  consumer: an operation has a call and an effect, an enqueue may fail only if
  the queue was at its capacity at the call, and a peek or a dequeue may find
  nothing only if it was empty at the call.
* `SpscQueue` is `ReaderWriterQueue`, one action per access to memory the other
  thread may touch (`ReadFront`, `WriteElement`, `PublishTail`, `TailFull`, ...
  for `inner_enqueue`; `ReadTail`, `ReadTailBlock`, `RecheckTail`, ... for
  `try_dequeue` and `peek`). A pointer to a block is its index in `blocks`. The
  fences order the accesses as the code does, so an interleaving of these
  accesses is what the hardware may do. `ImplementsFifo` is the refinement: an
  enqueue takes effect when `tail` (or `tailBlock`) moves, a dequeue when `front`
  does.
* `EventTransport` is the pool and the input queue, composed as FIFOs, with the
  callback of RtMidi's thread and the operations the main thread calls on its
  `RtMidiClient`, down to the destructors. Messages are numbered as they arrive,
  and an `Event` holds the number of the message it carries: that is enough to
  tell a lost, repeated, overtaken or overwritten message. `empty()` followed by
  `front_pop()` is one step here; that it may be is what `PeekPromises` of
  `SpscQueue` says. It declares no specification of its own.
* `Performer` EXTENDS it with `lara perform`: `pc` is the place in the loop and
  each action a stretch of it between two interactions with the queue, the
  output or the clock. The translator and the recurrent network are one choice of
  controller values (`PassNetwork`), over the controllers the results file has.
  The clock is read twice for a timed update (`performer.cpp:98` and `102`) and the
  values are sent after that: `TimeIsUp`, `PutOff` and `TimedUpdate`. What
  `UpdateSpacing` spaces are the readings of the clock, not the moments at which
  the values reach the synthesizer.
* `Recorder` EXTENDS it with `lara record`.
* `Trainer` is `lara train`: an `Update` is one turn of the loop of
  `run_training_epoch` (count, maybe train, maybe abandon), then `Validate` or
  `SkipValidation`, then the end. The error of an update and the MSE of a
  validation are any values; weights are numbered by the call of backpropagate
  that made them; a probability stands for the set of outcomes it leaves possible.
* `TrainingStream` is what an epoch or a validation hears. `Reset`, `AddSequence`
  and `Filled` make the stream (the shuffle, a tempo, the silences, each any of
  its values), `PeriodicUpdate`, `PresentNote` and `ApplyCtrl` are the three
  branches of `advance_stream_until_update_time` with the pass through the network
  that follows. Events are kinds and times. `Trainer` does not use it: there the
  updates of an epoch are any number up to a bound.
* `MidiTranslator` is the translator as a record, with its methods as operators
  from the record before to the record after. Every number in an input or a
  target is 0 or 1, so a vector is the set of its places that hold a 1.
  `Constructible` says which configurations its constructor reads past no end of a
  vector with.
* `LstmArchitecture` and `LstmNetwork` are the network. Of its numbers there is
  what they were calculated from: a state, an activation, a trace, a
  responsibility or a weight is the set of sequences it depends on, and the order
  of the calculations, the swap of the old states and what is zeroed are the
  code's. That is enough to tell what is forgotten and what is not.
* `Learner` composes them as `LstmTrainer` does: an `Update` is
  `advance_stream_until_update_time` up to a note or the time, and
  `feed_forward_next`; `Learn` or `Assess` the rest of the loop; `StartEpoch` and
  `StartValidation` the resets. `Trainer` and `TrainingStream` have the counters
  and the times it leaves out. A translator that cannot be constructed, and a change
  of a controller the configuration lacks (`StrayChange`), make the program
  "undefined": it stops there, and nothing is claimed of it any more.
* `Project` has the commands as processes that share a directory, one file system
  call a step (`List` reads a directory, `Write` puts a part of a file on the
  disk), each of which may be killed or fail to write. A file is named after the
  local time (`time_utilities.hpp:61`), which is any timestamp here, whatever others
  were given (`TakeTimestamp`): it repeats when the clock is set back, when summer
  time ends, and within a microsecond. So a file may have several writers; what two
  have written over each other may parse or not. The project is empty at first:
  that a project with examples whose `training_results/` was removed by hand would
  race too (`FreshDirectoryRace`) is outside the model.
* `MC...` give the constants. `SpscProofs`, `TransportProofs`,
  `PerformerProofs`, `RecorderProofs`, `TrainerProofs`,
  `TrainingStreamProofs`, `LearnerProofs` and `ProjectProofs` hold the proofs.

Operators marked *Slip* are mistakes one could make in the code (a missing
second look, a counter not reset). They are in no next-state relation; put in
place of the definition that follows them, each makes a property below fail,
which shows that the property depends on that code.

## What the runs check

| run | bounds | shows |
|---|---|---|
| `spsc` | two queues (capacity 1, growing by larger blocks; capacity 4 in blocks of 2 slots), 7 enqueues of either kind, any number of dequeues and peeks, malloc fails beyond 6 blocks | it is a FIFO; its three assertions on neighbouring blocks hold; the threads never access one slot together; an element peeked is the next dequeued; no allocation before `maxSize` elements |
| `performer` | 3 messages of any kind, 2 Events, capacity 1, two controllers of which the network drives one, clock 0..2, interrupt anywhere | every Event has one owner; messages of a kind go out once, in order; controllers precede the notes; updates are spaced; nothing is left at exit; queued notes are played and ctrl-c ends the program |
| `recorder` | 3 messages of any kind, 4 Events, capacity 2 | ownership; the file has what came, in order; only foreign controllers leak; ctrl-c ends the program |
| `trainer` | 2 epochs of up to 3 updates, errors {0, 1, 4}, MSEs {0, 1, 2}, four configurations | the saved weights are the best validated; validation, abandoning and stopping happen when documented; training ends |
| `learner` | three controllers (3, 2 and 1 outputs; ranges wide, narrower than the outputs, and empty, one of them for which the translator cannot be constructed), a change of a fourth, three note events, one controller value, two sequences of two updates, a network of two hidden layers of a block | features but the velocity mean what is documented; resetting and zeroing forget; targets can be reached; vectors are read past their end in the cases `TypeOK` names only |
| `project` | a recording, two trainings and a performance, two timestamps that any of them may be given, from an empty directory | what was whole is read; results that were there when a training was over survive it, whatever its name; what is performed is whole, unless two trainings have its name; only fresh directories race |
| `training_stream` | two examples of three events, both orders, tempo multipliers of a half to two in sixths, silences drawn from {-4, 0, 1, 4}, two controllers, update period 3, two passes | examples keep apart; no update is late; each note is presented at once; targets are up to date; a pass ends |

The bounds are enough for the interesting cases. 7 enqueues fill the single
block, make a second and a third one, and go round all the blocks of the other
queue. The pool starts with capacity / 2 Events (`event_pool.cpp:27`), so 3 messages make
the callback allocate, overflow the input queue and overflow the pool when they
are given back, and with two Events the third message is carried by a recycled
one. Two ticks make a timed update come before, between and after
notes. Three updates are one more than the row of failures that abandons a
sequence, and two epochs let the best validation be the first or the last. The
examples of `training_stream` put a controller change between two updates, at
the time of a note and at the end of the stream; with two controllers the second
event of a silence is stamped before the first; the silences are negative, none,
shorter and longer than the update period; the second pass shows what the first
leaves behind. The tempo and the jitter of each event are drawn from the real
numbers from a half to two, and `adjust_events` cuts the product of a duration with
both to an integer (`Adjusted`). The durations of these examples are 1 and 3, for
which what can come of it changes at sixths of the tempo only (`TempoUnit`). In `learner` two sequences show what one leaves to the next, two
updates a repetition and an interval; the two hidden layers have every kind of
connection. In `project` one command of each kind and a second training are enough
to see every pair interfere, two timestamps to see them have one name or two; two
recordings of one name, and one that hears nothing, are in `ProjectProofs`, which
has the same properties for any number of commands.

Five more runs end in a violation, each of one statement of the documentation
or of the code's purpose:

* `performer_own_controls`: notes drained together are all played with the values
  calculated for the last of them (`performer.cpp:73`), not each with its own
  (`docs/topics.md:182-184`).
* `trainer_max_epochs`: `max_epoch_count + 1` epochs are run (`trainer.cpp:117`).
* `trainer_best_saved`: a training that ends before its first validation has no
  result, and `add_result` reads the first element of an empty vector
  (`training_results.cpp:291`).
* `learner_validation`: weights come to depend on validation sequences
  (`docs/topics.md:298-299`), through the traces `zero_network` leaves
  (`lstm_network.cpp:196`) and the previous target `reset` leaves
  (`midi_translator.cpp:185`), even if the network is zeroed before every epoch.
* `learner_velocity`: the velocity feature is 0 for every velocity below 127
  (`midi_translator.cpp:281` divides integers), where `docs/topics.md:205-206` says
  that it indicates the velocity. `FeaturesTrue` is about the other features.

In three more places the code and the documentation disagree, and the models and
the properties that the runs check have what the code does:

* a message that is neither a note on nor a note off, nor a change of a controller
  the network drives, is sent on (`performer.cpp:79-84`), so `MessagesDelivered`
  requires it; `docs/topics.md:449-450` says that all but notes are dropped;
* controller changes before the first note are saved (`recorder.cpp:57`), so
  `RecordedInOrder` requires them; `docs/topics.md:126-127` says that nothing is
  saved before the first note;
* past results may be overwritten, though `docs/topics.md:414-415` says never: of two
  trainings that were given the same timestamp and are over together, each finds no
  file of its name (`training_results.cpp:420`), and the second to open it empties
  what the first has saved. `PastKept` says that there is no other case.

Some oddities are facts of the models rather than findings, for no document says
otherwise: an Event whose push fails leaks (`leaked`; only when memory runs out),
as does one that carries a controller change `record()` is not configured for
(`dropped`); after a silence shorter than the update period an example begins no
later than the event that begins the silence (`training_event_stream.cpp:136`),
which `UpdatesWithinPeriod` and `NotesPresentedAtOnce` survive; one empty recording
ends every training (`training_event_stream.cpp:72`), and one unfinished results
file every performance that shows the menu (`training_results.cpp:52`); a first
controller value of 0 is never sent, for a value that was never set reads as 0
(`performer.cpp:171`), which `ControlsPrecedeNotes` exempts; a controller
no example moves is set to 127, the minimum it starts with; a forget gate gates no
connection between two units, so its gated set is empty and it is never corrected
for what it gates (`lstm_network.cpp:137`), and of the two gates of a connection
from a cell to a cell of the next layer only the later is kept
(`lstm_network.cpp:134`).

### Fairness

`Performer` has a specification without fairness, which the proofs are about, and
`FairSpec`, under which the run checks all its properties. Fairness is weak, and only of the main thread (the
operating system runs it) and of the end of a callback already begun (so that the
thread can be joined). No message, tick or interrupt is ever required to come.
The main loop drains the queue before it tests the flag, so a stream of messages
that never pauses would hold `ShutdownCompletes` off: the bound on the messages
is what rules that out, and it is the real condition. In `Trainer` only the
program itself is fair, and `TrainingEnds` asks for an end only with ctrl-c or a
maximum number of epochs. Its bound `MaxEpochs` stops a training that has
neither; all its configurations with a maximum stay below it. In
`TrainingStream` the steps of a pass are fair, and no pass is required to begin.
`Learner` and `Project` claim no liveness and state no fairness; their runs do not
check for deadlock, for a training or a command may end anywhere.

## What is proved

Each proof module EXTENDS a specification and proves its properties for every
value of its constants, within the bounds the specification has on the length of
a behaviour (`MaxArrivals`, `MaxTime`, `MaxEpochs`, ..., which are constants too).
Every invariant is proved the same way: `Init => Inv`, a lemma per action (or per
conjunct) for `Inv /\ [Next]_vars => Inv'`, and `Inv` implies the property. The
assumptions are the ASSUMEs of the modules: kinds of messages are those the loops
tell apart, capacities and periods are positive, configurations are within the
ranges the parser accepts, `Recorders` and `Trainers` are different processes. Of
the timestamps nothing is assumed. `TranslatorAssumption` is what the configuration
accepts (counts of 1 or more, for any controllers; a default of 0 to 127 for each
controller, tested in `config_parameter.cpp:179`), except that a counted controller
has a default (see below).
`CeilAssumption` of `SpscQueue` is a fact of arithmetic, that 2^x is a number and
no smaller than x: the exponents of TLA+ are beyond the provers' arithmetic and it
needs induction, so TLC evaluates it for the constructions of its run and the
proofs assume it. That `CeilToPow2` gives a power of two that is large enough is
proved from it (`CeilIs`).

| module | theorem | property | what the invariant adds, and why |
|---|---|---|---|
| `SpscProofs` | `TypeCorrect` | `TypeOK` | a ring has two slots at least |
| | `AssertionsTrue` | `AssertionsHold` | `Chained`: some blocks, from the front one on to the tail one, are in use; all of them but the front one hold elements, and the others none but the one about to be published. It is a set of blocks (its order is that of `next`, one to one by `Linked`), so that no induction along the list is needed |
| | `SlotsApart` | `NoSlotRace` | `Rings`: going round, the producer's copy of front is no further than front, which is no further than the consumer's copy of tail, which is no further than tail; so an outdated copy only underrates the room or the elements |
| | `PeekIsKept` | `PeekPromises` | `Promised`: the element found stays the first, in the front block or, if that is empty and not the tail block, in the next |
| | `QueueIsFifo` | `ImplementsFifo` | `OneCycle`: `next` leads from each block round to all the others; `Holding`: what a thread is about to publish or return is in its slot; `Answering`: who was called when there were elements is not on its way to say there are none |
| | `NoneAllocatedEarly` | `NoEarlyAllocation` | `Filled`: the producer only leaves full blocks behind; `Sized`: no block is smaller and there are no fewer than the constructor made; `Refused`: a producer that finds no room was called when there was none |
| `TransportProofs` | (lemmas) | | sequences without repetitions, and what each operation of the transport does to types, places and numbers |
| `PerformerProofs` | `TypeCorrect` | `TypeOK` | it also says that no loop takes from an empty hand or vector, without which a step keeps no type |
| | `EveryEventAccountedFor` | `EventsAccountedFor` | `Owned`, the same statement with its seven places written out: a step moves an Event from one place to another |
| | `AllDeletedAtExit` | `NothingLeftAtExit` | `AtRest`: the vectors are empty when the loop is left, the callback's hand once it is disconnected |
| | `UpdatesSpaced` | `UpdateSpacing` | `Spaced`: while notes are handled the next update is not yet put off, but will be before the time is tested |
| | `AllDelivered` | `MessagesDelivered` | `Lines`: what was sent, then what waits in the vector, then what the queue, the loop and the callback hold is increasing, and each message of the kind is in one of these or leaked. The property speaks of the ends of this line only |
| | `ControlsFirst` | `ControlsPrecedeNotes` | `Controls`: the synthesizer has the values last set, these are the network's latest while notes are played, and no waiting note is newer than they are |
| `RecorderProofs` | `TypeCorrect` | `TypeOK` | |
| | `EveryEventAccountedFor` | `EventsAccountedFor` | `Owned` |
| | `OnlyForeignLeak` | `OnlyForeignControllersLeak` | `Numbered` (an Event dropped carries a foreign controller) and `AtRest` |
| | `FileIsComplete` | `RecordedInOrder` | `Ordered` and `Complete` before the file is written, `Filed` while the Events written are given back and may be refilled |
| `TrainerProofs` | `TypeCorrect` | `TypeOK` | |
| | `BestIsSaved` | `SavedIsBest` | `BestInv`: best is the first lowest of the validations so far, which the property says of the end only |
| | `StopsOnlyForAReason` | `StopsForAReason` | it is inductive with the types |
| | `AbandonedOnlyWhenHopeless` | `AbandonedWhenHopeless` | `FailuresInv`: the counter is the length of the run of failures the sequence ends with |
| | `ValidatedExactlyWhenDue` | `ValidatedWhenDue` | `StreakInv`, the same of the streak, and `LongestInv`: `maxStreak` is the longest run of all epochs, and the flag says whether this epoch's is longer than all before. The lemmas on runs say what one more prediction does to the longest |
| `TrainingStreamProofs` | `TypeCorrect` | `TypeOK` | with silences the stream may go back in time but not below 0 |
| | `NeverMixed` | `ExamplesApart` | `StreamInv`: all that is in the stream is no later than `lastEventTime` and of later examples |
| | `NeverCoarser` | `UpdatesWithinPeriod` | `ClockInv`: the clock is at the last update, the next within a period of it |
| | `NotesHeard` | `NotesPresentedAtOnce` | `HeardInv`, which says it of what was taken off the stream, in every place |
| | `TargetsOfTheTime` | `TargetsUpToDate` | `HeardInv`: without silences nothing was taken that is later than the next update |
| `LearnerProofs` | `TypeCorrect` | `TypeOK` | `Built` and `Unbuilt`: it is decided at the start whether the translator could be constructed, and if it could, a controller of one output has a range without values inside it (`Usable`), for which the one output is right. That the places of a vector are its own rests on `Places`: the partial sums of the sizes do not overlap and end with the total |
| | `TargetsAreReachable` | `TargetsReachable` | `AdjustedIn`: the defaults and the targets are values that adjusting does not move. That it leaves what it gives is arithmetic (`RoundTrip`): where the spaced values are less than 1 apart, the value of an output is nearest to one whose value is the same; a single output has but one value |
| | `ResetsForget` | `ResetForgets` | `Forgetting`: the translator and the fresh one are alike but for the last pitch, velocity and previous target, until these are replaced; an interval is asked for of both or of neither |
| | `FeaturesAreTrue` | `FeaturesTrue` | `Remembering`: the velocities are those of the keys held by the events so far, the last pitch that of the last key struck, if an interval is asked for |
| | `ZeroedForgets` | `ZeroForgets` | `Forgotten`: the states too depend on what is since only, and those of the input and of the bias, which are never calculated, on nothing. Through a step (`Within`): unit by unit, the states calculated so far, and the old ones |
| `ProjectProofs` | `TypeCorrect` | `TypeOK` | (not a property of the run, for want of anything to say there) |
| | `RaceOnlyWhenFresh` | `FreshDirectoryRace` | `DirsInv`: no file is there without both directories |
| | `PastIsKept` | `PastKept` | `NamesInv`: a file is written by those of its name that have opened it, and one that a single command wrote has all that it has written; `PastInv`: the results that were whole when a training was over still are, and if they have its name it goes no further than its test |
| | `SavedIsRead` | `ReadsWhatWasSaved` | `ReadInv`: what was whole at the beginning is in the listing, and still is, or two writers have its name |
| | `WholeIsPerformed` | `PerformsWholeResults` | `PerformInv`: what was read whole is still the same, or two trainings have its name |

The model's operators on sets and sequences (`MapThenSumSet`, `FoldLeft`) are
recursive functions, and the library's induction theorems take an operator. What
such a function gives is proved by hand here: `LeastNumber` (from the
well-foundedness of `<`), induction on a SET of numbers from it, and that the
function exists, by induction on the size of its argument (`SumExists`,
`FeedingExists`).

The refinement goes the same way, step by step: each action of `SpscQueue` is one
of `Fifo` (`EnqueueCall` or `EnqueueReturn`; `ConsumerCall`, `FindNothing`, `Peek`
or `Dequeue`), or leaves the variables of `Fifo` alone (`ProducerSimulates`,
`ConsumerSimulates`).
`Contents` is a recursive function along the list of blocks. Along a cycle of
blocks such a function exists and is unique (`PathExists`, `PathUnique`), and a
property that passes from a block to the one before it holds of all of them
(`PathInduction`). The lemmas on paths say what a step makes of the elements from
any block on: they stay, get one at the end, lose the first; those on rings say the
same of the slots of one block. For the promise of the constructor the elements
are counted: going round from the front block to the tail block, a path that meets
k blocks with m elements or more each is k * m long at least (`LongPath`); when no
block is free, all of the blocks are met, and all but the front one are full
(`FullRound`); and the blocks the constructor makes are as many as that takes
(`InitialRoom`).

Only model-checked: every liveness property (liveness and ENABLED are out of the
prover's reach). Every safety property of a passing run is a theorem. No module
uses a RECURSIVE operator.

## What is not modelled

* The configuration language, the MIDI file reader and the parser of examples:
  sequential conversions of text and bytes, without state that outlives a call or
  is shared, whose cases unit tests reach. What `Project` needs of them (a partial
  example is accepted or refused) and `Trainer` (the ranges of the parameters) is
  there.
* `lara config`, the menus and the opening of ports: terminal I/O.
* The values of the network's numbers: floating-point arithmetic, where training
  converges or not, is out of reach; `Trainer` takes any error and any MSE, and
  `LstmNetwork` follows dependencies instead of values.
* The layout of the JSON results: a serialisation without a state of its own.
* What the program does after it has read past the end of a vector: with an output
  count of 1 for a range with values inside it (`midi_translator.cpp:202`), a
  controller without an output count, or a change of a controller that is not
  configured (`midi_translator.cpp:89`), it is "undefined". A controller with an
  output count and without a default is left out by `TranslatorAssumption`: the
  first update ends the program (`lstm_trainer.cpp:88`).
* The destructor of the SPSC queue frees blocks; it runs when both threads are
  done. Its `pop` and its moving overloads are not called.
* RtMidi: that one thread runs the callback and is joined by the destructor of the
  input is assumed. `EventLogger` is used by no command.
* The vendored `json` (twice), `midifile`, `rtmidi` and `gtest`: they are nine
  tenths of the lines below `src/`, which is why the models map a small part of
  the whole, and about a fifth of what is Larasynth's own.

What could still be done: `TrainingStream` composed with `Learner`, so that the events of a sequence
are those of the examples; the state machine of `ConfigParser`.

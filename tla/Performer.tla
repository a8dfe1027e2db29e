----------------------------- MODULE Performer ------------------------------
(***************************************************************************)
(* `lara perform`: the main loop of Performer, fed by RtMidi's thread      *)
(* through module EventTransport and interrupted by SIGINT.                *)
(*                                                                         *)
(* Each turn of the loop drains the input queue, passes every note through *)
(* the network, sends the controller values that changed, plays the notes, *)
(* forwards the other messages, and, if no note came for a whole update    *)
(* period, passes the network once more.                                   *)
(*                                                                         *)
(* The network is recurrent and its weights are learned: a pass may give   *)
(* every controller any value.  Only the controllers of the results file   *)
(* (NetCtrls) get one; those of the configuration (Ctrls) are sent.        *)
(***************************************************************************)
EXTENDS EventTransport

CONSTANTS
  Ctrls,      \* the controllers of larasynth.conf (_ctrls)
  NetCtrls,   \* the controllers the trained network has outputs for
  Vals,       \* controller values
  NeverSent,  \* what the synthesizer knows of a controller before it is told
  Period,     \* the update interval
  MaxTime     \* bound: the clock stops here

ASSUME PerformerAssumption ==
  /\ Kinds = {"note", "controlled", "other"}
  /\ Vals \subseteq Nat /\ 0 \in Vals /\ NeverSent \notin Vals
  /\ Period \in Nat \ {0} /\ MaxTime \in Nat

VARIABLES
  pc,               \* the next step of the main thread
  event,            \* the Event it has taken off the input queue, or NoEvent
  notes, forward,   \* notes_to_play, events_to_forward
  current, new,     \* current_ctrl_vals, new_ctrl_vals (absent keys read as 0)
  nextUpdate, now,  \* next_update_time, the steady clock
  shutdown,         \* *_shutdown_flag
  synth,            \* the last value sent to the synthesizer for each controller
  played, forwarded,  \* history: the numbers of the messages sent
  newAfter,         \* history: the last note the network had heard when it gave `new`
  lastUpdate        \* history: when a note, or the time, last led to a pass

outputVars == <<synth, played, forwarded>>
ctrlVars == <<current, new, newAfter>>
timeVars == <<nextUpdate, lastUpdate>>
mainVars == <<pc, event, notes, forward, ctrlVars, timeVars, outputVars>>
vars == <<transportVars, mainVars, now, shutdown>>

CtrlValues == [Ctrls -> Vals]

Init ==
  /\ TransportInit
  /\ pc = "head" /\ event = NoEvent /\ notes = <<>> /\ forward = <<>>
  /\ current = [c \in Ctrls |-> 0] /\ new = current
  /\ nextUpdate = 0 /\ now = 0 /\ shutdown = FALSE
  /\ synth = [c \in Ctrls |-> NeverSent]
  /\ played = <<>> /\ forwarded = <<>>
  /\ newAfter = 0 /\ lastUpdate = 0

-----------------------------------------------------------------------------
(* Parts of the main loop.                                                 *)

\* fill_input, feed_forward, report_output: `heard` is the last note reported.
PassNetwork(heard) ==
  /\ \E out \in CtrlValues :
       /\ \A c \in Ctrls \ NetCtrls : out[c] = 0
       /\ new' = out
  /\ newAfter' = heard

\* set_ctrls: a message for every controller whose value differs from the last.
SetCtrls(values) ==
  /\ synth' = [c \in Ctrls |-> IF values[c] # current[c] THEN values[c] ELSE synth[c]]
  /\ current' = values

-----------------------------------------------------------------------------
(* The main loop.                                                          *)

\* Slip: the flag is not volatile and is read once.
LoopTestCached ==
  /\ pc = "head" /\ pc' = "drain"
  /\ UNCHANGED <<transportVars, event, notes, forward, ctrlVars, timeVars, outputVars,
                 now, shutdown>>

\* while( !*_shutdown_flag )
LoopTest ==
  /\ pc = "head"
  /\ pc' = IF shutdown THEN "disconnect" ELSE "drain"
  /\ UNCHANGED <<transportVars, event, notes, forward, ctrlVars, timeVars, outputVars,
                 now, shutdown>>

TakeInput ==
  /\ pc = "drain" /\ HasInputEvent
  /\ GetInputEvent
  /\ event' = Head(input)
  /\ pc' = "handle"
  /\ UNCHANGED <<notes, forward, ctrlVars, timeVars, outputVars, now, shutdown>>

\* Slip: the Event goes back to the pool although it is still to be played.
HandleNoteReturned ==
  /\ pc = "handle" /\ Message(event) = "note"
  /\ notes' = Append(notes, event)
  /\ PassNetwork(msg[event]) /\ lastUpdate' = now
  /\ ReturnInputEvent(event)
  /\ event' = NoEvent /\ pc' = "drain"
  /\ UNCHANGED <<forward, current, nextUpdate, outputVars, now, shutdown>>

HandleNote ==
  /\ pc = "handle" /\ Message(event) = "note"
  /\ notes' = Append(notes, event)
  /\ PassNetwork(msg[event]) /\ lastUpdate' = now
  /\ event' = NoEvent /\ pc' = "drain"
  /\ UNCHANGED <<transportVars, forward, current, nextUpdate, outputVars, now, shutdown>>

HandleOther ==
  /\ pc = "handle" /\ Message(event) = "other"
  /\ forward' = Append(forward, event)
  /\ event' = NoEvent /\ pc' = "drain"
  /\ UNCHANGED <<transportVars, notes, ctrlVars, timeVars, outputVars, now, shutdown>>

\* Slip: the Event dropped is not given back.
HandleControlledLeaked ==
  /\ pc = "handle" /\ Message(event) = "controlled"
  /\ event' = NoEvent /\ pc' = "drain"
  /\ UNCHANGED <<transportVars, notes, forward, ctrlVars, timeVars, outputVars, now, shutdown>>

\* A controller larasynth drives: the player's value for it is dropped.
HandleControlled ==
  /\ pc = "handle" /\ Message(event) = "controlled"
  /\ ReturnInputEvent(event)
  /\ event' = NoEvent /\ pc' = "drain"
  /\ UNCHANGED <<notes, forward, ctrlVars, timeVars, outputVars, now, shutdown>>

\* Slip: the notes are played before the controllers are set.
SetNoteCtrlsSkipped ==
  /\ pc = "drain" /\ ~HasInputEvent /\ notes # <<>>
  /\ nextUpdate' = now + Period
  /\ pc' = "play"
  /\ UNCHANGED <<transportVars, event, notes, forward, ctrlVars, lastUpdate, outputVars,
                 now, shutdown>>

\* Slip: the notes do not put the next update off.
SetNoteCtrlsNoTimer ==
  /\ pc = "drain" /\ ~HasInputEvent /\ notes # <<>>
  /\ SetCtrls(new)
  /\ pc' = "play"
  /\ UNCHANGED <<transportVars, event, notes, forward, new, newAfter, timeVars, played,
                 forwarded, now, shutdown>>

\* The queue is drained and there are notes: the controllers are set first.
SetNoteCtrls ==
  /\ pc = "drain" /\ ~HasInputEvent /\ notes # <<>>
  /\ nextUpdate' = now + Period
  /\ SetCtrls(new)
  /\ pc' = "play"
  /\ UNCHANGED <<transportVars, event, notes, forward, new, newAfter, lastUpdate, played,
                 forwarded, now, shutdown>>

NoNotes ==
  /\ pc = "drain" /\ ~HasInputEvent /\ notes = <<>>
  /\ pc' = "forward"
  /\ UNCHANGED <<transportVars, event, notes, forward, ctrlVars, timeVars, outputVars,
                 now, shutdown>>

\* play_notes: each note is sent, then given back to the pool.
PlayNote ==
  /\ pc = "play"
  /\ played' = Append(played, msg[Head(notes)])
  /\ pc' = "returnNote"
  /\ UNCHANGED <<transportVars, event, notes, forward, ctrlVars, timeVars, synth, forwarded,
                 now, shutdown>>

\* Slip: the end of the notes is not noticed.
ReturnNoteUntested ==
  /\ pc = "returnNote"
  /\ ReturnInputEvent(Head(notes))
  /\ notes' = Tail(notes)
  /\ pc' = "play"
  /\ UNCHANGED <<event, forward, ctrlVars, timeVars, outputVars, now, shutdown>>

ReturnNote ==
  /\ pc = "returnNote"
  /\ ReturnInputEvent(Head(notes))
  /\ notes' = Tail(notes)
  /\ pc' = IF notes' = <<>> THEN "forward" ELSE "play"
  /\ UNCHANGED <<event, forward, ctrlVars, timeVars, outputVars, now, shutdown>>

\* forward_events
ForwardEvent ==
  /\ pc = "forward" /\ forward # <<>>
  /\ forwarded' = Append(forwarded, msg[Head(forward)])
  /\ pc' = "returnForwarded"
  /\ UNCHANGED <<transportVars, event, notes, forward, ctrlVars, timeVars, synth, played,
                 now, shutdown>>

ReturnForwarded ==
  /\ pc = "returnForwarded"
  /\ ReturnInputEvent(Head(forward))
  /\ forward' = Tail(forward)
  /\ pc' = "forward"
  /\ UNCHANGED <<event, notes, ctrlVars, timeVars, outputVars, now, shutdown>>

\* Slip: it sleeps until the update is due.
SleepUntilUpdate ==
  /\ pc = "forward" /\ forward = <<>> /\ now < nextUpdate
  /\ UNCHANGED vars

\* usleep( 1 )
Sleep ==
  /\ pc = "forward" /\ forward = <<>> /\ now < nextUpdate
  /\ pc' = "head"
  /\ UNCHANGED <<transportVars, event, notes, forward, ctrlVars, timeVars, outputVars,
                 now, shutdown>>

\* The first of two readings of the clock: it is time for an update ...
TimeIsUp ==
  /\ pc = "forward" /\ forward = <<>> /\ now >= nextUpdate
  /\ pc' = "putOff"
  /\ UNCHANGED <<transportVars, event, notes, forward, ctrlVars, timeVars, outputVars,
                 now, shutdown>>

\* ... and the second, which says when the next is due ...
PutOff ==
  /\ pc = "putOff" /\ pc' = "update"
  /\ nextUpdate' = now + Period /\ lastUpdate' = now
  /\ UNCHANGED <<transportVars, event, notes, forward, ctrlVars, outputVars, now, shutdown>>

\* ... and then the update, later than both.
TimedUpdate ==
  /\ pc = "update" /\ pc' = "head"
  /\ PassNetwork(newAfter)
  /\ SetCtrls(new')
  /\ UNCHANGED <<transportVars, event, notes, forward, timeVars, played, forwarded,
                 now, shutdown>>

\* perform() returns: the RtMidiClient on its stack is destroyed.
CloseInput ==
  /\ pc = "disconnect"
  /\ Disconnect
  /\ pc' = "deletePool"
  /\ UNCHANGED <<event, notes, forward, ctrlVars, timeVars, outputVars, now, shutdown>>

DestroyPool ==
  /\ pc = "deletePool"
  /\ DeletePool
  /\ pc' = "deleteInput"
  /\ UNCHANGED <<event, notes, forward, ctrlVars, timeVars, outputVars, now, shutdown>>

\* Slip: the Events left in the input queue are forgotten.
DestroyInputForgotten ==
  /\ pc = "deleteInput" /\ pc' = "done"
  /\ UNCHANGED <<transportVars, event, notes, forward, ctrlVars, timeVars, outputVars,
                 now, shutdown>>

DestroyInput ==
  /\ pc = "deleteInput"
  /\ DeleteInput
  /\ pc' = "done"
  /\ UNCHANGED <<event, notes, forward, ctrlVars, timeVars, outputVars, now, shutdown>>

Main ==
  \/ LoopTest \/ TakeInput \/ HandleNote \/ HandleOther \/ HandleControlled
  \/ SetNoteCtrls \/ NoNotes \/ PlayNote \/ ReturnNote
  \/ ForwardEvent \/ ReturnForwarded \/ Sleep \/ TimeIsUp \/ PutOff \/ TimedUpdate
  \/ CloseInput \/ DestroyPool \/ DestroyInput

\* signal_handler
Interrupt ==
  /\ ~shutdown /\ shutdown' = TRUE
  /\ UNCHANGED <<transportVars, mainVars, now>>

Tick ==
  /\ now < MaxTime /\ now' = now + 1
  /\ UNCHANGED <<transportVars, mainVars, shutdown>>

CallbackStep == Callback /\ UNCHANGED <<mainVars, now, shutdown>>

\* The program has ended; anything else that cannot move is a deadlock.
Ended == pc = "done" /\ UNCHANGED vars

Next == Main \/ CallbackStep \/ Interrupt \/ Tick \/ Ended

Spec == Init /\ [][Next]_vars

\* The scheduler runs the main thread, and RtMidi's thread finishes the callback
\* it is in.  Nothing makes messages arrive, the clock advance or SIGINT come.
FairSpec ==
  Spec /\ WF_vars(Main) /\ WF_vars(PushEvent /\ UNCHANGED <<mainVars, now, shutdown>>)

-----------------------------------------------------------------------------
(* Properties.                                                             *)

MessageNumbers == 0 .. MaxArrivals

\* The variables have their types, and the loops have something in hand.
TypeOK ==
  /\ TransportTypeOK
  /\ pc \in {"head", "drain", "handle", "play", "returnNote", "forward", "returnForwarded",
            "putOff", "update", "disconnect", "deletePool", "deleteInput", "done"}
  /\ event \in Events \cup {NoEvent}
  /\ notes \in Seq(Events) /\ forward \in Seq(Events)
  /\ current \in CtrlValues /\ new \in CtrlValues
  /\ synth \in [Ctrls -> Vals \cup {NeverSent}]
  /\ played \in Seq(MessageNumbers) /\ forwarded \in Seq(MessageNumbers)
  /\ newAfter \in MessageNumbers
  /\ {nextUpdate, lastUpdate, now} \subseteq Nat /\ shutdown \in BOOLEAN
  /\ event # NoEvent <=> pc = "handle"
  /\ pc \in {"play", "returnNote"} => notes # <<>>
  /\ pc = "returnForwarded" => forward # <<>>

\* Every Event is in exactly one place: in the pool, in the input queue, in the
\* hands of one thread, waiting to be played or forwarded, or leaked by a push
\* that failed.  No Event is recycled while it is still to be used, none is
\* returned twice, and none is forgotten.
EventsAccountedFor ==
  /\ \A s \in {pool, input, notes, forward} : IsInjective(s)
  /\ LET places == <<Range(pool), Range(input), Range(notes), Range(forward),
                    {hand} \ {NoEvent}, {event} \ {NoEvent}, leaked>>
     IN  /\ \A i, j \in DOMAIN places : i # j => places[i] \cap places[j] = {}
         /\ alive = UNION Range(places)

\* The messages of a kind sent so far, then those in the queue for it, are in the
\* order of arrival; and with those that have not got that far, they are all the
\* messages of that kind: none is lost, duplicated, overtaken or overwritten.
Delivered(sent, waiting, kind) ==
  LET onTheWay == Range(input) \cup leaked \cup ({hand, event} \ {NoEvent})
  IN  /\ Increasing(sent \o Numbers(waiting))
      /\ {k \in 1 .. Len(arrivals) : arrivals[k] = kind} =
           Range(sent) \cup Range(Numbers(waiting))
             \cup {k \in {msg[e] : e \in onTheWay} : arrivals[k] = kind}

\* Until the loop ends, notes and forwarded messages are delivered in order and
\* exactly once, and the player's own changes of driven controllers never are.
\* That other messages are forwarded is what the code does and says (performer.cpp:
\* 79-80), though docs/topics.md:449-450 says that all but notes are dropped.
MessagesDelivered ==
  pc \notin {"deleteInput", "done"} =>
    /\ Delivered(played, IF pc = "returnNote" THEN Tail(notes) ELSE notes, "note")
    /\ Delivered(forwarded, IF pc = "returnForwarded" THEN Tail(forward) ELSE forward, "other")

\* When a note is sent, the synthesizer already has the values the network gave
\* once it had heard that note (a first value of 0 is not sent, for 0 is what an
\* unset entry of current_ctrl_vals reads as).
ControlsPrecedeNotes ==
  [][played' # played =>
       /\ newAfter >= Last(played')
       /\ \A c \in Ctrls : synth[c] = new[c] \/ (synth[c] = NeverSent /\ new[c] = 0)]_played

\* Without a note, an update begins only when a whole update interval has gone by
\* since the last, for a note or not, but for the first (docs/topics.md:174-180).
\* It is the clock's readings that are an interval apart: the pass itself comes
\* after the second of them (performer.cpp:102-103).
UpdateSpacing ==
  [][pc = "forward" /\ pc' = "putOff" /\ nextUpdate > 0 => now >= lastUpdate + Period]_vars

\* When perform() has returned, every Event has been deleted but those leaked.
NothingLeftAtExit == pc = "done" => alive = leaked

\* A note on the input queue is played, unless the user interrupts the program.
NotesEventuallyPlayed ==
  \A k \in 1 .. MaxArrivals :
    (\E e \in Range(input) : msg[e] = k /\ Message(e) = "note") ~>
      (shutdown \/ k \in Range(played))

\* After ctrl-c the program ends.
ShutdownCompletes == shutdown ~> pc = "done"

\* What docs/topics.md:182-184 says: the values calculated for a note event are
\* set before it is forwarded, hence not those calculated for a later one.
EachNoteItsOwnControls == [][played' # played => newAfter = Last(played')]_played
=============================================================================

------------------------------ MODULE Recorder ------------------------------
(***************************************************************************)
(* `lara record`: Recorder::record keeps the notes and the changes of the  *)
(* configured controllers that come in through module EventTransport, and  *)
(* writes them to a training example once SIGINT has ended its loop.       *)
(***************************************************************************)
EXTENDS EventTransport

ASSUME RecorderAssumption == Kinds = {"note", "controlled", "uncontrolled", "other"}

VARIABLES
  pc,             \* the next step of the main thread
  event,          \* the Event it has taken off the input queue, or NoEvent
  eventsToWrite,  \* events_to_write
  file,           \* the lines of the training example: numbers of messages
  shutdown,       \* *_shutdown_flag
  dropped         \* history: Events that record() neither kept nor gave back

mainVars == <<pc, event, eventsToWrite, file, dropped>>
vars == <<transportVars, mainVars, shutdown>>

Init ==
  /\ TransportInit
  /\ pc = "head" /\ event = NoEvent /\ eventsToWrite = <<>> /\ file = <<>>
  /\ shutdown = FALSE /\ dropped = {}

-----------------------------------------------------------------------------
\* Slip: the flag is not volatile and is read once.
LoopTestCached ==
  /\ pc = "head" /\ pc' = "drain"
  /\ UNCHANGED <<transportVars, event, eventsToWrite, file, dropped, shutdown>>

\* while( !*_shutdown_flag )
LoopTest ==
  /\ pc = "head"
  /\ pc' = IF shutdown THEN "write" ELSE "drain"
  /\ UNCHANGED <<transportVars, event, eventsToWrite, file, dropped, shutdown>>

TakeInput ==
  /\ pc = "drain" /\ HasInputEvent
  /\ GetInputEvent
  /\ event' = Head(input) /\ pc' = "handle"
  /\ UNCHANGED <<eventsToWrite, file, dropped, shutdown>>

\* Slip: every Event goes back to the pool at once, those kept for the file too.
KeepGivenBack ==
  /\ pc = "handle" /\ Message(event) \in {"note", "controlled"}
  /\ eventsToWrite' = Append(eventsToWrite, event)
  /\ ReturnInputEvent(event)
  /\ event' = NoEvent /\ pc' = "drain"
  /\ UNCHANGED <<file, dropped, shutdown>>

\* A note, or a change of a controller of _ctrls.
Keep ==
  /\ pc = "handle" /\ Message(event) \in {"note", "controlled"}
  /\ eventsToWrite' = Append(eventsToWrite, event)
  /\ event' = NoEvent /\ pc' = "drain"
  /\ UNCHANGED <<transportVars, file, dropped, shutdown>>

\* Slip: the Event dropped stays in hand.
DropInHand ==
  /\ pc = "handle" /\ Message(event) = "uncontrolled"
  /\ dropped' = dropped \cup {event}
  /\ pc' = "drain"
  /\ UNCHANGED <<transportVars, event, eventsToWrite, file, shutdown>>

\* A change of another controller: no branch of the code takes the Event.
Drop ==
  /\ pc = "handle" /\ Message(event) = "uncontrolled"
  /\ dropped' = dropped \cup {event}
  /\ event' = NoEvent /\ pc' = "drain"
  /\ UNCHANGED <<transportVars, eventsToWrite, file, shutdown>>

GiveBack ==
  /\ pc = "handle" /\ Message(event) = "other"
  /\ ReturnInputEvent(event)
  /\ event' = NoEvent /\ pc' = "drain"
  /\ UNCHANGED <<eventsToWrite, file, dropped, shutdown>>

\* sleep_for( 1us )
Sleep ==
  /\ pc = "drain" /\ ~HasInputEvent
  /\ pc' = "head"
  /\ UNCHANGED <<transportVars, event, eventsToWrite, file, dropped, shutdown>>

\* write_events, in the order of the vector
WriteFile ==
  /\ pc = "write"
  /\ file' = Numbers(eventsToWrite)
  /\ pc' = "return"
  /\ UNCHANGED <<transportVars, event, eventsToWrite, dropped, shutdown>>

\* Slip: only the notes of the vector are given back.
ReturnWrittenNotes ==
  /\ pc = "return" /\ eventsToWrite # <<>>
  /\ IF Message(Head(eventsToWrite)) = "note"
     THEN ReturnInputEvent(Head(eventsToWrite)) ELSE UNCHANGED transportVars
  /\ eventsToWrite' = Tail(eventsToWrite)
  /\ UNCHANGED <<pc, event, file, dropped, shutdown>>

\* The loop over the vector: the part still to be given back is what is kept.
ReturnWritten ==
  /\ pc = "return" /\ eventsToWrite # <<>>
  /\ ReturnInputEvent(Head(eventsToWrite))
  /\ eventsToWrite' = Tail(eventsToWrite)
  /\ UNCHANGED <<pc, event, file, dropped, shutdown>>

CloseInput ==
  /\ pc = "return" /\ eventsToWrite = <<>>
  /\ Disconnect
  /\ pc' = "deletePool"
  /\ UNCHANGED <<event, eventsToWrite, file, dropped, shutdown>>

DestroyPool ==
  /\ pc = "deletePool" /\ DeletePool
  /\ pc' = "deleteInput"
  /\ UNCHANGED <<event, eventsToWrite, file, dropped, shutdown>>

DestroyInput ==
  /\ pc = "deleteInput" /\ DeleteInput
  /\ pc' = "done"
  /\ UNCHANGED <<event, eventsToWrite, file, dropped, shutdown>>

Main ==
  \/ LoopTest \/ TakeInput \/ Keep \/ Drop \/ GiveBack \/ Sleep
  \/ WriteFile \/ ReturnWritten \/ CloseInput \/ DestroyPool \/ DestroyInput

Interrupt ==
  /\ ~shutdown /\ shutdown' = TRUE
  /\ UNCHANGED <<transportVars, mainVars>>

CallbackStep == Callback /\ UNCHANGED <<mainVars, shutdown>>

Ended == pc = "done" /\ UNCHANGED vars

Next == Main \/ CallbackStep \/ Interrupt \/ Ended

\* As for the Performer: the main thread runs, and a callback begun is finished.
Spec ==
  Init /\ [][Next]_vars /\ WF_vars(Main)
       /\ WF_vars(PushEvent /\ UNCHANGED <<mainVars, shutdown>>)

-----------------------------------------------------------------------------
(* Properties.                                                             *)

\* The variables have their types, and the loop has an Event in hand to handle.
TypeOK ==
  /\ TransportTypeOK
  /\ pc \in {"head", "drain", "handle", "write", "return", "deletePool", "deleteInput", "done"}
  /\ event \in Events \cup {NoEvent} /\ eventsToWrite \in Seq(Events)
  /\ file \in Seq(1 .. MaxArrivals) /\ dropped \subseteq Events
  /\ shutdown \in BOOLEAN
  /\ event # NoEvent <=> pc = "handle"

\* Every Event is in exactly one place: free, queued, in the hands of a thread,
\* kept for the file, leaked by a failed push, or dropped by record().
EventsAccountedFor ==
  /\ \A s \in {pool, input, eventsToWrite} : IsInjective(s)
  /\ LET places == <<Range(pool), Range(input), Range(eventsToWrite), {hand} \ {NoEvent},
                    {event} \ {NoEvent}, leaked, dropped>>
     IN  /\ \A i, j \in DOMAIN places : i # j => places[i] \cap places[j] = {}
         /\ alive = UNION Range(places)

\* What is deleted at exit is everything but what is leaked, and the Events
\* leaked by record() are those of controllers that are not configured.
OnlyForeignControllersLeak ==
  /\ \A e \in dropped : Message(e) = "uncontrolled"
  /\ pc = "done" => alive = leaked \cup dropped

\* The training example has, in their order of arrival, exactly the notes and the
\* configured controllers' changes taken off the queue before the loop ended: all
\* that have arrived but those still queued, in the callback's hands or leaked.
\* Changes that came before the first note are in it too (recorder.cpp:57-59), though
\* docs/topics.md:126-127 says that nothing is saved before the first note.
RecordedInOrder ==
  pc = "return" /\ eventsToWrite # <<>> /\ Len(eventsToWrite) = Len(file) =>
    /\ Increasing(file)
    /\ Range(file) =
         {k \in 1 .. Len(arrivals) : arrivals[k] \in {"note", "controlled"}}
           \ {msg[e] : e \in Range(input) \cup leaked \cup ({hand} \ {NoEvent})}

\* After ctrl-c the file is written and the program ends.
ShutdownCompletes == shutdown ~> pc = "done"
=============================================================================

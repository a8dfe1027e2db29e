--------------------------- MODULE RecorderProofs ---------------------------
(***************************************************************************)
(* Proofs about Recorder, for every number of Events, capacity and length  *)
(* of recording.                                                           *)
(***************************************************************************)
EXTENDS Recorder, TransportProofs

\* A message that record() keeps for the file.
Kept == {"note", "controlled"}

\* EventsAccountedFor, place by place.
Owned ==
  /\ IsInjective(pool) /\ IsInjective(input) /\ IsInjective(eventsToWrite)
  /\ alive = Range(pool) \cup Range(input) \cup Range(eventsToWrite)
               \cup Held(hand) \cup Held(event) \cup leaked \cup dropped
  /\ Range(pool) \cap (Range(input) \cup Range(eventsToWrite) \cup Held(hand) \cup Held(event)
                        \cup leaked \cup dropped) = {}
  /\ Range(input) \cap (Range(eventsToWrite) \cup Held(hand) \cup Held(event)
                         \cup leaked \cup dropped) = {}
  /\ Range(eventsToWrite) \cap (Held(hand) \cup Held(event) \cup leaked \cup dropped) = {}
  /\ Held(hand) \cap (Held(event) \cup leaked \cup dropped) = {}
  /\ Held(event) \cap (leaked \cup dropped) = {}
  /\ leaked \cap dropped = {}

\* The Events that carry a message, one message each, and what was dropped.
Carrying == Range(input) \cup Range(eventsToWrite) \cup Held(hand) \cup Held(event)
              \cup leaked \cup dropped
Numbered ==
  /\ \A e \in Carrying : msg[e] \in 1 .. Len(arrivals)
  /\ \A e, f \in Carrying : msg[e] = msg[f] => e = f
  /\ \A e \in Range(eventsToWrite) : Message(e) \in Kept
  /\ \A e \in dropped : Message(e) = "uncontrolled"
  /\ hand # NoEvent => msg[hand] = Len(arrivals)

\* The messages taken are older than those queued, and each queue is in order.
Ordered ==
  /\ \A i, j \in DOMAIN input : i < j => msg[input[i]] < msg[input[j]]
  /\ \A i, j \in DOMAIN eventsToWrite : i < j => msg[eventsToWrite[i]] < msg[eventsToWrite[j]]
  /\ \A e \in Range(eventsToWrite) \cup Held(event), f \in Range(input) : msg[e] < msg[f]
  /\ \A e \in Range(eventsToWrite), f \in Held(event) : msg[e] < msg[f]

\* No message that belongs into the file is lost but by a failed push.
Complete ==
  pc \in {"head", "drain", "handle", "write"} =>
    \A k \in 1 .. Len(arrivals) : arrivals[k] \in Kept =>
      \E e \in Range(input) \cup Range(eventsToWrite) \cup Held(hand) \cup Held(event)
                 \cup leaked : msg[e] = k

\* What the file says while the Events written are given back.
Filed ==
  pc = "return" =>
    /\ Len(eventsToWrite) <= Len(file)
    /\ Len(eventsToWrite) = Len(file) =>
         /\ file = Numbers(eventsToWrite)
         /\ \A k \in 1 .. Len(arrivals) : arrivals[k] \in Kept =>
              \E e \in Range(input) \cup Range(eventsToWrite) \cup Held(hand) \cup leaked :
                msg[e] = k

\* Where Events can be, towards the end.
AtRest ==
  /\ hand # NoEvent => connected
  /\ connected => pc \notin {"deletePool", "deleteInput", "done"}
  /\ pc \in {"deletePool", "deleteInput", "done"} => eventsToWrite = <<>>
  /\ pc \in {"deleteInput", "done"} => pool = <<>>
  /\ pc = "done" => input = <<>>

Inv == TypeOK /\ Owned /\ Numbered /\ Ordered /\ Complete /\ Filed /\ AtRest

-----------------------------------------------------------------------------
(* Types and places.                                                       *)

\* Every step leaves the transport as it is or does one of its operations, on an
\* Event that the main thread holds.
LEMMA TransportStep ==
  ASSUME TypeOK, [Next]_vars
  PROVE  \/ UNCHANGED transportVars
         \/ Callback
         \/ HasInputEvent /\ GetInputEvent
         \/ \E e \in Events : ReturnInputEvent(e)
         \/ Disconnect \/ DeletePool \/ DeleteInput
  <1>1. pc = "handle" => event \in Events
    BY DEF TypeOK
  <1>2. eventsToWrite # <<>> => Head(eventsToWrite) \in Events
    BY HeadTailProperties DEF TypeOK
  <1> QED
    BY <1>1, <1>2
    DEF vars, Next, Main, CallbackStep, Interrupt, Ended, LoopTest, TakeInput, Keep, Drop,
        GiveBack, Sleep, WriteFile, ReturnWritten, CloseInput, DestroyPool, DestroyInput

\* Every step keeps the types.
LEMMA NextType == TypeOK /\ Numbered /\ [Next]_vars => TypeOK'
  <1> SUFFICES ASSUME TypeOK, Numbered, [Next]_vars PROVE TypeOK'
    OBVIOUS
  <1>0. TransportTypeOK'
    BY TransportStep, StutterType, CallbackType, GetType, ReturnType, CloseType DEF TypeOK
  <1> USE TransportAssumption, <1>0 DEF TypeOK
  <1>1. CASE LoopTest \/ Sleep
    BY <1>1 DEF LoopTest, Sleep
  <1>2. CASE TakeInput
    <2>1. Head(input) \in Events
      BY <1>2, HeadTailProperties DEF TakeInput, HasInputEvent, TransportTypeOK
    <2> QED
      BY <1>2, <2>1 DEF TakeInput
  <1>3. CASE Keep
    <2>1. Append(eventsToWrite, event) \in Seq(Events)
      BY <1>3, AppendProperties DEF Keep
    <2> QED
      BY <1>3, <2>1 DEF Keep
  <1>4. CASE Drop \/ GiveBack
    BY <1>4 DEF Drop, GiveBack
  <1>5. CASE WriteFile
    <2>1. /\ Len(eventsToWrite) \in Nat /\ DOMAIN eventsToWrite = 1 .. Len(eventsToWrite)
          /\ Len(arrivals) \in Nat /\ Len(arrivals) <= MaxArrivals
      BY LenProperties DEF TransportTypeOK
    <2>2. \A i \in 1 .. Len(eventsToWrite) : msg[eventsToWrite[i]] \in 1 .. MaxArrivals
      BY <2>1 DEF Numbered, Carrying, Range
    <2>3. Numbers(eventsToWrite) \in Seq(1 .. MaxArrivals)
      BY <2>1, <2>2, IsASeq DEF Numbers
    <2> QED
      BY <1>5, <2>3 DEF WriteFile
  <1>6. CASE ReturnWritten
    <2>1. Tail(eventsToWrite) \in Seq(Events)
      BY <1>6, HeadTailProperties DEF ReturnWritten
    <2> QED
      BY <1>6, <2>1 DEF ReturnWritten
  <1>7. CASE CloseInput \/ DestroyPool \/ DestroyInput
    BY <1>7 DEF CloseInput, DestroyPool, DestroyInput
  <1>8. CASE CallbackStep \/ Interrupt \/ Ended \/ UNCHANGED vars
    BY <1>8 DEF CallbackStep, Interrupt, Ended, vars, mainVars
  <1> QED
    BY <1>1, <1>2, <1>3, <1>4, <1>5, <1>6, <1>7, <1>8 DEF Next, Main

\* Every step moves Events from one place to one other at most.
LEMMA NextOwned == TypeOK /\ Owned /\ [Next]_vars => Owned'
  <1> SUFFICES ASSUME TypeOK, Owned, [Next]_vars PROVE Owned'
    OBVIOUS
  <1> USE TransportAssumption DEF Held
  <1>0. TransportTypeOK /\ IsInjective(pool) /\ IsInjective(input)
    BY DEF TypeOK, Owned
  <1>1. CASE UNCHANGED <<transportVars, event, eventsToWrite, dropped>>
    BY <1>1 DEF Owned, transportVars, callbackVars
  <1>2. CASE CallbackStep
    <2>1. ASSUME NEW kind \in Kinds, FillEvent(kind) PROVE Owned'
      BY <1>0, <1>2, <2>1, FillStep DEF Owned, CallbackStep, mainVars
    <2>2. CASE PushEvent
      <3>1. hand \notin Range(input)
        BY <2>2 DEF PushEvent, Owned
      <3> QED
        BY <1>0, <1>2, <2>2, <3>1, PushStep DEF Owned, CallbackStep, mainVars
    <2> QED
      BY <1>2, <2>1, <2>2 DEF CallbackStep, Callback
  <1>3. CASE TakeInput
    <2>1. event = NoEvent /\ event' = Head(input) /\ UNCHANGED <<eventsToWrite, dropped>>
      BY <1>3 DEF TakeInput, TypeOK
    <2> QED
      BY <1>0, <1>3, <2>1, GetStep DEF TakeInput, Owned
  <1>4. CASE Keep
    <2>1. event \in Events /\ event \notin Range(eventsToWrite)
      BY <1>4 DEF Keep, TypeOK, Owned
    <2>2. /\ IsInjective(eventsToWrite')
          /\ Range(eventsToWrite') = Range(eventsToWrite) \cup {event}
      BY <1>4, <2>1, AppendToInjective DEF Keep, Owned, TypeOK
    <2> QED
      BY <1>4, <2>1, <2>2 DEF Keep, Owned, transportVars, callbackVars
  <1>5. CASE Drop
    BY <1>5 DEF Drop, Owned, TypeOK, transportVars, callbackVars
  <1>6. CASE GiveBack
    <2>1. event \in Events /\ event \notin Range(pool)
      BY <1>6 DEF GiveBack, TypeOK, Owned
    <2> QED
      BY <1>0, <1>6, <2>1, ReturnStep DEF GiveBack, Owned
  <1>7. CASE ReturnWritten
    <2>1. /\ Head(eventsToWrite) \in Events /\ Head(eventsToWrite) \in Range(eventsToWrite)
          /\ IsInjective(eventsToWrite')
          /\ Range(eventsToWrite') = Range(eventsToWrite) \ {Head(eventsToWrite)}
      BY <1>7, TailOfInjective DEF ReturnWritten, Owned, TypeOK
    <2>2. Head(eventsToWrite) \notin Range(pool)
      BY <2>1 DEF Owned
    <2> QED
      BY <1>0, <1>7, <2>1, <2>2, ReturnStep DEF ReturnWritten, Owned
  <1>8. CASE CloseInput
    BY <1>8 DEF CloseInput, Disconnect, Owned, callbackVars
  <1>9. CASE DestroyPool
    BY <1>9, EmptyIsInjective DEF DestroyPool, DeletePool, Owned, callbackVars
  <1>10. CASE DestroyInput
    BY <1>10, EmptyIsInjective DEF DestroyInput, DeleteInput, Owned, callbackVars
  <1> QED
    BY <1>1, <1>2, <1>3, <1>4, <1>5, <1>6, <1>7, <1>8, <1>9, <1>10
    DEF vars, mainVars, Next, Main, Interrupt, Ended, LoopTest, Sleep, WriteFile

\* Owned is the part of EventsAccountedFor that speaks of the seven places.
LEMMA OwnedImpliesAccountedFor == Owned => EventsAccountedFor
  <1> SUFFICES ASSUME Owned PROVE EventsAccountedFor
    OBVIOUS
  <1> DEFINE places == <<Range(pool), Range(input), Range(eventsToWrite), Held(hand),
                         Held(event), leaked, dropped>>
  <1>1. DOMAIN places = 1 .. 7
    OBVIOUS
  <1>2. \A i, j \in 1 .. 7 : i < j => places[i] \cap places[j] = {}
    BY DEF Owned
  <1>3. \A i, j \in 1 .. 7 : i # j => places[i] \cap places[j] = {}
    <2>1. ASSUME NEW i \in 1 .. 7, NEW j \in 1 .. 7, i # j PROVE places[i] \cap places[j] = {}
      <3>1. i < j \/ j < i
        BY <2>1
      <3> QED
        BY <1>2, <3>1
    <2> QED
      BY <2>1
  <1>4. Range(places) = {places[1], places[2], places[3], places[4], places[5], places[6],
                         places[7]}
    <2>1. Range(places) = {places[i] : i \in 1 .. 7}
      BY <1>1 DEF Range
    <2>2. 1 .. 7 = {1, 2, 3, 4, 5, 6, 7}
      OBVIOUS
    <2> HIDE DEF places
    <2> QED
      BY <2>1, <2>2
  <1>5. alive = UNION Range(places)
    BY <1>4 DEF Owned
  <1> QED
    BY <1>1, <1>3, <1>5 DEF Owned, EventsAccountedFor, Held

\* Nothing is held once the destructors run.
LEMMA NextAtRest == TypeOK /\ AtRest /\ [Next]_vars => AtRest'
  <1> SUFFICES ASSUME TypeOK, AtRest, [Next]_vars PROVE AtRest'
    OBVIOUS
  <1> USE DEF AtRest, transportVars, callbackVars
  <1>1. CASE UNCHANGED vars \/ Ended \/ Interrupt
    BY <1>1 DEF vars, mainVars, Ended, Interrupt
  <1>2. CASE CallbackStep
    <2>1. ASSUME NEW kind \in Kinds, FillEvent(kind) PROVE AtRest'
      BY <1>2, <2>1 DEF CallbackStep, mainVars, FillEvent, TypeOK
    <2>2. CASE PushEvent
      BY <1>2, <2>2 DEF CallbackStep, mainVars, PushEvent, TypeOK
    <2> QED
      BY <1>2, <2>1, <2>2 DEF CallbackStep, Callback
  <1>3. CASE LoopTest \/ TakeInput \/ Keep \/ Drop \/ GiveBack \/ Sleep
    BY <1>3 DEF LoopTest, TakeInput, GetInputEvent, Keep, Drop, GiveBack, Sleep, ReturnInputEvent
  <1>4. CASE WriteFile \/ ReturnWritten
    BY <1>4 DEF WriteFile, ReturnWritten, ReturnInputEvent
  <1>5. CASE CloseInput \/ DestroyPool \/ DestroyInput
    BY <1>5 DEF CloseInput, Disconnect, DestroyPool, DeletePool, DestroyInput, DeleteInput
  <1> QED
    BY <1>1, <1>2, <1>3, <1>4, <1>5 DEF Next, Main

-----------------------------------------------------------------------------
(* Messages.                                                               *)

\* A message that arrives is the last, and the only one to carry its number.
LEMMA FillNumbers ==
  ASSUME TypeOK, Owned, Numbered, NEW kind \in Kinds, FillEvent(kind), UNCHANGED mainVars
  PROVE  /\ Len(arrivals') = Len(arrivals) + 1 /\ Len(arrivals) \in Nat
         /\ msg'[hand'] = Len(arrivals') /\ hand' \notin Carrying /\ hand = NoEvent
         /\ arrivals'[Len(arrivals')] = kind
         /\ \A e \in Carrying : e \in Events /\ msg'[e] = msg[e]
         /\ \A k \in 1 .. Len(arrivals) : arrivals'[k] = arrivals[k]
         /\ Carrying' = Carrying \cup {hand'}
         /\ UNCHANGED <<input, leaked>>
  <1>0. TransportTypeOK /\ IsInjective(pool)
    BY DEF TypeOK, Owned
  <1>1. /\ hand = NoEvent /\ hand' \in Events /\ hand' # NoEvent /\ hand' \notin Carrying
        /\ UNCHANGED <<input, leaked>>
        /\ arrivals' = Append(arrivals, kind)
        /\ msg' = [msg EXCEPT ![hand'] = Len(arrivals')]
    BY <1>0, FillStep DEF Owned, Carrying
  <1>2. arrivals \in Seq(Kinds) /\ msg \in [Events -> 0 .. MaxArrivals]
    BY <1>0 DEF TransportTypeOK
  <1>3. /\ Len(arrivals) \in Nat /\ Len(arrivals') = Len(arrivals) + 1
        /\ arrivals'[Len(arrivals')] = kind
        /\ \A k \in 1 .. Len(arrivals) : arrivals'[k] = arrivals[k]
    BY <1>1, <1>2, AppendProperties, LenProperties
  <1>4. \A e \in Carrying : e \in Events
    BY <1>0, TransportAssumption
    DEF Owned, Carrying, Held, TypeOK, TransportTypeOK
  <1>5. Carrying' = Carrying \cup {hand'}
    BY <1>1 DEF Carrying, Held, mainVars
  <1> QED
    BY <1>1, <1>2, <1>3, <1>4, <1>5

\* Who carries a message goes on carrying it, or gives it up.
LEMMA NumbersStay ==
  ASSUME TypeOK, Numbered, UNCHANGED <<msg, arrivals>>, Carrying' \subseteq Carrying,
         \A e \in Range(eventsToWrite)' : Message(e) \in Kept,
         \A e \in dropped' : Message(e) = "uncontrolled",
         hand' \in {hand, NoEvent}
  PROVE  Numbered'
  BY DEF Numbered, Message

\* Every step keeps the messages carried within those that came.
LEMMA NextNumbered == TypeOK /\ Owned /\ Numbered /\ [Next]_vars => Numbered'
  <1> SUFFICES ASSUME TypeOK, Owned, Numbered, [Next]_vars PROVE Numbered'
    OBVIOUS
  <1> USE DEF transportVars, callbackVars
  <1>0. TransportTypeOK /\ IsInjective(pool) /\ IsInjective(input) /\ IsInjective(eventsToWrite)
    BY DEF TypeOK, Owned
  <1>a. /\ \A e \in Range(eventsToWrite) : Message(e) \in Kept
        /\ \A e \in dropped : Message(e) = "uncontrolled"
    BY DEF Numbered
  <1>1. CASE UNCHANGED <<transportVars, event, eventsToWrite, dropped>>
    BY <1>1 DEF Numbered, Carrying, Message
  <1>2. ASSUME NEW kind \in Kinds, FillEvent(kind), UNCHANGED mainVars PROVE Numbered'
    <2>1. UNCHANGED <<eventsToWrite, dropped>>
      BY <1>2 DEF mainVars
    <2>2. \A e \in Range(eventsToWrite) \cup dropped :
            e \in Carrying /\ msg[e] \in 1 .. Len(arrivals)
      BY DEF Numbered, Carrying
    <2>3. \A e \in Range(eventsToWrite) \cup dropped : Message(e)' = Message(e)
      BY <1>2, <2>2, FillNumbers DEF Message
    <2>4. \A e \in Carrying' : msg'[e] \in 1 .. Len(arrivals')
      BY <1>2, FillNumbers DEF Numbered
    <2>5. \A e \in Carrying : msg'[e] \in 1 .. Len(arrivals) /\ msg'[e] # Len(arrivals')
      BY <1>2, FillNumbers DEF Numbered
    <2>6. \A e, f \in Carrying' : msg'[e] = msg'[f] => e = f
      BY <1>2, <2>5, FillNumbers DEF Numbered
    <2> QED
      BY <1>2, <1>a, <2>1, <2>3, <2>4, <2>6, FillNumbers DEF Numbered
  <1>3. CASE PushEvent /\ UNCHANGED mainVars
    <2>1. hand \notin Range(input)
      BY <1>3 DEF PushEvent, Owned, Held
    <2>2. Carrying' \subseteq Carrying
      BY <1>0, <1>3, <2>1, PushStep DEF Carrying, mainVars, Held
    <2> QED
      BY <1>0, <1>3, <1>a, <2>1, <2>2, PushStep, NumbersStay DEF mainVars
  <1>4. CASE TakeInput
    <2>1. /\ Carrying' \subseteq Carrying
          /\ UNCHANGED <<eventsToWrite, dropped, msg, arrivals, hand>>
      BY <1>0, <1>4, GetStep DEF TakeInput, Carrying, Held
    <2> QED
      BY <1>a, <2>1, NumbersStay
  <1>5. CASE Keep
    <2>1. event \in Events /\ event \notin Range(eventsToWrite) /\ Message(event) \in Kept
      BY <1>5 DEF Keep, TypeOK, Owned, Held, Kept
    <2>2. Range(eventsToWrite') = Range(eventsToWrite) \cup {event}
      BY <1>5, <2>1, AppendToInjective DEF Keep, Owned, TypeOK
    <2>3. Carrying' \subseteq Carrying /\ UNCHANGED <<dropped, msg, arrivals, hand>>
      BY <1>5, <2>1, <2>2 DEF Keep, Carrying, Held, TypeOK
    <2> QED
      BY <1>a, <2>1, <2>2, <2>3, NumbersStay
  <1>6. CASE Drop
    <2>1. /\ Carrying' \subseteq Carrying /\ dropped' = dropped \cup {event}
          /\ Message(event) = "uncontrolled"
          /\ UNCHANGED <<eventsToWrite, msg, arrivals, hand>>
      BY <1>6 DEF Drop, Carrying, Held, TypeOK
    <2> QED
      BY <1>a, <2>1, NumbersStay
  <1>7. CASE GiveBack
    <2>1. /\ Carrying' \subseteq Carrying
          /\ UNCHANGED <<eventsToWrite, dropped, msg, arrivals, hand>>
      BY <1>7 DEF GiveBack, ReturnInputEvent, Carrying, Held
    <2> QED
      BY <1>a, <2>1, NumbersStay
  <1>8. CASE ReturnWritten
    <2>1. Range(eventsToWrite') \subseteq Range(eventsToWrite)
      BY <1>8, TailOfInjective DEF ReturnWritten, Owned, TypeOK
    <2>2. /\ Carrying' \subseteq Carrying
          /\ UNCHANGED <<dropped, msg, arrivals, hand>>
      BY <1>8, <2>1 DEF ReturnWritten, ReturnInputEvent, Carrying, Held
    <2> QED
      BY <1>a, <2>1, <2>2, NumbersStay
  <1>9. CASE CloseInput \/ DestroyPool
    BY <1>9 DEF CloseInput, Disconnect, DestroyPool, DeletePool, Numbered, Carrying, Message
  <1>10. CASE DestroyInput
    <2>1. /\ Carrying' \subseteq Carrying
          /\ UNCHANGED <<eventsToWrite, dropped, msg, arrivals, hand>>
      BY <1>10, EmptyIsInjective DEF DestroyInput, DeleteInput, Carrying, Held
    <2> QED
      BY <1>a, <2>1, NumbersStay
  <1> QED
    BY <1>1, <1>2, <1>3, <1>4, <1>5, <1>6, <1>7, <1>8, <1>9, <1>10
    DEF vars, mainVars, Next, Main, CallbackStep, Callback, Interrupt, Ended, LoopTest, Sleep,
        WriteFile

\* Queues are first in, first out, and a message is taken only when all the
\* older ones have been.
LEMMA NextOrdered == TypeOK /\ Owned /\ Numbered /\ Ordered /\ [Next]_vars => Ordered'
  <1> SUFFICES ASSUME TypeOK, Owned, Numbered, Ordered, [Next]_vars PROVE Ordered'
    OBVIOUS
  <1> USE DEF transportVars, callbackVars
  <1>0. /\ TransportTypeOK /\ IsInjective(pool) /\ IsInjective(input)
        /\ IsInjective(eventsToWrite)
        /\ input \in Seq(Events) /\ eventsToWrite \in Seq(Events)
    BY DEF TypeOK, Owned, TransportTypeOK
  <1>1. CASE UNCHANGED <<msg, input, event, eventsToWrite>>
    BY <1>1 DEF Ordered
  <1>2. ASSUME NEW kind \in Kinds, FillEvent(kind), UNCHANGED mainVars PROVE Ordered'
    <2>1. /\ \A i \in DOMAIN input : input[i] \in Carrying
          /\ \A i \in DOMAIN eventsToWrite : eventsToWrite[i] \in Carrying
          /\ Range(input) \subseteq Carrying /\ Range(eventsToWrite) \subseteq Carrying
          /\ Held(event) \subseteq Carrying
      BY DEF Carrying, Range
    <2>2. \A e \in Carrying : msg'[e] = msg[e]
      BY <1>2, FillNumbers
    <2>3. UNCHANGED <<input, event, eventsToWrite>>
      BY <1>2, FillNumbers DEF mainVars
    <2> QED
      BY <2>1, <2>2, <2>3 DEF Ordered
  <1>3. CASE PushEvent /\ UNCHANGED mainVars
    <2>1. hand \notin Range(input)
      BY <1>3 DEF PushEvent, Owned, Held
    <2>2. CASE input' = input
      BY <1>0, <1>3, <2>1, <2>2, PushStep DEF Ordered, mainVars
    <2>3. CASE input' = Append(input, hand)
      <3>1. hand \in Events /\ hand # NoEvent /\ UNCHANGED <<msg, event, eventsToWrite>>
        BY <1>0, <1>3, <2>1, PushStep DEF mainVars
      <3>2. \A e \in Range(input) \cup Range(eventsToWrite) \cup Held(event) :
              /\ e \in Carrying /\ e # hand /\ hand \in Carrying
        BY <3>1 DEF Carrying, Held, Owned
      <3>3. /\ Len(arrivals) \in Nat /\ msg[hand] = Len(arrivals)
            /\ \A e \in Carrying : msg[e] \in 1 .. Len(arrivals)
            /\ \A e, f \in Carrying : msg[e] = msg[f] => e = f
        BY <1>0, <3>1, LenProperties DEF Numbered, TransportTypeOK
      <3>4. \A e \in Range(input) \cup Range(eventsToWrite) \cup Held(event) :
              msg[e] < msg[hand]
        <4>1. ASSUME NEW e \in Range(input) \cup Range(eventsToWrite) \cup Held(event)
              PROVE  msg[e] < msg[hand]
          <5>1. msg[e] \in 1 .. Len(arrivals) /\ msg[e] # msg[hand]
            BY <3>2, <3>3
          <5> QED
            BY <3>3, <5>1
        <4> QED
          BY <4>1
      <3>5. /\ \A i, j \in DOMAIN input' : i < j => msg[input'[i]] < msg[input'[j]]
            /\ Range(input') = Range(input) \cup {hand}
        BY <1>0, <2>1, <2>3, <3>1, <3>4, IncreasingAppend, AppendToInjective DEF Ordered
      <3> QED
        BY <3>1, <3>4, <3>5 DEF Ordered
    <2> QED
      BY <1>0, <1>3, <2>1, <2>2, <2>3, PushStep
  <1>4. CASE TakeInput
    <2>1. /\ event' = Head(input) /\ input' = Tail(input) /\ input # <<>>
          /\ UNCHANGED <<msg, eventsToWrite>>
          /\ Head(input) \in Range(input) /\ Range(input') = Range(input) \ {Head(input)}
      BY <1>0, <1>4, GetStep DEF TakeInput, HasInputEvent
    <2>2. /\ \A i, j \in DOMAIN input' : i < j => msg[input'[i]] < msg[input'[j]]
          /\ \A f \in Range(input') : msg[Head(input)] < msg[f]
      BY <1>0, <2>1, IncreasingTail DEF Ordered
    <2> QED
      BY <2>1, <2>2 DEF Ordered, Held
  <1>5. CASE Keep
    <2>1. /\ event \in Events /\ event \in Held(event) /\ event \notin Range(eventsToWrite)
          /\ eventsToWrite' = Append(eventsToWrite, event) /\ Held(event)' = {}
          /\ UNCHANGED <<msg, input>>
      BY <1>5, TransportAssumption DEF Keep, TypeOK, Owned, Held
    <2>2. Range(eventsToWrite') = Range(eventsToWrite) \cup {event}
      BY <1>0, <2>1, AppendToInjective
    <2>3. \A i, j \in DOMAIN eventsToWrite' :
            i < j => msg[eventsToWrite'[i]] < msg[eventsToWrite'[j]]
      BY <1>0, <2>1, IncreasingAppend DEF Ordered
    <2> QED
      BY <2>1, <2>2, <2>3 DEF Ordered
  <1>6. CASE Drop \/ GiveBack
    BY <1>6 DEF Drop, GiveBack, ReturnInputEvent, Ordered, Held
  <1>7. CASE ReturnWritten
    <2>1. /\ eventsToWrite # <<>> /\ eventsToWrite' = Tail(eventsToWrite)
          /\ UNCHANGED <<msg, input, event>>
      BY <1>7 DEF ReturnWritten, ReturnInputEvent
    <2>2. Range(eventsToWrite') \subseteq Range(eventsToWrite)
      BY <1>0, <2>1, TailOfInjective
    <2>3. \A i, j \in DOMAIN eventsToWrite' :
            i < j => msg[eventsToWrite'[i]] < msg[eventsToWrite'[j]]
      BY <1>0, <2>1, IncreasingTail DEF Ordered
    <2> QED
      BY <2>1, <2>2, <2>3 DEF Ordered
  <1>8. CASE DestroyInput
    BY <1>8, EmptyIsInjective DEF DestroyInput, DeleteInput, Ordered
  <1> QED
    BY <1>1, <1>2, <1>3, <1>4, <1>5, <1>6, <1>7, <1>8
    DEF vars, mainVars, Next, Main, CallbackStep, Callback, Interrupt, Ended, LoopTest, Sleep,
        WriteFile, CloseInput, Disconnect, DestroyPool, DeletePool

\* The messages for the file are carried until it is written.
LEMMA NextComplete ==
  ASSUME TypeOK, Owned, Numbered, Ordered, Complete, Filed, [Next]_vars
  PROVE  Complete' /\ Filed'
  <1> USE DEF transportVars, callbackVars, Kept
  <1>0. /\ TransportTypeOK /\ IsInjective(pool) /\ IsInjective(input)
        /\ IsInjective(eventsToWrite) /\ eventsToWrite \in Seq(Events)
        /\ Len(arrivals) \in Nat
    BY LenProperties DEF TypeOK, Owned, TransportTypeOK
  <1>1. CASE UNCHANGED <<transportVars, mainVars>>
    BY <1>1 DEF Complete, Filed, mainVars, Numbers
  <1>2. ASSUME NEW kind \in Kinds, FillEvent(kind), UNCHANGED mainVars PROVE Complete' /\ Filed'
    <2> DEFINE places == Range(input) \cup Range(eventsToWrite) \cup Held(hand) \cup leaked
    <2>1. /\ UNCHANGED <<pc, input, event, eventsToWrite, file, leaked>> /\ Held(hand) = {}
          /\ hand' \in Held(hand)' /\ Held(event)' = Held(event)
      BY <1>0, <1>2, FillNumbers, FillStep DEF mainVars, Held
    <2>2. /\ \A e \in places \cup Held(event) : e \in Carrying
          /\ \A e \in Carrying : msg'[e] = msg[e]
      BY <1>2, FillNumbers DEF Carrying
    <2>3. \A k \in 1 .. Len(arrivals') :
            (k \in 1 .. Len(arrivals) /\ arrivals'[k] = arrivals[k]) \/ k = msg'[hand']
      BY <1>0, <1>2, FillNumbers
    <2>4. Complete'
      BY <2>1, <2>2, <2>3 DEF Complete
    <2>5. \A i \in DOMAIN eventsToWrite : eventsToWrite[i] \in Carrying
      BY DEF Carrying, Range
    <2>6. Numbers(eventsToWrite)' = Numbers(eventsToWrite)
      BY <2>1, <2>2, <2>5 DEF Numbers
    <2>7. Filed'
      BY <2>1, <2>2, <2>3, <2>6 DEF Filed
    <2> QED
      BY <2>4, <2>7
  <1>3. CASE PushEvent /\ UNCHANGED mainVars
    <2>1. hand \notin Range(input)
      BY <1>3 DEF PushEvent, Owned, Held
    <2>2. /\ Range(input) \cup Held(hand) \cup leaked
               \subseteq Range(input') \cup Held(hand') \cup leaked'
          /\ UNCHANGED <<msg, arrivals, pc, event, eventsToWrite, file>>
      BY <1>0, <1>3, <2>1, PushStep DEF mainVars, Held
    <2> QED
      BY <2>2 DEF Complete, Filed, Numbers
  <1>4. CASE TakeInput
    <2>1. /\ Head(input) \in Events /\ event' = Head(input)
          /\ Range(input') = Range(input) \ {Head(input)}
          /\ UNCHANGED <<msg, hand, leaked, arrivals, eventsToWrite>>
          /\ pc = "drain" /\ pc' = "handle" /\ Held(event) = {}
      BY <1>0, <1>4, GetStep DEF TakeInput, TypeOK, Held
    <2>2. Head(input) \in Held(event)'
      BY <2>1, TransportAssumption DEF Held
    <2> QED
      BY <2>1, <2>2 DEF Complete, Filed
  <1>5. CASE Keep
    <2>1. event \in Events /\ event \notin Range(eventsToWrite)
      BY <1>5 DEF Keep, TypeOK, Owned, Held
    <2>2. Range(eventsToWrite') = Range(eventsToWrite) \cup {event}
      BY <1>0, <1>5, <2>1, AppendToInjective DEF Keep
    <2>3. /\ Held(event) = {event} /\ pc = "handle" /\ pc' = "drain"
          /\ UNCHANGED <<msg, arrivals, input, hand, leaked>>
      BY <1>5, <2>1, TransportAssumption DEF Keep, Held
    <2> QED
      BY <2>2, <2>3 DEF Complete, Filed
  <1>6. CASE Drop \/ GiveBack
    <2>1. /\ UNCHANGED <<msg, arrivals, input, hand, leaked, eventsToWrite>>
          /\ arrivals[msg[event]] \notin Kept /\ pc = "handle" /\ pc' = "drain"
      BY <1>6 DEF Drop, GiveBack, ReturnInputEvent, Message
    <2>2. ASSUME NEW k \in 1 .. Len(arrivals), arrivals[k] \in Kept
          PROVE  \E e \in Range(input) \cup Range(eventsToWrite) \cup Held(hand) \cup leaked :
                   msg[e] = k
      <3>1. PICK e \in Range(input) \cup Range(eventsToWrite) \cup Held(hand) \cup Held(event)
                         \cup leaked : msg[e] = k
        BY <2>1, <2>2 DEF Complete
      <3>2. e \notin Held(event)
        BY <2>1, <2>2, <3>1 DEF Held
      <3> QED
        BY <3>1, <3>2
    <2> QED
      BY <2>1, <2>2 DEF Complete, Filed
  <1>7. CASE LoopTest \/ Sleep
    BY <1>7 DEF LoopTest, Sleep, Complete, Filed
  <1>8. CASE WriteFile
    <2>1. /\ UNCHANGED <<msg, arrivals, input, hand, leaked, eventsToWrite>>
          /\ pc = "write" /\ pc' = "return" /\ file' = Numbers(eventsToWrite) /\ Held(event) = {}
      BY <1>8 DEF WriteFile, TypeOK, Held
    <2>2. Len(Numbers(eventsToWrite)) = Len(eventsToWrite)
      BY <1>0, LenProperties DEF Numbers
    <2>3. Numbers(eventsToWrite)' = Numbers(eventsToWrite)
      BY <2>1 DEF Numbers
    <2> QED
      BY <1>0, <2>1, <2>2, <2>3, LenProperties DEF Complete, Filed
  <1>9. CASE ReturnWritten
    <2>1. /\ pc = "return" /\ UNCHANGED <<pc, file>> /\ eventsToWrite' = Tail(eventsToWrite)
          /\ Len(eventsToWrite) \in Nat /\ Len(Tail(eventsToWrite)) = Len(eventsToWrite) - 1
      BY <1>0, <1>9, HeadTailProperties, LenProperties DEF ReturnWritten
    <2>2. Len(file) \in Nat
      BY LenProperties DEF TypeOK
    <2>3. Len(eventsToWrite') < Len(file)
      BY <2>1, <2>2 DEF Filed
    <2> QED
      BY <2>1, <2>2, <2>3 DEF Complete, Filed
  <1>10. CASE CloseInput \/ DestroyPool \/ DestroyInput
    BY <1>10 DEF CloseInput, DestroyPool, DestroyInput, Complete, Filed
  <1> QED
    BY <1>1, <1>2, <1>3, <1>4, <1>5, <1>6, <1>7, <1>8, <1>9, <1>10
    DEF vars, mainVars, Next, Main, CallbackStep, Callback, Interrupt, Ended

-----------------------------------------------------------------------------
(* The results.                                                            *)

\* The invariants hold before the first message.
LEMMA InitInv == Init => Inv
  <1> SUFFICES ASSUME Init PROVE Inv
    OBVIOUS
  <1> USE TransportAssumption DEF Init
  <1>1. TransportTypeOK
    BY TransportInitType
  <1>2. TypeOK
    BY <1>1, EmptySeq DEF TypeOK
  <1>3. Owned
    BY EmptyIsInjective DEF TransportInit, Owned, Held
  <1>4. Carrying = {} /\ Range(input) = {} /\ Range(eventsToWrite) = {}
    BY EmptyIsInjective DEF TransportInit, Carrying, Held
  <1>5. Len(arrivals) = 0 /\ DOMAIN input = {} /\ DOMAIN eventsToWrite = {}
    BY EmptySeq DEF TransportInit
  <1>6. Numbered /\ Ordered
    BY <1>4, <1>5 DEF TransportInit, Numbered, Ordered, Carrying
  <1>7. Complete /\ Filed /\ AtRest
    BY <1>5 DEF TransportInit, Complete, Filed, AtRest
  <1> QED
    BY <1>2, <1>3, <1>6, <1>7 DEF Inv

\* The invariants hold in every state of every behaviour.
LEMMA Invariance == Spec => []Inv
  <1>1. Inv /\ [Next]_vars => Inv'
    BY NextType, NextOwned, NextNumbered, NextOrdered, NextComplete, NextAtRest DEF Inv
  <1> QED
    BY InitInv, <1>1, PTL DEF Spec

\* The variables of the recorder always have their types.
THEOREM TypeCorrect == Spec => []TypeOK
  <1>1. Inv => TypeOK
    BY DEF Inv
  <1> QED
    BY Invariance, <1>1, PTL

\* No Event is ever in two places, recycled while it is kept for the file, given
\* back twice or forgotten but by the two leaks.
THEOREM EveryEventAccountedFor == Spec => []EventsAccountedFor
  <1>1. Inv => EventsAccountedFor
    BY OwnedImpliesAccountedFor DEF Inv
  <1> QED
    BY Invariance, <1>1, PTL

\* What is not deleted at the end is what a push leaked, and the changes of
\* controllers that are not configured.
THEOREM OnlyForeignLeak == Spec => []OnlyForeignControllersLeak
  <1>1. Inv => OnlyForeignControllersLeak
    <2> SUFFICES ASSUME Inv PROVE OnlyForeignControllersLeak
      OBVIOUS
    <2>1. \A e \in dropped : Message(e) = "uncontrolled"
      BY DEF Inv, Numbered
    <2>2. pc = "done" => alive = leaked \cup dropped
      BY EmptyIsInjective DEF Inv, TypeOK, Owned, AtRest, Held
    <2> QED
      BY <2>1, <2>2 DEF OnlyForeignControllersLeak
  <1> QED
    BY Invariance, <1>1, PTL

\* However the callback and the loop interleave, and whenever ctrl-c comes, the
\* file has the notes and the changes of the configured controllers in order,
\* and misses none but those still on their way or lost by a push.
THEOREM FileIsComplete == Spec => []RecordedInOrder
  <1>1. Inv => RecordedInOrder
    <2> SUFFICES ASSUME Inv, pc = "return", eventsToWrite # <<>>,
                        Len(eventsToWrite) = Len(file)
                 PROVE  /\ Increasing(file)
                        /\ Range(file) =
                             {k \in 1 .. Len(arrivals) : arrivals[k] \in {"note", "controlled"}}
                               \ {msg[e] : e \in Range(input) \cup leaked \cup ({hand} \ {NoEvent})}
      BY DEF RecordedInOrder
    <2>1. /\ file = Numbers(eventsToWrite) /\ DOMAIN file = DOMAIN eventsToWrite
          /\ \A i \in DOMAIN file : file[i] = msg[eventsToWrite[i]]
      BY DEF Inv, Filed, Numbers
    <2>2. Increasing(file)
      BY <2>1 DEF Inv, Ordered, Increasing
    <2>3. Range(file) = {msg[e] : e \in Range(eventsToWrite)}
      BY <2>1 DEF Range
    <2> DEFINE others == Range(input) \cup leaked \cup ({hand} \ {NoEvent})
    <2>4. \A e \in Range(eventsToWrite) :
            msg[e] \in 1 .. Len(arrivals) /\ arrivals[msg[e]] \in {"note", "controlled"}
      BY DEF Inv, Numbered, Carrying, Message, Kept
    <2>5. \A e \in Range(eventsToWrite), f \in others : msg[e] # msg[f]
      BY DEF Inv, Numbered, Carrying, Owned, Held
    <2>6. \A k \in 1 .. Len(arrivals) : arrivals[k] \in {"note", "controlled"} =>
            \E e \in Range(eventsToWrite) \cup others : msg[e] = k
      BY DEF Inv, Filed, Kept, Held
    <2> HIDE DEF others
    <2>7. Range(file) = {k \in 1 .. Len(arrivals) : arrivals[k] \in {"note", "controlled"}}
                          \ {msg[e] : e \in others}
      BY <2>3, <2>4, <2>5, <2>6
    <2> QED
      BY <2>2, <2>7 DEF others
  <1> QED
    BY Invariance, <1>1, PTL
=============================================================================

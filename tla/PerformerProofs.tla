-------------------------- MODULE PerformerProofs ---------------------------
(***************************************************************************)
(* Proofs about Performer, for every number of Events, capacity, set of    *)
(* controllers, update period and length of run.                           *)
(***************************************************************************)
EXTENDS Performer, TransportProofs

\* Performer's constructor begins with variables of their types.
LEMMA InitType == Init => TypeOK
  <1> SUFFICES ASSUME Init PROVE TypeOK
    OBVIOUS
  <1>1. TransportTypeOK
    BY TransportInitType DEF Init
  <1>2. current \in CtrlValues /\ new \in CtrlValues
    BY PerformerAssumption DEF Init, CtrlValues
  <1>3. newAfter \in MessageNumbers
    BY TransportAssumption DEF Init, MessageNumbers
  <1> QED
    BY <1>1, <1>2, <1>3, EmptySeq, PerformerAssumption DEF Init, TypeOK, TransportInit

\* Every step leaves the transport as it is or does one of its operations, on an
\* Event that the main thread holds.
LEMMA TransportStep ==
  ASSUME TypeOK, [Next]_vars
  PROVE  \/ UNCHANGED transportVars
         \/ Callback
         \/ HasInputEvent /\ GetInputEvent
         \/ \E e \in Events : ReturnInputEvent(e)
         \/ Disconnect \/ DeletePool \/ DeleteInput
  <1>1. ASSUME pc = "handle" PROVE event \in Events
    BY <1>1 DEF TypeOK
  <1>2. ASSUME pc = "returnNote" PROVE Head(notes) \in Events
    BY <1>2, HeadTailProperties DEF TypeOK
  <1>3. ASSUME pc = "returnForwarded" PROVE Head(forward) \in Events
    BY <1>3, HeadTailProperties DEF TypeOK
  <1> QED
    BY <1>1, <1>2, <1>3
    DEF vars, Next, Main, CallbackStep, Interrupt, Tick, Ended, LoopTest, TakeInput, HandleNote,
        HandleOther, HandleControlled, SetNoteCtrls, NoNotes, PlayNote, ReturnNote, ForwardEvent,
        ReturnForwarded, Sleep, TimeIsUp, PutOff, TimedUpdate, CloseInput, DestroyPool, DestroyInput

\* Every step keeps the types, and no loop goes on with nothing in hand.
LEMMA NextType == TypeOK /\ [Next]_vars => TypeOK'
  <1> SUFFICES ASSUME TypeOK, [Next]_vars PROVE TypeOK'
    OBVIOUS
  <1>0. TransportTypeOK'
    BY TransportStep, StutterType, CallbackType, GetType, ReturnType, CloseType DEF TypeOK
  <1> USE TransportAssumption, PerformerAssumption, <1>0
      DEF TypeOK, ctrlVars, timeVars, outputVars
  <1>1. CASE LoopTest
    BY <1>1 DEF LoopTest
  <1>2. CASE TakeInput
    <2>1. Head(input) \in Events
      BY <1>2, HeadTailProperties DEF TakeInput, HasInputEvent, TransportTypeOK
    <2> QED
      BY <1>2, <2>1 DEF TakeInput
  <1>3. CASE HandleNote
    <2>1. /\ event \in Events /\ msg[event] \in MessageNumbers
          /\ Append(notes, event) \in Seq(Events)
      BY <1>3, AppendProperties DEF HandleNote, TransportTypeOK, MessageNumbers
    <2> QED
      BY <1>3, <2>1 DEF HandleNote, PassNetwork
  <1>4. CASE HandleOther
    <2>1. Append(forward, event) \in Seq(Events)
      BY <1>4, AppendProperties DEF HandleOther
    <2> QED
      BY <1>4, <2>1 DEF HandleOther
  <1>5. CASE HandleControlled
    BY <1>5 DEF HandleControlled
  <1>6. CASE SetNoteCtrls
    BY <1>6 DEF SetNoteCtrls, SetCtrls, CtrlValues
  <1>7. CASE NoNotes
    BY <1>7 DEF NoNotes
  <1>8. CASE PlayNote
    <2>1. msg[Head(notes)] \in MessageNumbers
      BY <1>8, HeadTailProperties DEF PlayNote, TransportTypeOK, MessageNumbers
    <2>2. Append(played, msg[Head(notes)]) \in Seq(MessageNumbers)
      BY <2>1, AppendProperties
    <2> QED
      BY <1>8, <2>2 DEF PlayNote
  <1>9. CASE ReturnNote
    <2>1. Tail(notes) \in Seq(Events)
      BY <1>9, HeadTailProperties DEF ReturnNote
    <2> QED
      BY <1>9, <2>1 DEF ReturnNote
  <1>10. CASE ForwardEvent
    <2>1. msg[Head(forward)] \in MessageNumbers
      BY <1>10, HeadTailProperties DEF ForwardEvent, TransportTypeOK, MessageNumbers
    <2>2. Append(forwarded, msg[Head(forward)]) \in Seq(MessageNumbers)
      BY <2>1, AppendProperties
    <2> QED
      BY <1>10, <2>2 DEF ForwardEvent
  <1>11. CASE ReturnForwarded
    <2>1. Tail(forward) \in Seq(Events)
      BY <1>11, HeadTailProperties DEF ReturnForwarded
    <2> QED
      BY <1>11, <2>1 DEF ReturnForwarded
  <1>12. CASE Sleep
    BY <1>12 DEF Sleep
  <1>13. CASE TimedUpdate
    <2>1. new' \in CtrlValues /\ newAfter' \in MessageNumbers
      BY <1>13 DEF TimedUpdate, PassNetwork
    <2>2. current' \in CtrlValues /\ synth' \in [Ctrls -> Vals \cup {NeverSent}]
      BY <1>13, <2>1 DEF TimedUpdate, SetCtrls, CtrlValues
    <2> QED
      BY <1>13, <2>1, <2>2 DEF TimedUpdate
  <1>14. CASE TimeIsUp \/ PutOff
    BY <1>14 DEF TimeIsUp, PutOff
  <1>15. CASE CloseInput
    BY <1>15 DEF CloseInput
  <1>16. CASE DestroyPool
    BY <1>16 DEF DestroyPool
  <1>17. CASE DestroyInput
    BY <1>17 DEF DestroyInput
  <1>18. CASE CallbackStep
    BY <1>18 DEF CallbackStep, mainVars
  <1>19. CASE Interrupt
    BY <1>19 DEF Interrupt, mainVars
  <1>20. CASE Tick
    BY <1>20 DEF Tick, mainVars
  <1>21. CASE Ended \/ UNCHANGED vars
    BY <1>21 DEF Ended, vars, mainVars
  <1> QED
    BY <1>1, <1>2, <1>3, <1>4, <1>5, <1>6, <1>7, <1>8, <1>9, <1>10, <1>11, <1>12, <1>13, <1>14,
       <1>15, <1>16, <1>17, <1>18, <1>19, <1>20, <1>21 DEF Next, Main

\* The variables of the performer always have their types, and its loops never
\* take an Event from an empty hand or vector.
THEOREM TypeCorrect == Spec => []TypeOK
  BY InitType, NextType, PTL DEF Spec

-----------------------------------------------------------------------------
(* Ownership of the Events.                                                *)

\* EventsAccountedFor, place by place.
Owned ==
  /\ IsInjective(pool) /\ IsInjective(input) /\ IsInjective(notes) /\ IsInjective(forward)
  /\ alive = Range(pool) \cup Range(input) \cup Range(notes) \cup Range(forward)
               \cup Held(hand) \cup Held(event) \cup leaked
  /\ Range(pool) \cap (Range(input) \cup Range(notes) \cup Range(forward)
                        \cup Held(hand) \cup Held(event) \cup leaked) = {}
  /\ Range(input) \cap (Range(notes) \cup Range(forward)
                         \cup Held(hand) \cup Held(event) \cup leaked) = {}
  /\ Range(notes) \cap (Range(forward) \cup Held(hand) \cup Held(event) \cup leaked) = {}
  /\ Range(forward) \cap (Held(hand) \cup Held(event) \cup leaked) = {}
  /\ Held(hand) \cap (Held(event) \cup leaked) = {}
  /\ Held(event) \cap leaked = {}

\* Owned is the part of EventsAccountedFor that speaks of the seven places.
LEMMA OwnedImpliesAccountedFor == Owned => EventsAccountedFor
  <1> SUFFICES ASSUME Owned PROVE EventsAccountedFor
    OBVIOUS
  <1> DEFINE places == <<Range(pool), Range(input), Range(notes), Range(forward),
                         Held(hand), Held(event), leaked>>
  <1>1. DOMAIN places = 1 .. 7
    OBVIOUS
  <1>2. \A i, j \in 1 .. 7 : i < j => places[i] \cap places[j] = {}
    BY DEF Owned
  <1>3. \A i, j \in 1 .. 7 : i # j => places[i] \cap places[j] = {}
    <2>1. ASSUME NEW i \in 1 .. 7, NEW j \in 1 .. 7, i # j PROVE places[i] \cap places[j] = {}
      <3>1. i < j \/ j < i
        BY <2>1
      <3> QED
        BY <1>2, <3>1
    <2> QED
      BY <2>1
  <1>4. Range(places) = {places[1], places[2], places[3], places[4], places[5], places[6],
                         places[7]}
    <2>1. Range(places) = {places[i] : i \in 1 .. 7}
      BY <1>1 DEF Range
    <2>2. 1 .. 7 = {1, 2, 3, 4, 5, 6, 7}
      OBVIOUS
    <2> HIDE DEF places
    <2> QED
      BY <2>1, <2>2
  <1>5. alive = UNION Range(places)
    BY <1>4 DEF Owned
  <1> QED
    BY <1>1, <1>3, <1>5 DEF Owned, EventsAccountedFor, Held

\* The Events EventPool allocates are in the pool and nowhere else.
LEMMA InitOwned == Init => Owned
  BY EmptyIsInjective, TransportAssumption DEF Init, TransportInit, Owned, Held

\* EventQueue::push moves an Event from the pool to the callback's hand, and from
\* there to the input queue or to nowhere.
LEMMA CallbackOwned ==
  ASSUME TransportTypeOK, Owned, Callback, UNCHANGED <<event, notes, forward>>
  PROVE  Owned'
  <1> USE TransportAssumption DEF Held
  <1>1. ASSUME NEW kind \in Kinds, FillEvent(kind) PROVE Owned'
    BY <1>1, FillStep DEF Owned
  <1>2. CASE PushEvent
    <2>1. hand \notin Range(input)
      BY <1>2 DEF PushEvent, Owned
    <2> QED
      BY <1>2, <2>1, PushStep DEF Owned
  <1> QED
    BY <1>1, <1>2 DEF Callback

\* Every step moves Events from one place to one other at most.
LEMMA NextOwned == TypeOK /\ Owned /\ [Next]_vars => Owned'
  <1> SUFFICES ASSUME TypeOK, Owned, [Next]_vars PROVE Owned'
    OBVIOUS
  <1> USE TransportAssumption DEF transportVars, callbackVars
  <1>1. CASE UNCHANGED <<transportVars, event, notes, forward>>
    BY <1>1 DEF Owned, Held
  <1>2. CASE TakeInput
    <2>1. /\ Head(input) \in Events /\ Head(input) \in Range(input)
          /\ IsInjective(Tail(input)) /\ Range(Tail(input)) = Range(input) \ {Head(input)}
      BY <1>2, TailOfInjective DEF TakeInput, HasInputEvent, Owned, TypeOK, TransportTypeOK
    <2>2. event = NoEvent
      BY <1>2 DEF TakeInput, TypeOK
    <2> QED
      BY <1>2, <2>1, <2>2 DEF TakeInput, GetInputEvent, Owned, Held
  <1>3. CASE HandleNote
    <2>1. event \in Events /\ event \notin Range(notes)
      BY <1>3 DEF HandleNote, TypeOK, Owned, Held
    <2>2. IsInjective(notes') /\ Range(notes') = Range(notes) \cup {event}
      BY <1>3, <2>1, AppendToInjective DEF HandleNote, Owned, TypeOK
    <2> QED
      BY <1>3, <2>1, <2>2 DEF HandleNote, Owned, Held
  <1>4. CASE HandleOther
    <2>1. event \in Events /\ event \notin Range(forward)
      BY <1>4 DEF HandleOther, TypeOK, Owned, Held
    <2>2. IsInjective(forward') /\ Range(forward') = Range(forward) \cup {event}
      BY <1>4, <2>1, AppendToInjective DEF HandleOther, Owned, TypeOK
    <2> QED
      BY <1>4, <2>1, <2>2 DEF HandleOther, Owned, Held
  <1>5. CASE HandleControlled
    <2>1. event \in Events /\ event \notin Range(pool)
      BY <1>5 DEF HandleControlled, TypeOK, Owned, Held
    <2>2. /\ IsInjective(pool')
          /\ \/ Range(pool') = Range(pool) \cup {event} /\ alive' = alive
             \/ Range(pool') = Range(pool) /\ alive' = alive \ {event}
          /\ UNCHANGED <<input, hand, leaked>>
      BY <1>5, <2>1, ReturnStep DEF HandleControlled, TypeOK, Owned
    <2> QED
      BY <1>5, <2>1, <2>2 DEF HandleControlled, Owned, Held
  <1>6. CASE ReturnNote
    <2>1. /\ Head(notes) \in Events /\ Head(notes) \in Range(notes)
          /\ IsInjective(notes') /\ Range(notes') = Range(notes) \ {Head(notes)}
      BY <1>6, TailOfInjective DEF ReturnNote, Owned, TypeOK
    <2>2. Head(notes) \notin Range(pool)
      BY <2>1 DEF Owned
    <2>3. /\ IsInjective(pool')
          /\ \/ Range(pool') = Range(pool) \cup {Head(notes)} /\ alive' = alive
             \/ Range(pool') = Range(pool) /\ alive' = alive \ {Head(notes)}
          /\ UNCHANGED <<input, hand, leaked>>
      BY <1>6, <2>1, <2>2, ReturnStep DEF ReturnNote, TypeOK, Owned
    <2> QED
      BY <1>6, <2>1, <2>3 DEF ReturnNote, Owned, Held
  <1>7. CASE ReturnForwarded
    <2>1. /\ Head(forward) \in Events /\ Head(forward) \in Range(forward)
          /\ IsInjective(forward') /\ Range(forward') = Range(forward) \ {Head(forward)}
      BY <1>7, TailOfInjective DEF ReturnForwarded, Owned, TypeOK
    <2>2. Head(forward) \notin Range(pool)
      BY <2>1 DEF Owned
    <2>3. /\ IsInjective(pool')
          /\ \/ Range(pool') = Range(pool) \cup {Head(forward)} /\ alive' = alive
             \/ Range(pool') = Range(pool) /\ alive' = alive \ {Head(forward)}
          /\ UNCHANGED <<input, hand, leaked>>
      BY <1>7, <2>1, <2>2, ReturnStep DEF ReturnForwarded, TypeOK, Owned
    <2> QED
      BY <1>7, <2>1, <2>3 DEF ReturnForwarded, Owned, Held
  <1>8. CASE CloseInput
    BY <1>8 DEF CloseInput, Disconnect, Owned, Held
  <1>9. CASE DestroyPool
    BY <1>9, EmptyIsInjective DEF DestroyPool, DeletePool, Owned, Held
  <1>10. CASE DestroyInput
    BY <1>10, EmptyIsInjective DEF DestroyInput, DeleteInput, Owned, Held
  <1>11. CASE CallbackStep
    BY <1>11, CallbackOwned DEF CallbackStep, mainVars, TypeOK
  <1> QED
    BY <1>1, <1>2, <1>3, <1>4, <1>5, <1>6, <1>7, <1>8, <1>9, <1>10, <1>11
    DEF vars, mainVars, Next, Main, Interrupt, Tick, Ended, LoopTest, SetNoteCtrls, NoNotes,
        PlayNote, ForwardEvent, Sleep, TimeIsUp, PutOff, TimedUpdate

\* No Event is ever in two places, recycled while it is still needed, returned
\* twice or forgotten, whatever the instrument sends and whenever.
THEOREM EveryEventAccountedFor == Spec => []EventsAccountedFor
  <1>1. Spec => [](TypeOK /\ Owned)
    BY InitType, NextType, InitOwned, NextOwned, PTL DEF Spec
  <1> QED
    BY <1>1, OwnedImpliesAccountedFor, PTL

-----------------------------------------------------------------------------
(* The end of the program.                                                 *)

\* Where the main thread may still hold Events, and what is empty when.
AtRest ==
  /\ hand # NoEvent => connected
  /\ connected => pc \notin {"deletePool", "deleteInput", "done"}
  /\ notes # <<>> => pc \in {"drain", "handle", "play", "returnNote"}
  /\ forward # <<>> =>
       pc \in {"drain", "handle", "play", "returnNote", "forward", "returnForwarded"}
  /\ pc \in {"deleteInput", "done"} => pool = <<>>
  /\ pc = "done" => input = <<>>

\* At the start the callback is connected and the vectors are empty.
LEMMA InitAtRest == Init => AtRest
  BY DEF Init, TransportInit, AtRest

\* Every turn of the loop empties the vectors it has filled, and the destructors
\* run after the callback is disconnected.
LEMMA NextAtRest == TypeOK /\ AtRest /\ [Next]_vars => AtRest'
  <1> SUFFICES ASSUME TypeOK, AtRest, [Next]_vars PROVE AtRest'
    OBVIOUS
  <1> USE DEF AtRest, transportVars, callbackVars
  <1>1. CASE UNCHANGED vars \/ Ended \/ Interrupt \/ Tick
    BY <1>1 DEF vars, mainVars, Ended, Interrupt, Tick
  <1>2. CASE CallbackStep
    <2>1. ASSUME NEW kind \in Kinds, FillEvent(kind) PROVE AtRest'
      BY <1>2, <2>1 DEF CallbackStep, mainVars, FillEvent, TypeOK
    <2>2. CASE PushEvent
      BY <1>2, <2>2 DEF CallbackStep, mainVars, PushEvent, TypeOK
    <2> QED
      BY <1>2, <2>1, <2>2 DEF CallbackStep, Callback
  <1>3. CASE LoopTest \/ TakeInput \/ HandleNote \/ HandleOther \/ HandleControlled
    BY <1>3 DEF LoopTest, TakeInput, GetInputEvent, HandleNote, HandleOther, HandleControlled,
                ReturnInputEvent
  <1>4. CASE SetNoteCtrls \/ NoNotes \/ PlayNote \/ ReturnNote \/ ForwardEvent \/ ReturnForwarded
    BY <1>4 DEF SetNoteCtrls, NoNotes, PlayNote, ReturnNote, ForwardEvent, ReturnForwarded,
                ReturnInputEvent
  <1>5. CASE Sleep \/ TimeIsUp \/ PutOff \/ TimedUpdate
    BY <1>5 DEF Sleep, TimeIsUp, PutOff, TimedUpdate
  <1>6. CASE CloseInput \/ DestroyPool \/ DestroyInput
    BY <1>6 DEF CloseInput, Disconnect, DestroyPool, DeletePool, DestroyInput, DeleteInput
  <1> QED
    BY <1>1, <1>2, <1>3, <1>4, <1>5, <1>6 DEF Next, Main

\* At the end every place but `leaked` is empty.
LEMMA NothingLeft == TypeOK /\ Owned /\ AtRest => NothingLeftAtExit
  BY EmptyIsInjective DEF TypeOK, Owned, AtRest, Held, NothingLeftAtExit

\* However the program is interrupted, it deletes every Event it has not leaked.
THEOREM AllDeletedAtExit == Spec => []NothingLeftAtExit
  <1>1. Spec => [](TypeOK /\ Owned /\ AtRest)
    BY InitType, NextType, InitOwned, NextOwned, InitAtRest, NextAtRest, PTL DEF Spec
  <1> QED
    BY <1>1, NothingLeft, PTL

-----------------------------------------------------------------------------
(* The update interval.                                                    *)

\* The next update is due a whole period after the last pass through the network,
\* unless notes that have just been heard are about to put it off.
Spaced ==
  /\ lastUpdate <= now
  /\ \/ nextUpdate = 0
     \/ lastUpdate + Period <= nextUpdate
     \/ notes # <<>> /\ pc \in {"drain", "handle"}

\* At the start no update is scheduled: the first is due at once.
LEMMA InitSpaced == Init => Spaced
  BY DEF Init, Spaced

\* Notes put the next update off before the loop comes to test the time.
LEMMA NextSpaced == TypeOK /\ AtRest /\ Spaced /\ [Next]_vars => Spaced'
  <1> SUFFICES ASSUME TypeOK, AtRest, Spaced, [Next]_vars PROVE Spaced'
    OBVIOUS
  <1> USE PerformerAssumption DEF Spaced, timeVars
  <1>0. now \in Nat /\ nextUpdate \in Nat /\ lastUpdate \in Nat
    BY DEF TypeOK
  <1>1. CASE UNCHANGED vars \/ Ended \/ Interrupt \/ Tick \/ CallbackStep
    BY <1>0, <1>1 DEF vars, mainVars, Ended, Interrupt, Tick, CallbackStep
  <1>2. CASE HandleNote
    <2>1. notes' # <<>> /\ pc' = "drain"
      BY <1>2, AppendProperties DEF HandleNote, TypeOK
    <2> QED
      BY <1>0, <1>2, <2>1 DEF HandleNote, PassNetwork
  <1>3. CASE SetNoteCtrls
    BY <1>0, <1>3 DEF SetNoteCtrls
  <1>4. CASE TimeIsUp \/ PutOff \/ TimedUpdate
    BY <1>0, <1>4 DEF TimeIsUp, PutOff, TimedUpdate, PassNetwork, AtRest
  <1>5. CASE LoopTest \/ TakeInput \/ HandleOther \/ HandleControlled \/ NoNotes
    BY <1>0, <1>5 DEF LoopTest, TakeInput, HandleOther, HandleControlled, NoNotes, AtRest
  <1>6. CASE PlayNote \/ ReturnNote \/ ForwardEvent \/ ReturnForwarded \/ Sleep
    BY <1>0, <1>6 DEF PlayNote, ReturnNote, ForwardEvent, ReturnForwarded, Sleep
  <1>7. CASE CloseInput \/ DestroyPool \/ DestroyInput
    BY <1>0, <1>7 DEF CloseInput, DestroyPool, DestroyInput
  <1> QED
    BY <1>1, <1>2, <1>3, <1>4, <1>5, <1>6, <1>7 DEF Next, Main

\* A timed update that finds its time come comes a period after the last pass.
LEMMA SpacedStep ==
  TypeOK /\ Spaced =>
    (pc = "forward" /\ now >= nextUpdate /\ nextUpdate > 0 => now >= lastUpdate + Period)
  BY PerformerAssumption DEF TypeOK, Spaced

\* Only a clock that reads as late as that leads to a timed update.
LEMMA TimeIsUpStep ==
  TypeOK /\ [Next]_vars => (pc = "forward" /\ pc' = "putOff" => now >= nextUpdate)
  BY DEF TypeOK, Next, Main, LoopTest, TakeInput, HandleNote, HandleOther, HandleControlled,
         SetNoteCtrls, NoNotes, PlayNote, ReturnNote, ForwardEvent, ReturnForwarded, Sleep,
         TimeIsUp, PutOff, TimedUpdate, CloseInput, DestroyPool, DestroyInput, Interrupt, Tick,
         CallbackStep, Ended, vars, mainVars

\* Without a note, no update begins before a whole update interval has gone by.
THEOREM UpdatesSpaced == Spec => UpdateSpacing
  <1>1. Spec => [](TypeOK /\ AtRest /\ Spaced)
    BY InitType, NextType, InitAtRest, NextAtRest, InitSpaced, NextSpaced, PTL DEF Spec
  <1> QED
    BY <1>1, SpacedStep, TimeIsUpStep, PTL DEF UpdateSpacing, Spec

-----------------------------------------------------------------------------
(* What is sent, and in which order.                                       *)


\* The numbers sent, then those of the Events of a vector, then those of the
\* Events that may still join it, with the messages arr that m numbers: each is
\* greater than those before, and those sent or waiting are of the kind.
Line(sent, waiting, later, m, arr, kind) ==
  /\ \A i, j \in DOMAIN sent : i < j => sent[i] < sent[j]
  /\ \A i, j \in DOMAIN waiting : i < j => m[waiting[i]] < m[waiting[j]]
  /\ \A k \in Range(sent) : k \in 1 .. Len(arr) /\ arr[k] = kind
  /\ \A e \in Range(waiting) : m[e] \in 1 .. Len(arr) /\ arr[m[e]] = kind
  /\ \A k \in Range(sent), e \in Range(waiting) \cup later : k < m[e]
  /\ \A e \in Range(waiting), f \in later : m[e] < m[f]

\* Every message of the kind is sent, waiting, or carried by one of the others.
AllThere(sent, waiting, others, m, arr, kind) ==
  \A k \in 1 .. Len(arr) :
    arr[k] = kind => k \in Range(sent) \/ \E e \in Range(waiting) \cup others : m[e] = k

-----------------------------------------------------------------------------
(* A line, whatever it is made of.                                         *)

\* Appending adds an element, and taking the head off adds none.
LEMMA RangeOfAppend ==
  ASSUME NEW S, NEW s \in Seq(S), NEW x \in S
  PROVE  Range(Append(s, x)) = Range(s) \cup {x}
  <1> DEFINE t == Append(s, x)
  <1>1. /\ Len(s) \in Nat /\ DOMAIN s = 1 .. Len(s) /\ DOMAIN t = 1 .. Len(s) + 1
        /\ \A i \in 1 .. Len(s) : t[i] = s[i]
        /\ t[Len(s) + 1] = x
    BY AppendProperties, LenProperties
  <1> HIDE DEF t
  <1>2. \A i \in 1 .. Len(s) + 1 : i \in 1 .. Len(s) \/ i = Len(s) + 1
    BY <1>1
  <1>3. \A i \in 1 .. Len(s) : i \in 1 .. Len(s) + 1
    BY <1>1
  <1>4. Len(s) + 1 \in 1 .. Len(s) + 1
    BY <1>1
  <1>5. Range(t) \subseteq Range(s) \cup {x}
    BY <1>1, <1>2 DEF Range
  <1>6. Range(s) \cup {x} \subseteq Range(t)
    BY <1>1, <1>3, <1>4 DEF Range
  <1> QED
    BY <1>5, <1>6 DEF t

\* A sequence is its head and the rest.
LEMMA RangeOfTail ==
  ASSUME NEW S, NEW s \in Seq(S), s # <<>>
  PROVE  /\ Head(s) \in Range(s) /\ Range(s) = Range(Tail(s)) \cup {Head(s)}
         /\ Tail(s) \in Seq(S) /\ Head(s) \in S
  <1>1. /\ Head(s) = s[1] /\ Tail(s) \in Seq(S) /\ Head(s) \in S
        /\ Len(s) \in Nat /\ Len(s) > 0 /\ Len(Tail(s)) = Len(s) - 1
        /\ \A i \in 1 .. Len(Tail(s)) : Tail(s)[i] = s[i + 1]
    BY HeadTailProperties, EmptySeq, LenProperties
  <1>2. DOMAIN s = 1 .. Len(s) /\ DOMAIN Tail(s) = 1 .. Len(s) - 1
    BY <1>1, LenProperties
  <1>3. ASSUME NEW x \in Range(Tail(s)) PROVE x \in Range(s)
    <2>1. PICK i \in DOMAIN Tail(s) : x = Tail(s)[i]
      BY <1>3 DEF Range
    <2>2. i + 1 \in DOMAIN s /\ x = s[i + 1]
      BY <1>1, <1>2, <2>1
    <2> QED
      BY <2>2 DEF Range
  <1>4. ASSUME NEW x \in Range(s), x # Head(s) PROVE x \in Range(Tail(s))
    <2>1. PICK i \in DOMAIN s : x = s[i]
      BY <1>4 DEF Range
    <2>2. i - 1 \in DOMAIN Tail(s) /\ x = Tail(s)[i - 1]
      BY <1>1, <1>2, <1>4, <2>1
    <2> QED
      BY <2>2 DEF Range
  <1>5. Head(s) \in Range(s)
    BY <1>1, <1>2 DEF Range
  <1> QED
    BY <1>1, <1>3, <1>4, <1>5

\* An Event that carries no message for the vector leaves the line as it is.
LEMMA LineFewer ==
  ASSUME NEW s, NEW w, NEW later, NEW m, NEW arr, NEW kind,
         Line(s, w, later, m, arr, kind), NEW less \in SUBSET later
  PROVE  Line(s, w, less, m, arr, kind)
  BY DEF Line

\* A message that arrives comes last.
LEMMA LineArrives ==
  ASSUME NEW s, NEW w, NEW later, NEW m, NEW K, NEW arr \in Seq(K), NEW kind, NEW last \in K,
         Line(s, w, later, m, arr, kind), NEW h, NEW m2,
         \A e \in Range(w) \cup later : m2[e] = m[e], m2[h] = Len(arr) + 1
  PROVE  Line(s, w, later \cup {h}, m2, Append(arr, last), kind)
  <1> DEFINE arr2 == Append(arr, last)
  <1>1. /\ Len(arr) \in Nat /\ Len(arr2) = Len(arr) + 1
        /\ \A k \in 1 .. Len(arr) : arr2[k] = arr[k] /\ k \in 1 .. Len(arr2) /\ k < Len(arr) + 1
    BY AppendProperties, LenProperties
  <1> HIDE DEF arr2
  <1>2. \A i \in DOMAIN w : w[i] \in Range(w)
    BY DEF Range
  <1>3. \A i, j \in DOMAIN w : i < j => m2[w[i]] < m2[w[j]]
    BY <1>2 DEF Line
  <1>4. \A e \in Range(w) : m2[e] \in 1 .. Len(arr) /\ arr[m2[e]] = kind
    BY DEF Line
  <1>5. \A k \in Range(s) : k \in 1 .. Len(arr) /\ arr[k] = kind
    BY DEF Line
  <1>6. \A k \in Range(s), e \in Range(w) \cup later \cup {h} : k < m2[e]
    <2>1. \A k \in Range(s) : k < m2[h]
      BY <1>1, <1>5
    <2>2. \A k \in Range(s), e \in Range(w) \cup later : k < m2[e]
      BY DEF Line
    <2> QED
      BY <2>1, <2>2
  <1>7. \A e \in Range(w), f \in later \cup {h} : m2[e] < m2[f]
    <2>1. \A e \in Range(w) : m2[e] < m2[h]
      BY <1>1, <1>4
    <2>2. \A e \in Range(w), f \in later : m2[e] < m2[f]
      BY DEF Line
    <2> QED
      BY <2>1, <2>2
  <1>8. \A i, j \in DOMAIN s : i < j => s[i] < s[j]
    BY DEF Line
  <1>9. Line(s, w, later \cup {h}, m2, arr2, kind)
    BY <1>1, <1>3, <1>4, <1>5, <1>6, <1>7, <1>8 DEF Line
  <1> QED
    BY <1>9 DEF arr2

\* The first of those still to come joins the vector.
LEMMA LineJoins ==
  ASSUME NEW s, NEW S, NEW w \in Seq(S), NEW later, NEW m, NEW arr, NEW kind,
         Line(s, w, later, m, arr, kind),
         NEW x \in S, x \in later, m[x] \in 1 .. Len(arr), arr[m[x]] = kind,
         NEW less \in SUBSET later, \A f \in less : m[x] < m[f]
  PROVE  Line(s, Append(w, x), less, m, arr, kind)
  <1>1. Range(Append(w, x)) = Range(w) \cup {x}
    BY RangeOfAppend
  <1>2. \A i, j \in DOMAIN Append(w, x) : i < j => m[Append(w, x)[i]] < m[Append(w, x)[j]]
    <2>1. \A i, j \in DOMAIN w : i < j => m[w[i]] < m[w[j]]
      BY DEF Line
    <2>2. \A y \in Range(w) : m[y] < m[x]
      BY DEF Line
    <2> QED
      BY <2>1, <2>2, IncreasingAppend
  <1> QED
    BY <1>1, <1>2 DEF Line

\* The first of the vector is sent.
LEMMA LineSends ==
  ASSUME NEW s \in Seq(Nat), NEW S, NEW w \in Seq(S), w # <<>>,
         NEW later, NEW m, NEW arr, NEW kind, Len(arr) \in Nat,
         Line(s, w, later, m, arr, kind)
  PROVE  Line(Append(s, m[Head(w)]), Tail(w), later, m, arr, kind)
  <1> DEFINE x == m[Head(w)]
             t == Append(s, x)
             r == Tail(w)
  <1>1. Head(w) \in Range(w) /\ Range(w) = Range(r) \cup {Head(w)}
    BY RangeOfTail
  <1>2. /\ \A i, j \in DOMAIN r : i < j => m[r[i]] < m[r[j]]
        /\ \A e \in Range(r) : x < m[e]
    <2>1. \A i, j \in DOMAIN w : i < j => m[w[i]] < m[w[j]]
      BY DEF Line
    <2> QED
      BY <2>1, IncreasingTail
  <1>3. x \in 1 .. Len(arr) /\ arr[x] = kind /\ x \in Nat
    <2>1. x \in 1 .. Len(arr) /\ arr[x] = kind
      BY <1>1 DEF Line
    <2> QED
      BY <2>1
  <1>4. Range(t) = Range(s) \cup {x}
    BY <1>3, RangeOfAppend
  <1>5. /\ Len(s) \in Nat /\ DOMAIN s = 1 .. Len(s) /\ DOMAIN t = 1 .. Len(s) + 1
        /\ \A i \in 1 .. Len(s) : t[i] = s[i] /\ s[i] \in Range(s)
        /\ t[Len(s) + 1] = x
    <2>1. /\ Len(s) \in Nat /\ DOMAIN s = 1 .. Len(s) /\ DOMAIN t = 1 .. Len(s) + 1
          /\ \A i \in 1 .. Len(s) : t[i] = s[i]
          /\ t[Len(s) + 1] = x
      BY <1>3, AppendProperties, LenProperties
    <2> QED
      BY <2>1 DEF Range
  <1>6. \A k \in Range(s), e \in Range(w) \cup later : k < m[e]
    BY DEF Line
  <1> HIDE DEF x, t, r
  <1>7. \A k \in Range(s) : k < x
    BY <1>1, <1>6 DEF x
  <1>8. \A i, j \in DOMAIN t : i < j => t[i] < t[j]
    <2>1. ASSUME NEW i \in DOMAIN t, NEW j \in DOMAIN t, i < j PROVE t[i] < t[j]
      <3>1. i \in 1 .. Len(s) /\ (j \in 1 .. Len(s) \/ j = Len(s) + 1)
        BY <1>5, <2>1
      <3>2. CASE j \in 1 .. Len(s)
        BY <1>5, <2>1, <3>1, <3>2 DEF Line
      <3>3. CASE j = Len(s) + 1
        BY <1>5, <1>7, <3>1, <3>3
      <3> QED
        BY <3>1, <3>2, <3>3
    <2> QED
      BY <2>1
  <1>9. \A k \in Range(t) : k \in 1 .. Len(arr) /\ arr[k] = kind
    BY <1>3, <1>4 DEF Line
  <1>10. \A e \in Range(r) : m[e] \in 1 .. Len(arr) /\ arr[m[e]] = kind
    BY <1>1 DEF Line
  <1>11. \A e \in Range(w), f \in later : m[e] < m[f]
    BY DEF Line
  <1>12. \A k \in Range(t), e \in Range(r) \cup later : k < m[e]
    BY <1>1, <1>2, <1>4, <1>6, <1>11 DEF x
  <1>13. Line(t, r, later, m, arr, kind)
    BY <1>1, <1>2, <1>8, <1>9, <1>10, <1>11, <1>12 DEF Line
  <1> QED
    BY <1>13 DEF t, r, x

-----------------------------------------------------------------------------
(* The lines of the performer.                                             *)

\* Carried messages, those of them that may still be played or forwarded, and
\* what of the vectors is not sent yet.
Carrying == Range(input) \cup Range(notes) \cup Range(forward) \cup Held(hand) \cup Held(event)
              \cup leaked
Later == Range(input) \cup Held(hand) \cup Held(event)
NotesWaiting == IF pc = "returnNote" THEN Tail(notes) ELSE notes
ForwardWaiting == IF pc = "returnForwarded" THEN Tail(forward) ELSE forward

\* What is carried has arrived, and comes in the order of arrival.
Numbered ==
  /\ \A e \in Carrying : msg[e] \in 1 .. Len(arrivals)
  /\ \A i, j \in DOMAIN input : i < j => msg[input[i]] < msg[input[j]]
  /\ \A e \in Held(event), f \in Range(input) \cup Held(hand) : msg[e] < msg[f]
  /\ \A e \in Range(input), f \in Held(hand) : msg[e] < msg[f]

NotesInLine == Line(played, NotesWaiting, Later, msg, arrivals, "note")
ForwardInLine == Line(forwarded, ForwardWaiting, Later, msg, arrivals, "other")

\* Until the input queue is deleted, nothing is missing from the lines.
NothingMissing ==
  pc # "done" =>
    /\ AllThere(played, NotesWaiting, Later \cup leaked, msg, arrivals, "note")
    /\ AllThere(forwarded, ForwardWaiting, Later \cup leaked, msg, arrivals, "other")

Lines == Numbered /\ NotesInLine /\ ForwardInLine /\ NothingMissing

\* At the start no message has come.
LEMMA InitLines == Init => Lines
  <1> SUFFICES ASSUME Init PROVE Lines
    OBVIOUS
  <1> USE TransportAssumption DEF Init, TransportInit
  <1>1. Carrying = {} /\ Later = {} /\ Range(<<>>) = {} /\ DOMAIN <<>> = {}
    BY EmptyIsInjective DEF Carrying, Later, Held
  <1>2. NotesWaiting = <<>> /\ ForwardWaiting = <<>> /\ Len(arrivals) = 0
    BY EmptySeq DEF NotesWaiting, ForwardWaiting
  <1>3. 1 .. Len(arrivals) = {}
    BY <1>2
  <1>4. Numbered
    BY <1>1 DEF Numbered, Later, Carrying
  <1>5. NotesInLine /\ ForwardInLine
    BY <1>1, <1>2 DEF NotesInLine, ForwardInLine, Line
  <1>6. NothingMissing
    BY <1>2, <1>3 DEF NothingMissing, AllThere
  <1> QED
    BY <1>4, <1>5, <1>6 DEF Lines

\* A message that arrives is the last of all the lines.
LEMMA FillLines ==
  ASSUME TypeOK, Owned, Lines, NEW kind \in Kinds, FillEvent(kind), UNCHANGED mainVars
  PROVE  Lines'
  <1> USE TransportAssumption
  <1>0. TransportTypeOK /\ IsInjective(pool)
    BY DEF TypeOK, Owned
  <1>1. /\ hand = NoEvent /\ hand' \in Events /\ hand' # NoEvent /\ hand' \notin Carrying
        /\ UNCHANGED <<input, leaked, pc, event, notes, forward, played, forwarded>>
        /\ arrivals' = Append(arrivals, kind)
        /\ msg' = [msg EXCEPT ![hand'] = Len(arrivals')]
    BY <1>0, FillStep DEF Owned, Carrying, mainVars, outputVars
  <1>2. arrivals \in Seq(Kinds) /\ msg \in [Events -> 0 .. MaxArrivals]
    BY <1>0 DEF TransportTypeOK
  <1>3. /\ Len(arrivals) \in Nat /\ Len(arrivals') = Len(arrivals) + 1
        /\ arrivals'[Len(arrivals')] = kind
        /\ \A k \in 1 .. Len(arrivals) : arrivals'[k] = arrivals[k]
    BY <1>1, <1>2, AppendProperties, LenProperties
  <1>4. \A e \in Carrying : e \in Events
    BY <1>0 DEF Owned, Carrying, Held, TypeOK, TransportTypeOK
  <1>5. /\ \A e \in Carrying : msg'[e] = msg[e]
        /\ msg'[hand'] = Len(arrivals) + 1
    BY <1>1, <1>2, <1>3, <1>4
  <1>6. /\ Carrying' = Carrying \cup {hand'} /\ Later' = Later \cup {hand'}
        /\ Held(hand) = {} /\ Held(hand)' = {hand'} /\ Held(event)' = Held(event)
        /\ Later \subseteq Carrying
    BY <1>1 DEF Carrying, Later, Held
  <1>7. /\ NotesWaiting' = NotesWaiting /\ ForwardWaiting' = ForwardWaiting
        /\ Range(NotesWaiting) \subseteq Carrying /\ Range(ForwardWaiting) \subseteq Carrying
    <2>1. pc = "returnNote" => Range(Tail(notes)) \subseteq Range(notes)
      BY RangeOfTail DEF TypeOK
    <2>2. pc = "returnForwarded" => Range(Tail(forward)) \subseteq Range(forward)
      BY RangeOfTail DEF TypeOK
    <2> QED
      BY <1>1, <2>1, <2>2 DEF NotesWaiting, ForwardWaiting, Carrying
  <1>8. Numbered'
    <2>1. \A e \in Carrying' : msg'[e] \in 1 .. Len(arrivals')
      <3>1. ASSUME NEW e \in Carrying PROVE msg'[e] \in 1 .. Len(arrivals')
        BY <1>3, <1>5 DEF Lines, Numbered
      <3> QED
        BY <1>3, <1>5, <1>6, <3>1
    <2>2. \A e \in Carrying : msg'[e] < msg'[hand']
      BY <1>3, <1>5 DEF Lines, Numbered
    <2>3. \A i \in DOMAIN input : input[i] \in Carrying
      BY DEF Carrying, Range
    <2>4. Range(input) \subseteq Carrying /\ Held(event) \subseteq Carrying
      BY DEF Carrying
    <2> QED
      BY <1>1, <1>5, <1>6, <2>1, <2>2, <2>3, <2>4 DEF Lines, Numbered
  <1>9. NotesInLine'
    <2>1. Line(played, NotesWaiting, Later \cup {hand'}, msg', Append(arrivals, kind), "note")
      BY <1>2, <1>5, <1>6, <1>7, LineArrives DEF Lines, NotesInLine
    <2> QED
      BY <1>1, <1>6, <1>7, <2>1 DEF NotesInLine
  <1>10. ForwardInLine'
    <2>1. Line(forwarded, ForwardWaiting, Later \cup {hand'}, msg', Append(arrivals, kind), "other")
      BY <1>2, <1>5, <1>6, <1>7, LineArrives DEF Lines, ForwardInLine
    <2> QED
      BY <1>1, <1>6, <1>7, <2>1 DEF ForwardInLine
  <1>11. NothingMissing'
    <2>1. \A k \in 1 .. Len(arrivals') :
            (k \in 1 .. Len(arrivals) /\ arrivals'[k] = arrivals[k]) \/ k = msg'[hand']
      BY <1>3, <1>5
    <2>2. leaked \subseteq Carrying
      BY DEF Carrying
    <2>3. \A e \in Range(NotesWaiting) \cup Range(ForwardWaiting) \cup Later \cup leaked :
            msg'[e] = msg[e]
      BY <1>5, <1>6, <1>7, <2>2
    <2> QED
      BY <1>1, <1>6, <1>7, <2>1, <2>3 DEF Lines, NothingMissing, AllThere
  <1> QED
    BY <1>8, <1>9, <1>10, <1>11 DEF Lines

\* The callback's Event, the last of all, goes to the end of the queue or is lost.
LEMMA PushLines ==
  ASSUME TypeOK, Owned, Lines, PushEvent, UNCHANGED mainVars
  PROVE  Lines'
  <1> USE TransportAssumption
  <1>0. TransportTypeOK /\ IsInjective(input) /\ input \in Seq(Events) /\ hand \notin Range(input)
    BY DEF TypeOK, Owned, TransportTypeOK, PushEvent, Held
  <1>1. /\ hand \in Events /\ hand # NoEvent /\ hand' = NoEvent
        /\ UNCHANGED <<msg, arrivals, pc, event, notes, forward, played, forwarded>>
        /\ \/ /\ input' = Append(input, hand) /\ Range(input') = Range(input) \cup {hand}
              /\ leaked' = leaked
           \/ input' = input /\ leaked' = leaked \cup {hand}
    BY <1>0, PushStep DEF mainVars, outputVars
  <1>2. /\ Held(hand) = {hand} /\ Held(hand)' = {} /\ Held(event)' = Held(event)
        /\ Carrying' \subseteq Carrying /\ Later' \subseteq Later
        /\ Later' \cup leaked' = Later \cup leaked
        /\ NotesWaiting' = NotesWaiting /\ ForwardWaiting' = ForwardWaiting
    BY <1>1 DEF Held, Carrying, Later, NotesWaiting, ForwardWaiting
  <1>3. \A i, j \in DOMAIN input' : i < j => msg[input'[i]] < msg[input'[j]]
    <2>1. CASE input' = input
      BY <2>1 DEF Lines, Numbered
    <2>2. CASE input' = Append(input, hand)
      BY <1>0, <1>1, <1>2, <2>2, IncreasingAppend DEF Lines, Numbered
    <2> QED
      BY <1>1, <2>1, <2>2
  <1>4. Numbered'
    BY <1>1, <1>2, <1>3 DEF Lines, Numbered
  <1>5. NotesInLine' /\ ForwardInLine'
    BY <1>1, <1>2, LineFewer DEF Lines, NotesInLine, ForwardInLine
  <1>6. NothingMissing'
    BY <1>1, <1>2 DEF Lines, NothingMissing
  <1> QED
    BY <1>4, <1>5, <1>6 DEF Lines

\* Taking an Event off the queue changes no line: it is still to come, and first.
LEMMA TakeLines ==
  ASSUME TypeOK, Owned, Lines, TakeInput
  PROVE  Lines'
  <1> USE TransportAssumption DEF transportVars, callbackVars, outputVars
  <1>0. TransportTypeOK /\ IsInjective(input) /\ input \in Seq(Events)
    BY DEF TypeOK, Owned, TransportTypeOK
  <1>1. /\ event = NoEvent /\ event' = Head(input) /\ input' = Tail(input) /\ input # <<>>
        /\ Head(input) \in Events /\ Head(input) \in Range(input)
        /\ Range(input') = Range(input) \ {Head(input)}
        /\ UNCHANGED <<msg, arrivals, hand, leaked, notes, forward, played, forwarded>>
        /\ pc = "drain" /\ pc' = "handle"
    BY <1>0, GetStep DEF TakeInput, HasInputEvent, TypeOK
  <1>2. /\ Held(event) = {} /\ Held(event)' = {Head(input)} /\ Held(hand)' = Held(hand)
        /\ Carrying' = Carrying /\ Later' = Later
        /\ NotesWaiting' = NotesWaiting /\ ForwardWaiting' = ForwardWaiting
    BY <1>1 DEF Held, Carrying, Later, NotesWaiting, ForwardWaiting
  <1>3. /\ \A i, j \in DOMAIN input' : i < j => msg[input'[i]] < msg[input'[j]]
        /\ \A f \in Range(input') : msg[Head(input)] < msg[f]
    BY <1>0, <1>1, IncreasingTail DEF Lines, Numbered
  <1>4. Numbered'
    BY <1>1, <1>2, <1>3 DEF Lines, Numbered
  <1>5. NotesInLine' /\ ForwardInLine' /\ NothingMissing'
    BY <1>1, <1>2 DEF Lines, NotesInLine, ForwardInLine, NothingMissing
  <1> QED
    BY <1>4, <1>5 DEF Lines

\* What handling an Event does to those still to come: it was the first.
LEMMA HandleStep ==
  ASSUME TypeOK, Owned, Lines, HandleNote \/ HandleOther \/ HandleControlled
  PROVE  /\ event \in Events /\ Held(event) = {event} /\ Held(event)' = {}
         /\ event \in Later /\ Later' \subseteq Later /\ Later = Later' \cup {event}
         /\ \A f \in Later' : msg[event] < msg[f]
         /\ msg[event] \in 1 .. Len(arrivals)
         /\ UNCHANGED <<msg, arrivals, input, hand, leaked, played, forwarded>>
         /\ pc = "handle" /\ pc' = "drain"
         /\ NotesWaiting = notes /\ NotesWaiting' = notes'
         /\ ForwardWaiting = forward /\ ForwardWaiting' = forward'
  <1> USE TransportAssumption DEF transportVars, callbackVars, outputVars
  <1>1. /\ pc = "handle" /\ pc' = "drain" /\ event' = NoEvent
        /\ UNCHANGED <<msg, arrivals, input, hand, leaked, played, forwarded>>
    BY DEF HandleNote, HandleOther, HandleControlled, ReturnInputEvent
  <1>2. event \in Events
    BY <1>1 DEF TypeOK
  <1>3. Held(event) = {event} /\ Held(event)' = {} /\ Held(hand)' = Held(hand)
    BY <1>1, <1>2 DEF Held
  <1>4. Later' = Range(input) \cup Held(hand) /\ Later = Later' \cup {event}
    BY <1>1, <1>3 DEF Later
  <1>5. \A f \in Later' : msg[event] < msg[f]
    BY <1>3, <1>4 DEF Lines, Numbered
  <1>6. msg[event] \in 1 .. Len(arrivals)
    BY <1>3 DEF Lines, Numbered, Carrying
  <1> QED
    BY <1>1, <1>2, <1>3, <1>4, <1>5, <1>6 DEF NotesWaiting, ForwardWaiting

\* An Event handled joins the line of its kind.
LEMMA HandleLines ==
  ASSUME TypeOK, Owned, Lines, HandleNote \/ HandleOther \/ HandleControlled
  PROVE  Lines'
  <1>0. /\ event \in Events /\ Held(event) = {event} /\ Held(event)' = {}
        /\ event \in Later /\ Later' \subseteq Later /\ Later = Later' \cup {event}
        /\ \A f \in Later' : msg[event] < msg[f]
        /\ msg[event] \in 1 .. Len(arrivals)
        /\ UNCHANGED <<msg, arrivals, input, hand, leaked, played, forwarded>>
        /\ pc = "handle" /\ pc' = "drain"
        /\ NotesWaiting = notes /\ NotesWaiting' = notes'
        /\ ForwardWaiting = forward /\ ForwardWaiting' = forward'
        /\ notes \in Seq(Events) /\ forward \in Seq(Events)
    BY HandleStep DEF TypeOK
  <1>a. NotesInLine /\ ForwardInLine /\ NothingMissing /\ Numbered
    BY DEF Lines
  <1>b. /\ AllThere(played, notes, Later \cup leaked, msg, arrivals, "note")
        /\ AllThere(forwarded, forward, Later \cup leaked, msg, arrivals, "other")
    BY <1>0, <1>a DEF NothingMissing
  <1>c. ASSUME Carrying' \subseteq Carrying PROVE Numbered'
    BY <1>0, <1>a, <1>c DEF Numbered
  <1>1. CASE HandleNote
    <2>1. notes' = Append(notes, event) /\ forward' = forward /\ arrivals[msg[event]] = "note"
      BY <1>1 DEF HandleNote, Message
    <2>2. Range(notes') = Range(notes) \cup {event}
      BY <1>0, <2>1, RangeOfAppend
    <2>3. Carrying' \subseteq Carrying
      BY <1>0, <2>1, <2>2 DEF Carrying, Held
    <2>4. NotesInLine'
      <3>1. Line(played, Append(notes, event), Later', msg, arrivals, "note")
        BY <1>0, <1>a, <2>1, LineJoins DEF NotesInLine
      <3> QED
        BY <1>0, <2>1, <3>1 DEF NotesInLine
    <2>5. ForwardInLine'
      BY <1>0, <1>a, <2>1, LineFewer DEF ForwardInLine
    <2>6. NothingMissing'
      <3>1. AllThere(played, notes', Later' \cup leaked, msg, arrivals, "note")
        BY <1>0, <1>b, <2>2 DEF AllThere
      <3>2. AllThere(forwarded, forward, Later' \cup leaked, msg, arrivals, "other")
        BY <1>0, <1>b, <2>1 DEF AllThere
      <3> QED
        BY <1>0, <2>1, <3>1, <3>2 DEF NothingMissing
    <2> QED
      BY <1>c, <2>3, <2>4, <2>5, <2>6 DEF Lines
  <1>2. CASE HandleOther
    <2>1. forward' = Append(forward, event) /\ notes' = notes /\ arrivals[msg[event]] = "other"
      BY <1>2 DEF HandleOther, Message
    <2>2. Range(forward') = Range(forward) \cup {event}
      BY <1>0, <2>1, RangeOfAppend
    <2>3. Carrying' \subseteq Carrying
      BY <1>0, <2>1, <2>2 DEF Carrying, Held
    <2>4. ForwardInLine'
      <3>1. Line(forwarded, Append(forward, event), Later', msg, arrivals, "other")
        BY <1>0, <1>a, <2>1, LineJoins DEF ForwardInLine
      <3> QED
        BY <1>0, <2>1, <3>1 DEF ForwardInLine
    <2>5. NotesInLine'
      BY <1>0, <1>a, <2>1, LineFewer DEF NotesInLine
    <2>6. NothingMissing'
      <3>1. AllThere(forwarded, forward', Later' \cup leaked, msg, arrivals, "other")
        BY <1>0, <1>b, <2>2 DEF AllThere
      <3>2. AllThere(played, notes, Later' \cup leaked, msg, arrivals, "note")
        BY <1>0, <1>b, <2>1 DEF AllThere
      <3> QED
        BY <1>0, <2>1, <3>1, <3>2 DEF NothingMissing
    <2> QED
      BY <1>c, <2>3, <2>4, <2>5, <2>6 DEF Lines
  <1>3. CASE HandleControlled
    <2>1. forward' = forward /\ notes' = notes /\ arrivals[msg[event]] = "controlled"
      BY <1>3 DEF HandleControlled, Message
    <2>2. Carrying' \subseteq Carrying
      BY <1>0, <2>1 DEF Carrying, Held
    <2>3. NotesInLine' /\ ForwardInLine'
      BY <1>0, <1>a, <2>1, LineFewer DEF NotesInLine, ForwardInLine
    <2>4. NothingMissing'
      <3>1. /\ AllThere(played, notes, Later' \cup leaked, msg, arrivals, "note")
            /\ AllThere(forwarded, forward, Later' \cup leaked, msg, arrivals, "other")
        BY <1>0, <1>b, <2>1 DEF AllThere
      <3> QED
        BY <1>0, <2>1, <3>1 DEF NothingMissing
    <2> QED
      BY <1>c, <2>2, <2>3, <2>4 DEF Lines
  <1> QED
    BY <1>1, <1>2, <1>3

\* What is sent leaves the head of its vector, now or when its Event is given back.
LEMMA SendLines ==
  ASSUME TypeOK, Owned, Lines, PlayNote \/ ReturnNote \/ ForwardEvent \/ ReturnForwarded
  PROVE  Lines'
  <1> USE DEF transportVars, callbackVars, outputVars
  <1>0. /\ NotesInLine /\ ForwardInLine /\ NothingMissing /\ Numbered
        /\ notes \in Seq(Events) /\ forward \in Seq(Events)
        /\ played \in Seq(Nat) /\ forwarded \in Seq(Nat) /\ Len(arrivals) \in Nat
    <2>1. MessageNumbers \subseteq Nat
      BY DEF MessageNumbers
    <2>2. played \in Seq(Nat) /\ forwarded \in Seq(Nat)
      BY <2>1, SeqMonotonic DEF TypeOK
    <2>3. Len(arrivals) \in Nat
      BY LenProperties DEF TypeOK, TransportTypeOK
    <2> QED
      BY <2>2, <2>3 DEF Lines, TypeOK
  <1>1. UNCHANGED <<msg, arrivals, input, hand, event, leaked>>
    BY DEF PlayNote, ReturnNote, ForwardEvent, ReturnForwarded, ReturnInputEvent
  <1>2. Later' = Later
    BY <1>1 DEF Later, Held
  <1>3. CASE PlayNote
    <2>1. /\ played' = Append(played, msg[Head(notes)]) /\ pc = "play" /\ pc' = "returnNote"
          /\ notes # <<>> /\ UNCHANGED <<notes, forward, forwarded>>
          /\ NotesWaiting = notes /\ NotesWaiting' = Tail(notes)
          /\ ForwardWaiting' = ForwardWaiting
      BY <1>3 DEF PlayNote, TypeOK, NotesWaiting, ForwardWaiting
    <2>2. Numbered'
      BY <1>0, <1>1, <2>1 DEF Numbered, Carrying, Held
    <2>3. NotesInLine'
      <3>1. Line(Append(played, msg[Head(notes)]), Tail(notes), Later, msg, arrivals, "note")
        BY <1>0, <2>1, LineSends DEF NotesInLine
      <3> QED
        BY <1>1, <1>2, <2>1, <3>1 DEF NotesInLine
    <2>4. ForwardInLine'
      BY <1>0, <1>1, <1>2, <2>1 DEF ForwardInLine
    <2>5. AllThere(played', Tail(notes), Later \cup leaked, msg, arrivals, "note")
      <3>1. Range(notes) = Range(Tail(notes)) \cup {Head(notes)} /\ Head(notes) \in Range(notes)
        BY <1>0, <2>1, RangeOfTail
      <3>2. msg[Head(notes)] \in Nat
        <4>1. msg[Head(notes)] \in 1 .. Len(arrivals)
          BY <1>0, <3>1 DEF Numbered, Carrying
        <4> QED
          BY <4>1
      <3>3. Range(played') = Range(played) \cup {msg[Head(notes)]}
        <4>1. PICK x \in Nat : x = msg[Head(notes)]
          BY <3>2
        <4>2. played \in Seq(Nat)
          BY <1>0
        <4>3. Range(Append(played, x)) = Range(played) \cup {x}
          BY <4>2, RangeOfAppend
        <4> QED
          BY <2>1, <4>1, <4>3
      <3>4. AllThere(played, notes, Later \cup leaked, msg, arrivals, "note")
        BY <1>0, <2>1 DEF NothingMissing
      <3> QED
        BY <3>1, <3>3, <3>4 DEF AllThere
    <2>6. NothingMissing'
      BY <1>0, <1>1, <1>2, <2>1, <2>5 DEF NothingMissing
    <2> QED
      BY <2>2, <2>3, <2>4, <2>6 DEF Lines
  <1>4. CASE ForwardEvent
    <2>1. /\ forwarded' = Append(forwarded, msg[Head(forward)])
          /\ pc = "forward" /\ pc' = "returnForwarded"
          /\ forward # <<>> /\ UNCHANGED <<notes, forward, played>>
          /\ ForwardWaiting = forward /\ ForwardWaiting' = Tail(forward)
          /\ NotesWaiting' = NotesWaiting
      BY <1>4 DEF ForwardEvent, NotesWaiting, ForwardWaiting
    <2>2. Numbered'
      BY <1>0, <1>1, <2>1 DEF Numbered, Carrying, Held
    <2>3. ForwardInLine'
      <3>1. Line(Append(forwarded, msg[Head(forward)]), Tail(forward), Later, msg, arrivals,
                 "other")
        BY <1>0, <2>1, LineSends DEF ForwardInLine
      <3> QED
        BY <1>1, <1>2, <2>1, <3>1 DEF ForwardInLine
    <2>4. NotesInLine'
      BY <1>0, <1>1, <1>2, <2>1 DEF NotesInLine
    <2>5. AllThere(forwarded', Tail(forward), Later \cup leaked, msg, arrivals, "other")
      <3>1. /\ Range(forward) = Range(Tail(forward)) \cup {Head(forward)}
            /\ Head(forward) \in Range(forward)
        BY <1>0, <2>1, RangeOfTail
      <3>2. msg[Head(forward)] \in Nat
        <4>1. msg[Head(forward)] \in 1 .. Len(arrivals)
          BY <1>0, <3>1 DEF Numbered, Carrying
        <4> QED
          BY <4>1
      <3>3. Range(forwarded') = Range(forwarded) \cup {msg[Head(forward)]}
        <4>1. PICK x \in Nat : x = msg[Head(forward)]
          BY <3>2
        <4>2. forwarded \in Seq(Nat)
          BY <1>0
        <4>3. Range(Append(forwarded, x)) = Range(forwarded) \cup {x}
          BY <4>2, RangeOfAppend
        <4> QED
          BY <2>1, <4>1, <4>3
      <3>4. AllThere(forwarded, forward, Later \cup leaked, msg, arrivals, "other")
        BY <1>0, <2>1 DEF NothingMissing
      <3> QED
        BY <3>1, <3>3, <3>4 DEF AllThere
    <2>6. NothingMissing'
      BY <1>0, <1>1, <1>2, <2>1, <2>5 DEF NothingMissing
    <2> QED
      BY <2>2, <2>3, <2>4, <2>6 DEF Lines
  <1>5. CASE ReturnNote \/ ReturnForwarded
    <2>1. /\ NotesWaiting' = NotesWaiting /\ ForwardWaiting' = ForwardWaiting
          /\ UNCHANGED <<played, forwarded>> /\ pc # "done"
      BY <1>5 DEF ReturnNote, ReturnForwarded, NotesWaiting, ForwardWaiting
    <2>2. Range(notes') \subseteq Range(notes) /\ Range(forward') \subseteq Range(forward)
      BY <1>0, <1>5, RangeOfTail DEF ReturnNote, ReturnForwarded, TypeOK
    <2>3. Carrying' \subseteq Carrying
      BY <1>1, <2>2 DEF Carrying, Held
    <2>4. Numbered'
      BY <1>0, <1>1, <2>3 DEF Numbered, Held
    <2> QED
      BY <1>0, <1>1, <1>2, <2>1, <2>4 DEF Lines, NotesInLine, ForwardInLine, NothingMissing
  <1> QED
    BY <1>3, <1>4, <1>5

\* Every step keeps the lines.
LEMMA NextLines == TypeOK /\ Owned /\ Lines /\ [Next]_vars => Lines'
  <1> SUFFICES ASSUME TypeOK, Owned, Lines, [Next]_vars PROVE Lines'
    OBVIOUS
  <1> USE DEF transportVars, callbackVars, outputVars, mainVars
  <1>1. ASSUME UNCHANGED <<msg, arrivals, input, hand, event, leaked, notes, forward, played,
                           forwarded>>,
               NotesWaiting' = NotesWaiting, ForwardWaiting' = ForwardWaiting,
               pc' # "done" => pc # "done"
        PROVE  Lines'
    <2>1. Carrying' = Carrying /\ Later' = Later /\ Held(event)' = Held(event)
          /\ Held(hand)' = Held(hand)
      BY <1>1 DEF Carrying, Later, Held
    <2>2. Numbered'
      BY <1>1, <2>1 DEF Lines, Numbered
    <2> QED
      BY <1>1, <2>1, <2>2 DEF Lines, NotesInLine, ForwardInLine, NothingMissing
  <1>2. CASE LoopTest \/ SetNoteCtrls \/ NoNotes \/ Sleep \/ TimeIsUp \/ PutOff \/ TimedUpdate
    BY <1>1, <1>2 DEF LoopTest, SetNoteCtrls, NoNotes, Sleep, TimeIsUp, PutOff, TimedUpdate,
                      NotesWaiting, ForwardWaiting
  <1>3. CASE CloseInput \/ DestroyPool
    BY <1>1, <1>3 DEF CloseInput, Disconnect, DestroyPool, DeletePool, NotesWaiting,
                      ForwardWaiting
  <1>4. CASE Interrupt \/ Tick \/ Ended \/ UNCHANGED vars
    BY <1>1, <1>4 DEF Interrupt, Tick, Ended, vars, NotesWaiting, ForwardWaiting
  <1>5. CASE DestroyInput
    <2>1. /\ input' = <<>> /\ pc' = "done" /\ pc = "deleteInput"
          /\ UNCHANGED <<msg, arrivals, hand, event, leaked, notes, forward, played, forwarded>>
          /\ NotesWaiting' = NotesWaiting /\ ForwardWaiting' = ForwardWaiting
      BY <1>5 DEF DestroyInput, DeleteInput, NotesWaiting, ForwardWaiting
    <2>2. /\ Carrying' \subseteq Carrying /\ Later' \subseteq Later /\ Range(input)' = {}
          /\ DOMAIN input' = {} /\ Held(event)' = Held(event) /\ Held(hand)' = Held(hand)
      BY <2>1, EmptyIsInjective DEF Carrying, Later, Held
    <2>3. Numbered'
      BY <2>1, <2>2 DEF Lines, Numbered
    <2>4. NotesInLine' /\ ForwardInLine'
      BY <2>1, <2>2, LineFewer DEF Lines, NotesInLine, ForwardInLine
    <2> QED
      BY <2>1, <2>3, <2>4 DEF Lines, NothingMissing
  <1>6. CASE CallbackStep
    BY <1>6, FillLines, PushLines DEF CallbackStep, Callback
  <1> QED
    BY <1>2, <1>3, <1>4, <1>5, <1>6, TakeLines, HandleLines, SendLines DEF Next, Main

-----------------------------------------------------------------------------
(* Delivery.                                                               *)

\* Two sequences in order, all of the first before all of the second.
LEMMA IncreasingConcat ==
  ASSUME NEW s \in Seq(Nat), NEW t \in Seq(Nat), Increasing(s), Increasing(t),
         \A x \in Range(s), y \in Range(t) : x < y
  PROVE  Increasing(s \o t)
  <1> DEFINE u == s \o t
  <1>1. /\ Len(s) \in Nat /\ Len(t) \in Nat /\ DOMAIN s = 1 .. Len(s) /\ DOMAIN t = 1 .. Len(t)
        /\ DOMAIN u = 1 .. Len(s) + Len(t)
        /\ \A i \in 1 .. Len(s) + Len(t) : u[i] = IF i <= Len(s) THEN s[i] ELSE t[i - Len(s)]
    BY ConcatProperties, LenProperties
  <1> HIDE DEF u
  <1>2. ASSUME NEW i \in DOMAIN u, NEW j \in DOMAIN u, i < j PROVE u[i] < u[j]
    <2>1. CASE j <= Len(s)
      <3>1. i \in DOMAIN s /\ j \in DOMAIN s /\ u[i] = s[i] /\ u[j] = s[j]
        BY <1>1, <1>2, <2>1
      <3> QED
        BY <1>2, <3>1 DEF Increasing
    <2>2. CASE i > Len(s)
      <3>1. /\ i - Len(s) \in DOMAIN t /\ j - Len(s) \in DOMAIN t /\ i - Len(s) < j - Len(s)
            /\ u[i] = t[i - Len(s)] /\ u[j] = t[j - Len(s)]
        BY <1>1, <1>2, <2>2
      <3> QED
        BY <3>1 DEF Increasing
    <2>3. CASE i <= Len(s) /\ j > Len(s)
      <3>1. /\ i \in DOMAIN s /\ j - Len(s) \in DOMAIN t
            /\ u[i] = s[i] /\ u[j] = t[j - Len(s)]
        BY <1>1, <1>2, <2>3
      <3> QED
        BY <3>1 DEF Range
    <2> QED
      BY <1>1, <2>1, <2>2, <2>3
  <1> QED
    BY <1>2 DEF Increasing, u

\* A line with nothing missing is Delivered.
LEMMA LineDelivers ==
  ASSUME TypeOK, Numbered, NEW sent \in Seq(Nat), NEW waiting \in Seq(Events), NEW kind,
         Line(sent, waiting, Later, msg, arrivals, kind),
         AllThere(sent, waiting, Later \cup leaked, msg, arrivals, kind)
  PROVE  Delivered(sent, waiting, kind)
  <1> DEFINE onTheWay == Range(input) \cup leaked \cup ({hand, event} \ {NoEvent})
             numbers == Numbers(waiting)
  <1>1. onTheWay = Later \cup leaked /\ onTheWay \subseteq Carrying
    BY DEF Later, Carrying, Held
  <1>2. /\ Len(waiting) \in Nat /\ DOMAIN waiting = 1 .. Len(waiting)
        /\ \A i \in 1 .. Len(waiting) : waiting[i] \in Range(waiting)
    BY LenProperties DEF Range
  <1>3. \A e \in Range(waiting) :
          msg[e] \in Nat /\ msg[e] \in 1 .. Len(arrivals) /\ arrivals[msg[e]] = kind
    BY DEF Line
  <1>4. numbers \in Seq(Nat) /\ DOMAIN numbers = DOMAIN waiting
        /\ \A i \in DOMAIN waiting : numbers[i] = msg[waiting[i]]
    <2>1. numbers = [i \in 1 .. Len(waiting) |-> msg[waiting[i]]]
      BY <1>2 DEF Numbers
    <2>2. \A i \in 1 .. Len(waiting) : msg[waiting[i]] \in Nat
      BY <1>2, <1>3
    <2> QED
      BY <1>2, <2>1, <2>2, IsASeq
  <1>5. Range(numbers) = {msg[e] : e \in Range(waiting)}
    BY <1>4 DEF Range
  <1> HIDE DEF numbers, onTheWay
  <1>6. Increasing(sent) /\ Increasing(numbers)
    BY <1>4 DEF Line, Increasing
  <1>7. \A x \in Range(sent), y \in Range(numbers) : x < y
    BY <1>5 DEF Line
  <1>8. Increasing(sent \o numbers)
    BY <1>4, <1>6, <1>7, IncreasingConcat
  <1>9. \A e \in onTheWay : msg[e] \in 1 .. Len(arrivals)
    BY <1>1 DEF Numbered
  <1>10. \A k \in Range(sent) : k \in 1 .. Len(arrivals) /\ arrivals[k] = kind
    BY DEF Line
  <1>11. {k \in 1 .. Len(arrivals) : arrivals[k] = kind} =
           Range(sent) \cup Range(numbers)
             \cup {k \in {msg[e] : e \in onTheWay} : arrivals[k] = kind}
    <2>1. ASSUME NEW k \in 1 .. Len(arrivals), arrivals[k] = kind
          PROVE  k \in Range(sent) \cup Range(numbers)
                         \cup {n \in {msg[e] : e \in onTheWay} : arrivals[n] = kind}
      BY <1>1, <1>5, <2>1 DEF AllThere
    <2>2. \A k \in Range(numbers) : k \in 1 .. Len(arrivals) /\ arrivals[k] = kind
      BY <1>3, <1>5
    <2> QED
      BY <1>9, <1>10, <2>1, <2>2
  <1> QED
    BY <1>8, <1>11 DEF Delivered, onTheWay, numbers

\* Whatever the instrument sends, and whenever, notes and forwarded messages go
\* out once each, in the order they came in, and the player's own changes of
\* driven controllers do not.
THEOREM AllDelivered == Spec => []MessagesDelivered
  <1>1. Spec => [](TypeOK /\ Owned /\ Lines)
    BY InitType, NextType, InitOwned, NextOwned, InitLines, NextLines, PTL DEF Spec
  <1>2. TypeOK /\ Lines => MessagesDelivered
    <2> SUFFICES ASSUME TypeOK, Lines, pc \notin {"deleteInput", "done"}
                 PROVE  /\ Delivered(played, NotesWaiting, "note")
                        /\ Delivered(forwarded, ForwardWaiting, "other")
      BY DEF MessagesDelivered, NotesWaiting, ForwardWaiting
    <2>1. MessageNumbers \subseteq Nat
      BY DEF MessageNumbers
    <2>2. played \in Seq(Nat) /\ forwarded \in Seq(Nat)
      BY <2>1, SeqMonotonic DEF TypeOK
    <2>3. NotesWaiting \in Seq(Events) /\ ForwardWaiting \in Seq(Events)
      BY HeadTailProperties DEF TypeOK, NotesWaiting, ForwardWaiting
    <2>4. /\ Numbered /\ NotesInLine /\ ForwardInLine
          /\ AllThere(played, NotesWaiting, Later \cup leaked, msg, arrivals, "note")
          /\ AllThere(forwarded, ForwardWaiting, Later \cup leaked, msg, arrivals, "other")
      BY DEF Lines, NothingMissing
    <2> QED
      BY <2>2, <2>3, <2>4, LineDelivers DEF NotesInLine, ForwardInLine
  <1> QED
    BY <1>1, <1>2, PTL

-----------------------------------------------------------------------------
(* Controls before notes.                                                  *)

\* The synthesizer knows the values last set; while notes are played those are
\* the network's latest; and these were given after the last note waiting.
Told == \A c \in Ctrls : synth[c] = current[c] \/ (synth[c] = NeverSent /\ current[c] = 0)
TellsNew == pc \in {"play", "returnNote"} => new = current
Heard == \A e \in Range(notes) : msg[e] <= newAfter

Controls == Told /\ TellsNew /\ Heard

\* At the start nothing is sent and no note waits.
LEMMA InitControls == Init => Controls
  <1>1. Range(<<>>) = {}
    BY EmptyIsInjective
  <1> QED
    BY <1>1 DEF Init, Controls, Told, TellsNew, Heard

\* Every step keeps the controllers told, and the notes waiting heard.
LEMMA NextControls == TypeOK /\ Owned /\ Lines /\ Controls /\ [Next]_vars => Controls'
  <1> SUFFICES ASSUME TypeOK, Owned, Lines, Controls, [Next]_vars PROVE Controls'
    OBVIOUS
  <1> USE DEF transportVars, callbackVars, outputVars, ctrlVars, timeVars, mainVars
  <1>1. ASSUME UNCHANGED <<synth, current, new, newAfter, msg, notes>>,
               pc' \in {"play", "returnNote"} => pc \in {"play", "returnNote"}
        PROVE  Controls'
    BY <1>1 DEF Controls, Told, TellsNew, Heard
  <1>2. CASE LoopTest \/ TakeInput \/ HandleOther \/ HandleControlled \/ NoNotes \/ PlayNote
               \/ ForwardEvent \/ ReturnForwarded \/ Sleep \/ TimeIsUp \/ PutOff
    BY <1>1, <1>2 DEF LoopTest, TakeInput, HandleOther, HandleControlled, NoNotes, PlayNote,
                      ForwardEvent, ReturnForwarded, Sleep, TimeIsUp, PutOff, GetInputEvent,
                      ReturnInputEvent
  <1>3. CASE CloseInput \/ DestroyPool \/ DestroyInput \/ Interrupt \/ Tick \/ Ended
               \/ UNCHANGED vars
    BY <1>1, <1>3 DEF CloseInput, DestroyPool, DestroyInput, Disconnect, DeletePool, DeleteInput,
                      Interrupt, Tick, Ended, vars
  <1>4. CASE HandleNote
    <2>1. /\ event \in Events /\ event \in Later /\ msg[event] \in 1 .. Len(arrivals)
          /\ NotesWaiting = notes /\ notes \in Seq(Events)
          /\ UNCHANGED msg /\ pc' = "drain"
      BY <1>4, HandleStep DEF TypeOK, HandleNote
    <2>2. /\ notes' = Append(notes, event) /\ newAfter' = msg[event]
          /\ UNCHANGED <<synth, current>>
      BY <1>4 DEF HandleNote, PassNetwork
    <2>3. \A e \in Range(notes) : msg[e] < msg[event] /\ msg[e] \in 1 .. Len(arrivals)
      BY <2>1 DEF Lines, NotesInLine, Line
    <2>4. Range(notes') = Range(notes) \cup {event}
      BY <2>1, <2>2, RangeOfAppend
    <2>5. Len(arrivals) \in Nat
      BY LenProperties DEF TypeOK, TransportTypeOK
    <2>6. Heard'
      BY <2>1, <2>2, <2>3, <2>4, <2>5 DEF Heard
    <2> QED
      BY <2>1, <2>2, <2>6 DEF Controls, Told, TellsNew
  <1>5. CASE SetNoteCtrls
    BY <1>5 DEF SetNoteCtrls, SetCtrls, Controls, Told, TellsNew, Heard
  <1>6. CASE TimedUpdate
    <2>1. /\ current' = new' /\ pc' = "head" /\ newAfter' = newAfter
          /\ synth' = [c \in Ctrls |-> IF new'[c] # current[c] THEN new'[c] ELSE synth[c]]
          /\ UNCHANGED <<msg, notes>>
      BY <1>6 DEF TimedUpdate, SetCtrls, PassNetwork
    <2> QED
      BY <2>1 DEF Controls, Told, TellsNew, Heard
  <1>7. CASE ReturnNote
    <2>1. /\ notes' = Tail(notes) /\ UNCHANGED <<msg, synth, current, new, newAfter>>
          /\ pc = "returnNote"
      BY <1>7 DEF ReturnNote, ReturnInputEvent
    <2>2. Range(notes') \subseteq Range(notes)
      BY <2>1, RangeOfTail DEF TypeOK
    <2> QED
      BY <2>1, <2>2 DEF Controls, Told, TellsNew, Heard
  <1>8. CASE CallbackStep
    <2>1. UNCHANGED mainVars /\ \A e \in Range(notes) : msg'[e] = msg[e]
      <3>1. CASE PushEvent
        BY <1>8, <3>1 DEF CallbackStep, PushEvent
      <3>2. ASSUME NEW kind \in Kinds, FillEvent(kind)
            PROVE  \A e \in Range(notes) : msg'[e] = msg[e]
        <4>1. /\ hand' \notin Range(notes) /\ Range(notes) \subseteq Events
              /\ msg' = [msg EXCEPT ![hand'] = Len(arrivals')]
              /\ msg \in [Events -> 0 .. MaxArrivals]
          BY <3>2, FillStep DEF TypeOK, Owned, TransportTypeOK
        <4> QED
          BY <4>1
      <3> QED
        BY <1>8, <3>1, <3>2 DEF CallbackStep, Callback
    <2> QED
      BY <2>1 DEF Controls, Told, TellsNew, Heard
  <1> QED
    BY <1>2, <1>3, <1>4, <1>5, <1>6, <1>7, <1>8 DEF Next, Main

\* Whatever the network computes, a note goes out once the synthesizer has been
\* told values that the network gave after hearing that note.
THEOREM ControlsFirst == Spec => ControlsPrecedeNotes
  <1>1. ASSUME TypeOK, Lines, Controls, [Next]_vars, played' # played
        PROVE  /\ newAfter >= Last(played')
               /\ \A c \in Ctrls : synth[c] = new[c] \/ (synth[c] = NeverSent /\ new[c] = 0)
    <2> USE DEF transportVars, callbackVars, outputVars, mainVars
    <2>1. PlayNote
      BY <1>1 DEF Next, Main, LoopTest, TakeInput, HandleNote, HandleOther, HandleControlled,
                  SetNoteCtrls, SetCtrls, NoNotes, ReturnNote, ForwardEvent, ReturnForwarded,
                  Sleep, TimeIsUp, PutOff, TimedUpdate, CloseInput, DestroyPool, DestroyInput,
                  Interrupt, Tick,
                  CallbackStep, Ended, vars
    <2>2. pc = "play" /\ played' = Append(played, msg[Head(notes)]) /\ notes # <<>>
      BY <1>1, <2>1 DEF PlayNote, TypeOK
    <2>3. Head(notes) \in Range(notes) /\ Head(notes) \in Events
      BY <1>1, <2>2, RangeOfTail DEF TypeOK
    <2>4. PICK x \in MessageNumbers : x = msg[Head(notes)]
      BY <1>1, <2>3 DEF TypeOK, TransportTypeOK, MessageNumbers
    <2>5. played \in Seq(MessageNumbers)
      BY <1>1 DEF TypeOK
    <2>6. Last(Append(played, x)) = x
      BY <2>5, AppendProperties DEF Last
    <2>7. newAfter \in MessageNumbers /\ x <= newAfter
      BY <1>1, <2>3, <2>4 DEF TypeOK, Controls, Heard
    <2>8. newAfter >= Last(played')
      BY <2>2, <2>4, <2>6, <2>7 DEF MessageNumbers
    <2> QED
      BY <1>1, <2>2, <2>8 DEF Controls, Told, TellsNew
  <1>2. Spec => [](TypeOK /\ Owned /\ Lines /\ Controls)
    BY InitType, NextType, InitOwned, NextOwned, InitLines, NextLines, InitControls, NextControls,
       PTL DEF Spec
  <1>3. TypeOK /\ Lines /\ Controls /\ [Next]_vars =>
          [played' # played =>
             /\ newAfter >= Last(played')
             /\ \A c \in Ctrls : synth[c] = new[c] \/ (synth[c] = NeverSent /\ new[c] = 0)]_played
    BY <1>1
  <1> QED
    BY <1>2, <1>3, PTL DEF Spec, ControlsPrecedeNotes
=============================================================================

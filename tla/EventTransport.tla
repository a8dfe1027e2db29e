--------------------------- MODULE EventTransport ---------------------------
(***************************************************************************)
(* How MIDI messages reach larasynth: RtMidiClient, EventQueue, EventPool. *)
(*                                                                         *)
(* RtMidi's thread runs input_callback, which copies each message into an  *)
(* Event taken from the pool (or a new one) and pushes the Event's pointer *)
(* on the input queue.  The main thread takes pointers off the input queue *)
(* and gives them back to the pool.  So the callback thread consumes the   *)
(* pool and produces the queue, the main thread the other way round: both  *)
(* are the single-producer, single-consumer queues of module SpscQueue,    *)
(* and are used here as the FIFOs of module Fifo.                          *)
(*                                                                         *)
(* Messages are numbered in their order of arrival; an Event holds the     *)
(* number of the message it carries.                                       *)
(***************************************************************************)
EXTENDS Naturals, Sequences, SequencesExt, Functions

CONSTANTS
  Events,       \* the addresses at which an Event can be allocated
  NoEvent,      \* nullptr
  Capacity,     \* of the input queue and of the pool (the same argument)
  Kinds,        \* the kinds of messages an instrument sends
  MaxArrivals   \* bound: messages arriving in a behaviour

ASSUME TransportAssumption ==
  /\ NoEvent \notin Events
  /\ Capacity \in Nat \ {0}
  /\ MaxArrivals \in Nat

VARIABLES
  alive,      \* the Events allocated and not deleted
  msg,        \* the number of the message in each Event (0: none yet)
  pool,       \* EventPool::_rb
  input,      \* the input queue
  hand,       \* the Event the callback is filling, or NoEvent
  leaked,     \* Events whose push failed: nobody refers to them any more
  arrivals,   \* the kinds of the messages that have arrived
  connected   \* the callback is registered and RtMidi's thread runs

callbackVars == <<hand, leaked, arrivals>>
transportVars == <<alive, msg, pool, input, callbackVars, connected>>

Message(e) == arrivals[msg[e]]

\* EventPool(capacity) allocates capacity / 2 Events.
TransportInit ==
  /\ pool \in [1 .. Capacity \div 2 -> Events] /\ IsInjective(pool)
  /\ alive = Range(pool)
  /\ msg = [e \in Events |-> 0]
  /\ input = <<>> /\ hand = NoEvent /\ leaked = {} /\ arrivals = <<>>
  /\ connected = TRUE

-----------------------------------------------------------------------------
(* The callback thread: EventQueue::push( message ).                       *)

\* get_unused_event and set_event.  Only this thread takes Events from the pool,
\* so the pool found non-empty still is when its front is popped.
FillEvent(kind) ==
  /\ connected /\ hand = NoEvent
  /\ Len(arrivals) < MaxArrivals
  /\ IF pool = <<>>
     THEN /\ \E e \in Events \ alive : hand' = e
          /\ alive' = alive \cup {hand'}
          /\ UNCHANGED pool
     ELSE hand' = Head(pool) /\ pool' = Tail(pool) /\ UNCHANGED alive
  /\ arrivals' = Append(arrivals, kind)
  /\ msg' = [msg EXCEPT ![hand'] = Len(arrivals')]
  /\ UNCHANGED <<input, leaked, connected>>

\* enqueue fails only if the queue is at its capacity and no block can be
\* allocated; push ignores its result.
PushEvent ==
  /\ hand # NoEvent
  /\ \/ input' = Append(input, hand) /\ UNCHANGED leaked
     \/ /\ Len(input) >= Capacity
        /\ leaked' = leaked \cup {hand} /\ UNCHANGED input
  /\ hand' = NoEvent
  /\ UNCHANGED <<alive, msg, pool, arrivals, connected>>

Callback == (\E kind \in Kinds : FillEvent(kind)) \/ PushEvent

-----------------------------------------------------------------------------
(* What the main thread calls.                                             *)

HasInputEvent == input # <<>>

\* The Event returned is Head(input).
GetInputEvent ==
  /\ input' = Tail(input)
  /\ UNCHANGED <<alive, msg, pool, callbackVars, connected>>

\* push_or_delete_if_full: try_enqueue fails only at capacity, or succeeds thanks
\* to the slots that rounding the capacity up has added.
ReturnInputEvent(e) ==
  /\ \/ pool' = Append(pool, e) /\ UNCHANGED alive
     \/ /\ Len(pool) >= Capacity
        /\ alive' = alive \ {e} /\ UNCHANGED pool
  /\ UNCHANGED <<msg, input, callbackVars, connected>>

\* ~RtMidiClient deletes _midi_in, whose destructor joins RtMidi's thread: no
\* callback is running after it.
Disconnect ==
  /\ hand = NoEvent
  /\ connected' = FALSE
  /\ UNCHANGED <<alive, msg, pool, input, callbackVars>>

\* Then the members go: ~EventPool deletes what is in the pool, after which
\* ~RWQLockFreeQueue deletes what is left in the input queue.
DeletePool ==
  /\ alive' = alive \ Range(pool) /\ pool' = <<>>
  /\ UNCHANGED <<msg, input, callbackVars, connected>>

DeleteInput ==
  /\ alive' = alive \ Range(input) /\ input' = <<>>
  /\ UNCHANGED <<msg, pool, callbackVars, connected>>

-----------------------------------------------------------------------------
(* For the properties of the programs that use the transport.              *)

Increasing(s) == \A i, j \in DOMAIN s : i < j => s[i] < s[j]

\* The numbers of the messages in a sequence of Events.
Numbers(s) == [i \in DOMAIN s |-> msg[s[i]]]

\* The variables have their types.
TransportTypeOK ==
  /\ alive \subseteq Events /\ leaked \subseteq Events
  /\ msg \in [Events -> 0 .. MaxArrivals]
  /\ pool \in Seq(Events) /\ input \in Seq(Events)
  /\ hand \in Events \cup {NoEvent}
  /\ arrivals \in Seq(Kinds) /\ Len(arrivals) <= MaxArrivals
  /\ connected \in BOOLEAN
=============================================================================

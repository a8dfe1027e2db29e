-------------------------------- MODULE Fifo --------------------------------
(***************************************************************************)
(* What ReaderWriterQueue<T> promises its two threads, independently of    *)
(* the blocks it is made of: a bounded-or-growing FIFO used by ONE         *)
(* producer and ONE consumer, whose operations take effect atomically at   *)
(* some instant between their call and their return.                       *)
(*                                                                         *)
(*  - an enqueue may fail only if the queue held Capacity elements when    *)
(*    the call began ("can hold maxSize elements without further           *)
(*    allocations");                                                       *)
(*  - a dequeue or a peek may report an empty queue only if the queue was  *)
(*    empty when the call began; otherwise it delivers the oldest element. *)
(***************************************************************************)
EXTENDS Naturals, Sequences

CONSTANTS Values,     \* what the queue stores
          Nil         \* the answer of a dequeue or peek that found nothing

VARIABLES
  capacity,   \* the constructor's maxSize
  queue,      \* the elements, oldest first
  producer,   \* the producer's call in progress
  consumer    \* the consumer's call in progress and its last answer

fifoVars == <<capacity, queue, producer, consumer>>

Producers == [busy : BOOLEAN, val : Values \cup {Nil}, full : BOOLEAN]
Consumers == [op : {"none", "peek", "dequeue"}, empty : BOOLEAN,
              last : {"none", "peek", "dequeue"}, got : Values \cup {Nil}]

Init ==
  /\ capacity \in Nat \ {0}
  /\ queue = <<>>
  /\ producer = [busy |-> FALSE, val |-> Nil, full |-> FALSE]
  /\ consumer = [op |-> "none", empty |-> FALSE, last |-> "none", got |-> Nil]

EnqueueCall ==
  /\ ~producer.busy
  /\ \E v \in Values :
       producer' = [busy |-> TRUE, val |-> v, full |-> Len(queue) >= capacity]
  /\ UNCHANGED <<capacity, queue, consumer>>

EnqueueReturn ==
  /\ producer.busy
  /\ \/ queue' = Append(queue, producer.val)
     \/ producer.full /\ UNCHANGED queue
  /\ producer' = [busy |-> FALSE, val |-> Nil, full |-> FALSE]
  /\ UNCHANGED <<capacity, consumer>>

ConsumerCall ==
  /\ consumer.op = "none"
  /\ \E op \in {"peek", "dequeue"} :
       consumer' = [consumer EXCEPT !.op = op, !.empty = (queue = <<>>)]
  /\ UNCHANGED <<capacity, queue, producer>>

Answer(v) ==
  consumer' = [op |-> "none", empty |-> FALSE, last |-> consumer.op, got |-> v]

FindNothing ==
  /\ consumer.op # "none"
  /\ consumer.empty
  /\ Answer(Nil)
  /\ UNCHANGED <<capacity, queue, producer>>

Peek ==
  /\ consumer.op = "peek"
  /\ queue # <<>>
  /\ Answer(Head(queue))
  /\ UNCHANGED <<capacity, queue, producer>>

Dequeue ==
  /\ consumer.op = "dequeue"
  /\ queue # <<>>
  /\ Answer(Head(queue))
  /\ queue' = Tail(queue)
  /\ UNCHANGED <<capacity, producer>>

Next == EnqueueCall \/ EnqueueReturn \/ ConsumerCall \/ FindNothing \/ Peek \/ Dequeue

FifoSpec == Init /\ [][Next]_fifoVars
=============================================================================

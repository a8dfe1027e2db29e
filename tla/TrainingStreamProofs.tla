------------------------ MODULE TrainingStreamProofs ------------------------
(***************************************************************************)
(* Proofs about TrainingStream, for any examples, controllers, settings,   *)
(* random numbers and number of passes.                                    *)
(***************************************************************************)
EXTENDS TrainingStream, SequenceTheorems, FiniteSetTheorems, TLAPS

\* What has been added to the stream since reset: every example before those
\* still to be added, and nothing of one of them later than lastEventTime.
StreamInv ==
  /\ stream # <<>> => nextEventTime = lastEventTime + Period
  /\ \A i \in DOMAIN stream :
       /\ stream[i].time \in Nat
       /\ stream[i].example > 0 =>
            stream[i].time <= lastEventTime /\ stream[i].example > Len(seqs)
       /\ ~config.pads => stream[i].example > 0
  /\ ExamplesApart

\* The clock is where the last update was, and the next update within a period.
ClockInv ==
  /\ pc = "fill" => streamI = 0 /\ updates = <<>> /\ currentTime = 0 /\ nextUpdateTime = 0
  /\ nextUpdateTime <= currentTime + Period
  /\ updates # <<>> => updates[Len(updates)].time = currentTime
  /\ UpdatesWithinPeriod

\* What was taken off the stream: no note without its update and, without
\* silences, nothing later than the next update.
HeardInv ==
  /\ \A i \in 1 .. streamI :
       stream[i].type = "note" =>
         \E u \in Range(updates) : u.note /\ u.heard = i /\ u.time = stream[i].time
  /\ ~config.pads => \A i \in 1 .. streamI : stream[i].time <= nextUpdateTime
  /\ TargetsUpToDate

-----------------------------------------------------------------------------
(* Sequences.                                                              *)

\* The elements of a sequence with one more.
LEMMA RangeOfAppended ==
  ASSUME NEW S, NEW s \in Seq(S), NEW x \in S
  PROVE  Range(Append(s, x)) = Range(s) \cup {x}
  <1> DEFINE t == Append(s, x)
  <1>1. /\ Len(s) \in Nat /\ DOMAIN s = 1 .. Len(s) /\ DOMAIN t = 1 .. Len(s) + 1
        /\ \A i \in 1 .. Len(s) : t[i] = s[i]
        /\ t[Len(s) + 1] = x
    BY AppendProperties, LenProperties
  <1> HIDE DEF t
  <1>2. \A i \in 1 .. Len(s) + 1 : i \in 1 .. Len(s) \/ i = Len(s) + 1
    BY <1>1
  <1>3. \A i \in 1 .. Len(s) : i \in 1 .. Len(s) + 1
    BY <1>1
  <1>4. Len(s) + 1 \in 1 .. Len(s) + 1
    BY <1>1
  <1>5. Range(t) \subseteq Range(s) \cup {x}
    BY <1>1, <1>2 DEF Range
  <1>6. Range(s) \cup {x} \subseteq Range(t)
    BY <1>1, <1>3, <1>4 DEF Range
  <1> QED
    BY <1>5, <1>6 DEF t

\* Three sequences, one after the other.
LEMMA ConcatThree ==
  ASSUME NEW S, NEW r \in Seq(S), NEW s \in Seq(S), NEW t \in Seq(S)
  PROVE  /\ r \o s \o t \in Seq(S) /\ Len(r \o s \o t) = Len(r) + Len(s) + Len(t)
         /\ \A i \in 1 .. Len(r) : (r \o s \o t)[i] = r[i]
         /\ \A i \in Len(r) + 1 .. Len(r) + Len(s) : (r \o s \o t)[i] = s[i - Len(r)]
         /\ \A i \in Len(r) + Len(s) + 1 .. Len(r) + Len(s) + Len(t) :
              (r \o s \o t)[i] = t[i - (Len(r) + Len(s))]
  <1>1. /\ r \o s \in Seq(S) /\ Len(r \o s) = Len(r) + Len(s)
        /\ \A i \in 1 .. Len(r) + Len(s) :
             (r \o s)[i] = IF i <= Len(r) THEN r[i] ELSE s[i - Len(r)]
    BY ConcatProperties
  <1> DEFINE p == r \o s
  <1> HIDE DEF p
  <1>2. p \in Seq(S)
    BY <1>1 DEF p
  <1>3. /\ p \o t \in Seq(S) /\ Len(p \o t) = Len(p) + Len(t)
        /\ \A i \in 1 .. Len(p) + Len(t) :
             (p \o t)[i] = IF i <= Len(p) THEN p[i] ELSE t[i - Len(p)]
    BY <1>2, ConcatProperties
  <1>4. Len(r) \in Nat /\ Len(s) \in Nat /\ Len(t) \in Nat
    BY LenProperties
  <1> QED
    BY <1>1, <1>3, <1>4 DEF p

-----------------------------------------------------------------------------
(* Making the stream.                                                      *)

\* A turn of the loop puts after the stream the events that set the controllers
\* back, which belong to no example, and the example, at its adjusted times.
LEMMA AddStep ==
  ASSUME TypeOK, AddSequence
  PROVE  /\ Len(seqs) \in Nat \ {0} /\ seqs' \in Seq(Examples) /\ Len(seqs') = Len(seqs) - 1
         /\ stream' \in Seq(StreamEvent) /\ Len(stream') > Len(stream)
         /\ \E start \in Starts, t \in AdjustedTimes(Head(seqs)) :
              LET n == Len(stream) + Len(Lead)
              IN  /\ start \in Nat /\ \A i \in DOMAIN t : t[i] \in Nat
                  /\ Last(t) \in Nat /\ DOMAIN t = 1 .. Len(t) /\ Len(t) \in Nat
                  /\ Len(stream') = n + Len(t) /\ Len(Lead) \in Nat
                  /\ \A i \in 1 .. Len(stream) : stream'[i] = stream[i]
                  /\ \A i \in Len(stream) + 1 .. n :
                       stream'[i].example = 0 /\ stream'[i].time \in Nat
                  /\ \A i \in n + 1 .. n + Len(t) :
                       /\ stream'[i].example = Len(seqs)
                       /\ stream'[i].time = start + t[i - n]
                  /\ lastEventTime' = start + Last(t)
                  /\ nextEventTime' = lastEventTime' + Period
  <1> USE StreamAssumption
  <1>1. /\ seqs \in Seq(Examples) /\ seqs # <<>> /\ stream \in Seq(StreamEvent)
        /\ lastEventTime \in Nat /\ nextEventTime \in Nat
    BY DEF AddSequence, TypeOK
  <1>2. Head(seqs) \in Examples /\ Len(seqs) \in Nat \ {0} /\ Tail(seqs) \in Seq(Examples)
        /\ Len(Tail(seqs)) = Len(seqs) - 1
    BY <1>1, HeadTailProperties, EmptySeq
  <1> DEFINE x == Head(seqs)
  <1>3. /\ x \in Seq(Events) /\ x # <<>> /\ Len(x) \in Nat \ {0} /\ DOMAIN x = 1 .. Len(x)
        /\ \A i \in 1 .. Len(x) : x[i] \in Events
    <2>1. x \in Seq(Events) /\ x # <<>>
      BY <1>2
    <2> QED
      BY <2>1, EmptySeq, LenProperties, ElementOfSeq
  <1> HIDE DEF x
  <1>4. PICK start \in Starts, t \in AdjustedTimes(x) :
          LET played == [i \in DOMAIN x |->
                           [type |-> x[i].type, example |-> Len(seqs), time |-> start + t[i]]]
          IN  /\ stream' = stream \o Lead \o played
              /\ lastEventTime' = start + Last(t)
              /\ nextEventTime' = lastEventTime' + Period
    BY DEF AddSequence, x
  <1>5. start \in Nat
    <2>1. ASSUME NEW padding \in Paddings PROVE (IF padding <= 0 THEN 1 ELSE padding) \in Nat
      BY <2>1
    <2>2. \A silence \in Silences : silence \in Nat
      BY <2>1 DEF Silences
    <2> QED
      BY <1>1, <2>2 DEF Starts
  <1>6. /\ DOMAIN t = 1 .. Len(x) /\ t \in Seq(Nat) /\ Len(t) = Len(x)
        /\ \A i \in 1 .. Len(x) : t[i] \in Nat
    <2>1. /\ DOMAIN t = 1 .. Len(x) /\ \A i \in 1 .. Len(x) : t[i] \in Nat
          /\ t = [i \in 1 .. Len(x) |-> t[i]]
      BY <1>3 DEF AdjustedTimes
    <2>2. t \in Seq(Nat)
      BY <1>3, <2>1, IsASeq
    <2> QED
      BY <1>3, <2>1, <2>2, LenProperties
  <1>7. Last(t) \in Nat
    BY <1>3, <1>6 DEF Last
  <1>8. /\ Lead \in Seq(StreamEvent) /\ Len(Lead) \in Nat
        /\ \A i \in 1 .. Len(Lead) : Lead[i].example = 0 /\ Lead[i].time \in Nat
    <2>1. CASE config.pads
      <3>1. Lead = [k \in 1 .. CtrlCount |->
                      [type |-> "ctrl", example |-> 0,
                       time |-> IF k = 1 THEN nextEventTime ELSE lastEventTime + k]]
        BY <2>1 DEF Lead, PaddingEvents
      <3>2. \A k \in 1 .. CtrlCount :
              (IF k = 1 THEN nextEventTime ELSE lastEventTime + k) \in Nat
        BY <1>1
      <3>3. Lead \in Seq(StreamEvent) /\ Len(Lead) = CtrlCount
        BY <3>1, <3>2 DEF StreamEvent
      <3> QED
        BY <3>1, <3>2, <3>3
    <2>2. CASE ~config.pads
      BY <2>2, EmptySeq DEF Lead
    <2> QED
      BY <2>1, <2>2
  <1> DEFINE played == [i \in DOMAIN x |->
                          [type |-> x[i].type, example |-> Len(seqs), time |-> start + t[i]]]
  <1>9. /\ played \in Seq(StreamEvent) /\ Len(played) = Len(x)
        /\ \A i \in 1 .. Len(x) : played[i].example = Len(seqs) /\ played[i].time = start + t[i]
    <2> DEFINE e(i) == [type |-> x[i].type, example |-> Len(seqs), time |-> start + t[i]]
    <2>1. \A i \in 1 .. Len(x) : e(i) \in StreamEvent
      BY <1>2, <1>3, <1>5, <1>6 DEF StreamEvent, Events
    <2>2. played = [i \in 1 .. Len(x) |-> e(i)]
      BY <1>3
    <2>3. \A i \in 1 .. Len(x) : played[i] = e(i)
      BY <2>2
    <2>4. DOMAIN played = 1 .. Len(x)
      BY <2>2
    <2>a. \A i \in 1 .. Len(x) : e(i).example = Len(seqs) /\ e(i).time = start + t[i]
      OBVIOUS
    <2> HIDE DEF played, e
    <2>5. \A i \in 1 .. Len(x) : played[i].example = Len(seqs) /\ played[i].time = start + t[i]
      BY <2>3, <2>a
    <2>6. played \in Seq(StreamEvent)
      BY <1>3, <2>1, <2>2, IsASeq
    <2> QED
      BY <1>3, <2>4, <2>5, <2>6, LenProperties
  <1>10. stream' = stream \o Lead \o played
    BY <1>4
  <1> HIDE DEF played
  <1>11. Len(stream) \in Nat
    BY <1>1, LenProperties
  <1> DEFINE n == Len(stream) + Len(Lead)
  <1>12. /\ stream' \in Seq(StreamEvent) /\ Len(stream') = n + Len(played)
         /\ \A i \in 1 .. Len(stream) : stream'[i] = stream[i]
         /\ \A i \in Len(stream) + 1 .. n : stream'[i] = Lead[i - Len(stream)]
         /\ \A i \in n + 1 .. n + Len(played) : stream'[i] = played[i - n]
    <2>1. /\ stream' \in Seq(StreamEvent)
          /\ Len(stream') = Len(stream) + Len(Lead) + Len(played)
          /\ \A i \in 1 .. Len(stream) : stream'[i] = stream[i]
          /\ \A i \in Len(stream) + 1 .. Len(stream) + Len(Lead) :
               stream'[i] = Lead[i - Len(stream)]
          /\ \A i \in Len(stream) + Len(Lead) + 1 .. Len(stream) + Len(Lead) + Len(played) :
               stream'[i] = played[i - (Len(stream) + Len(Lead))]
      <3>1. stream \in Seq(StreamEvent) /\ Lead \in Seq(StreamEvent)
            /\ played \in Seq(StreamEvent)
        BY <1>1, <1>8, <1>9
      <3>2. /\ stream \o Lead \o played \in Seq(StreamEvent)
            /\ Len(stream \o Lead \o played) = Len(stream) + Len(Lead) + Len(played)
            /\ \A i \in 1 .. Len(stream) : (stream \o Lead \o played)[i] = stream[i]
            /\ \A i \in Len(stream) + 1 .. Len(stream) + Len(Lead) :
                 (stream \o Lead \o played)[i] = Lead[i - Len(stream)]
            /\ \A i \in Len(stream) + Len(Lead) + 1 .. Len(stream) + Len(Lead) + Len(played) :
                 (stream \o Lead \o played)[i] = played[i - (Len(stream) + Len(Lead))]
        BY ONLY <3>1, ConcatThree
      <3> QED
        BY <1>10, <3>2, Zenon
    <2> QED
      BY <2>1
  <1>13. /\ \A i \in Len(stream) + 1 .. n : i - Len(stream) \in 1 .. Len(Lead)
         /\ \A i \in n + 1 .. n + Len(x) : i - n \in 1 .. Len(x)
    BY <1>3, <1>8, <1>11
  <1>14. /\ \A i \in Len(stream) + 1 .. n : stream'[i].example = 0 /\ stream'[i].time \in Nat
         /\ \A i \in n + 1 .. n + Len(t) :
              stream'[i].example = Len(seqs) /\ stream'[i].time = start + t[i - n]
    <2>1. Len(t) = Len(x) /\ Len(played) = Len(x)
      BY <1>6, <1>9
    <2> HIDE DEF n
    <2>2. ASSUME NEW i \in Len(stream) + 1 .. n
          PROVE  stream'[i].example = 0 /\ stream'[i].time \in Nat
      <3>1. stream'[i] = Lead[i - Len(stream)] /\ i - Len(stream) \in 1 .. Len(Lead)
        BY <1>12, <1>13
      <3> QED
        BY <1>8, <3>1
    <2>3. ASSUME NEW i \in n + 1 .. n + Len(x)
          PROVE  stream'[i].example = Len(seqs) /\ stream'[i].time = start + t[i - n]
      <3>1. stream'[i] = played[i - n] /\ i - n \in 1 .. Len(x)
        BY <1>12, <1>13, <2>1
      <3> QED
        BY <1>9, <3>1
    <2> QED
      BY <2>1, <2>2, <2>3
  <1>15. Len(stream') = n + Len(t) /\ Len(stream') > Len(stream)
    BY <1>3, <1>6, <1>8, <1>9, <1>11, <1>12
  <1>16. seqs' = Tail(seqs)
    BY DEF AddSequence
  <1> QED
    BY <1>2, <1>3, <1>4, <1>5, <1>6, <1>7, <1>8, <1>12, <1>14, <1>15, <1>16 DEF x

\* What an example's turn adds leaves the stream in order.
LEMMA AddStream ==
  ASSUME TypeOK, StreamInv, AddSequence
  PROVE  /\ StreamInv'
         /\ lastEventTime' \in Nat /\ nextEventTime' \in Nat
  <1> USE StreamAssumption
  <1>1. /\ Len(seqs) \in Nat \ {0} /\ seqs' \in Seq(Examples) /\ Len(seqs') = Len(seqs) - 1
        /\ stream' \in Seq(StreamEvent) /\ Len(stream') > Len(stream)
    BY AddStep
  <1>2. PICK start \in Starts, t \in AdjustedTimes(Head(seqs)) :
          LET n == Len(stream) + Len(Lead)
          IN  /\ start \in Nat /\ \A i \in DOMAIN t : t[i] \in Nat
              /\ Last(t) \in Nat /\ DOMAIN t = 1 .. Len(t) /\ Len(t) \in Nat
              /\ Len(stream') = n + Len(t) /\ Len(Lead) \in Nat
              /\ \A i \in 1 .. Len(stream) : stream'[i] = stream[i]
              /\ \A i \in Len(stream) + 1 .. n :
                   stream'[i].example = 0 /\ stream'[i].time \in Nat
              /\ \A i \in n + 1 .. n + Len(t) :
                   /\ stream'[i].example = Len(seqs)
                   /\ stream'[i].time = start + t[i - n]
              /\ lastEventTime' = start + Last(t)
              /\ nextEventTime' = lastEventTime' + Period
    BY AddStep
  <1> DEFINE n == Len(stream) + Len(Lead)
             m == n + Len(t)
  <1>a. start \in Nat /\ Last(t) \in Nat /\ lastEventTime' = start + Last(t)
    BY <1>2
  <1>3. /\ Len(stream) \in Nat /\ DOMAIN stream = 1 .. Len(stream)
        /\ DOMAIN stream' = 1 .. Len(stream')
        /\ stream # <<>> => Len(stream) > 0
        /\ \A i \in DOMAIN stream : stream[i].example \in Nat /\ stream[i].time \in Nat
    <2>1. /\ Len(stream) \in Nat /\ DOMAIN stream = 1 .. Len(stream)
          /\ DOMAIN stream' = 1 .. Len(stream')
          /\ stream # <<>> => Len(stream) > 0
      BY <1>1, LenProperties, EmptySeq DEF TypeOK
    <2>2. \A i \in DOMAIN stream : stream[i] \in StreamEvent
      BY <2>1, ElementOfSeq DEF TypeOK
    <2> QED
      BY <2>1, <2>2 DEF StreamInv, StreamEvent
  <1>4. UNCHANGED config /\ lastEventTime \in Nat /\ nextEventTime \in Nat
    BY DEF AddSequence, TypeOK
  <1>5. \A i, j \in DOMAIN t : i <= j => t[i] <= t[j]
    BY DEF AdjustedTimes
  <1>6. \A i \in DOMAIN t : t[i] <= Last(t)
    <2>1. ASSUME NEW i \in DOMAIN t PROVE t[i] <= Last(t)
      <3>1. Len(t) \in DOMAIN t /\ i <= Len(t)
        BY <1>2, <2>1
      <3> QED
        BY <1>5, <3>1 DEF Last
    <2> QED
      BY <2>1
  <1>7. stream # <<>> => start > lastEventTime
    <2>1. \A silence \in Silences : silence \in Int /\ silence > 0
      <3>1. ASSUME NEW padding \in Paddings
            PROVE  /\ (IF padding <= 0 THEN 1 ELSE padding) \in Int
                   /\ (IF padding <= 0 THEN 1 ELSE padding) > 0
        BY <3>1
      <3> QED
        BY <3>1 DEF Silences
    <2>2. CASE config.pads
      BY <1>4, <2>1, <2>2 DEF Starts
    <2>3. CASE ~config.pads
      BY <1>4, <2>3 DEF Starts, StreamInv
    <2> QED
      BY <2>2, <2>3
  <1> DEFINE old(i) == i \in 1 .. Len(stream)
             lead(i) == i \in Len(stream) + 1 .. n
             fresh(i) == i \in n + 1 .. m
  <1>8. \A i \in DOMAIN stream' : old(i) \/ lead(i) \/ fresh(i)
    BY <1>2, <1>3
  <1>9. \A i : /\ old(i) => stream'[i] = stream[i] /\ i \in DOMAIN stream
               /\ lead(i) => stream'[i].example = 0 /\ stream'[i].time \in Nat
    BY <1>2, <1>3
  <1>10. ASSUME NEW i, fresh(i)
         PROVE  /\ stream'[i].example = Len(seqs) /\ stream'[i].example > 0
                /\ i - n \in DOMAIN t /\ stream'[i].time = start + t[i - n]
                /\ stream'[i].time \in Nat
                /\ start <= stream'[i].time /\ stream'[i].time <= lastEventTime'
    <2>1. i - n \in DOMAIN t
      BY <1>2, <1>3, <1>10
    <2>2. stream'[i].example = Len(seqs) /\ stream'[i].time = start + t[i - n]
      BY <1>2, <1>10
    <2>3. t[i - n] \in Nat /\ t[i - n] <= Last(t)
      BY <1>2, <1>6, <2>1
    <2>4. /\ start + t[i - n] \in Nat /\ start <= start + t[i - n]
          /\ start + t[i - n] <= lastEventTime'
      BY <1>a, <2>3
    <2>5. Len(seqs) > 0
      BY <1>1
    <2> HIDE DEF n, m, fresh
    <2> QED
      BY <2>1, <2>2, <2>4, <2>5
  <1>11. \A i : old(i) /\ stream'[i].example > 0 =>
           /\ stream'[i].time <= lastEventTime /\ stream'[i].example > Len(seqs)
           /\ stream'[i].time < start
    <2> SUFFICES ASSUME NEW i, old(i), stream'[i].example > 0
                 PROVE  /\ stream'[i].time <= lastEventTime /\ stream'[i].example > Len(seqs)
                        /\ stream'[i].time < start
      OBVIOUS
    <2>1. stream'[i] = stream[i] /\ i \in DOMAIN stream
      BY <1>9
    <2>2. stream # <<>>
      BY <1>3, <2>1, EmptySeq
    <2>3. stream[i].time <= lastEventTime /\ stream[i].example > Len(seqs)
      BY <2>1 DEF StreamInv
    <2>4. stream[i].time \in Nat
      BY <1>3, <2>1
    <2> QED
      BY <1>a, <1>4, <1>7, <2>1, <2>2, <2>3, <2>4
  <1>12. lastEventTime' \in Nat /\ nextEventTime' \in Nat
    BY <1>2
  <1>13. n \in Nat /\ Len(stream) <= n
    BY <1>2, <1>3
  <1>14. ~config.pads => n = Len(stream)
    BY <1>3, EmptySeq DEF Lead
  <1> HIDE DEF n, m
  <1>15. \A i \in DOMAIN stream' :
           /\ stream'[i].time \in Nat
           /\ stream'[i].example > 0 =>
                stream'[i].time <= lastEventTime' /\ stream'[i].example > Len(seqs')
           /\ ~config'.pads => stream'[i].example > 0
    <2>1. ASSUME NEW i \in DOMAIN stream', old(i)
          PROVE  /\ stream'[i].time \in Nat
                 /\ stream'[i].example > 0 =>
                      stream'[i].time <= lastEventTime' /\ stream'[i].example > Len(seqs')
                 /\ ~config'.pads => stream'[i].example > 0
      <3>1. start <= lastEventTime' /\ start \in Nat
        BY <1>2
      <3>2. stream'[i] = stream[i] /\ i \in DOMAIN stream
        BY <1>9, <2>1
      <3>3. stream[i].time \in Nat /\ stream[i].example \in Nat
            /\ (~config.pads => stream[i].example > 0)
        BY <1>3, <3>2 DEF StreamInv
      <3> HIDE DEF old
      <3> QED
        BY <1>1, <1>4, <1>11, <1>12, <2>1, <3>1, <3>2, <3>3
    <2>2. ASSUME NEW i \in DOMAIN stream', lead(i)
          PROVE  /\ stream'[i].time \in Nat
                 /\ stream'[i].example = 0
                 /\ config'.pads
      BY <1>3, <1>4, <1>9, <1>14, <2>2
    <2>3. ASSUME NEW i \in DOMAIN stream', fresh(i)
          PROVE  /\ stream'[i].time \in Nat
                 /\ stream'[i].time <= lastEventTime' /\ stream'[i].example > Len(seqs')
                 /\ stream'[i].example > 0
      BY <1>1, <1>10, <2>3
    <2> QED
      BY <1>8, <2>1, <2>2, <2>3
  <1>16. ExamplesApart'
    <2> SUFFICES ASSUME NEW i \in DOMAIN stream', NEW j \in DOMAIN stream', i < j,
                        stream'[i].example > 0, stream'[j].example > 0
                 PROVE  /\ stream'[i].example >= stream'[j].example
                        /\ IF stream'[i].example = stream'[j].example
                           THEN stream'[i].time <= stream'[j].time
                           ELSE stream'[i].time < stream'[j].time
      BY DEF ExamplesApart
    <2>1. ~lead(i) /\ ~lead(j)
      BY <1>9
    <2>2. CASE old(i) /\ old(j)
      BY <1>9, <2>2 DEF StreamInv, ExamplesApart
    <2>3. CASE old(i) /\ fresh(j)
      <3>1. /\ stream'[i].example > Len(seqs) /\ stream'[i].time < start
            /\ stream'[i].example \in Nat /\ stream'[i].time \in Nat
        BY <1>3, <1>9, <1>11, <2>3
      <3>2. /\ stream'[j].example = Len(seqs) /\ start <= stream'[j].time
            /\ stream'[j].time \in Nat
        BY <1>10, <2>3
      <3> HIDE DEF old, fresh
      <3> QED
        BY <1>1, <1>a, <3>1, <3>2
    <2>4. CASE fresh(i) /\ fresh(j)
      <3>1. /\ i - n \in DOMAIN t /\ stream'[i].time = start + t[i - n]
            /\ j - n \in DOMAIN t /\ stream'[j].time = start + t[j - n]
            /\ stream'[i].example = Len(seqs) /\ stream'[j].example = Len(seqs)
        BY <1>10, <2>4
      <3>2. i - n <= j - n
        BY <1>13, <2>4
      <3>3. t[i - n] <= t[j - n] /\ t[i - n] \in Nat /\ t[j - n] \in Nat
        BY <1>2, <1>5, <3>1, <3>2
      <3> QED
        BY <1>1, <1>a, <3>1, <3>3
    <2>5. ~(fresh(i) /\ old(j))
      BY <1>13, <1>3
    <2> HIDE DEF old, lead, fresh
    <2> QED
      BY <1>8, <2>1, <2>2, <2>3, <2>4, <2>5
  <1> QED
    BY <1>2, <1>12, <1>15, <1>16 DEF StreamInv

-----------------------------------------------------------------------------
(* The invariants.                                                         *)

\* Before the first pass there is no stream.
LEMMA InitInv == Init => TypeOK /\ StreamInv /\ ClockInv /\ HeardInv
  <1> SUFFICES ASSUME Init PROVE TypeOK /\ StreamInv /\ ClockInv /\ HeardInv
    OBVIOUS
  <1> USE StreamAssumption DEF Init
  <1>1. Len(<<>>) = 0 /\ DOMAIN <<>> = {} /\ Range(<<>>) = {}
    BY EmptySeq DEF Range
  <1>2. TypeOK
    BY <1>1, EmptySeq DEF TypeOK
  <1>3. StreamInv
    BY <1>1 DEF StreamInv, ExamplesApart
  <1>4. ClockInv
    BY <1>1 DEF ClockInv, UpdatesWithinPeriod
  <1>5. HeardInv
    BY <1>1 DEF HeardInv, TargetsUpToDate
  <1> QED
    BY <1>2, <1>3, <1>4, <1>5

\* reset shuffles a number of copies of the examples, and empties the stream.
LEMMA ResetInv ==
  ASSUME TypeOK, NEW count \in Repetitions, Reset(count)
  PROVE  TypeOK' /\ StreamInv' /\ ClockInv' /\ HeardInv'
  <1> USE StreamAssumption DEF Reset
  <1>1. Len(<<>>) = 0 /\ DOMAIN <<>> = {} /\ Range(<<>>) = {}
    BY EmptySeq DEF Range
  <1>2. seqs' \in Seq(Examples)
    <2>1. Cardinality(Examples) \in Nat
      BY FS_CardinalityType
    <2>2. count * Cardinality(Examples) \in Nat
      BY <2>1
    <2>3. /\ seqs' \in [1 .. count * Cardinality(Examples) -> Examples]
      BY DEF Shuffled
    <2> QED
      BY <2>2, <2>3
  <1>3. TypeOK'
    BY <1>1, <1>2, EmptySeq DEF TypeOK
  <1>4. StreamInv'
    BY <1>1 DEF StreamInv, ExamplesApart
  <1>5. ClockInv'
    BY <1>1 DEF ClockInv, UpdatesWithinPeriod
  <1>6. HeardInv'
    BY <1>1 DEF HeardInv, TargetsUpToDate
  <1> QED
    BY <1>3, <1>4, <1>5, <1>6

\* While the stream is made, none of it is heard.
LEMMA FillInv ==
  ASSUME TypeOK, StreamInv, ClockInv, HeardInv, AddSequence \/ Filled
  PROVE  TypeOK' /\ StreamInv' /\ ClockInv' /\ HeardInv'
  <1> USE DEF resetVars, walkVars
  <1>1. Len(<<>>) = 0 /\ DOMAIN <<>> = {} /\ Range(<<>>) = {}
    BY EmptySeq DEF Range
  <1>2. /\ pc = "fill" /\ UNCHANGED <<config, passes, streamI, updates, currentTime,
                                      nextUpdateTime>>
        /\ streamI = 0 /\ updates = <<>> /\ currentTime = 0 /\ nextUpdateTime = 0
    BY DEF AddSequence, Filled, ClockInv
  <1>3. CASE AddSequence
    <2>1. /\ stream' \in Seq(StreamEvent) /\ seqs' \in Seq(Examples) /\ StreamInv'
          /\ lastEventTime' \in Nat /\ nextEventTime' \in Nat /\ pc' = pc
          /\ Len(stream') > Len(stream)
      BY <1>3, AddStep, AddStream DEF AddSequence
    <2>2. Len(stream') \in Nat
      BY <2>1, LenProperties
    <2> QED
      BY <1>1, <1>2, <2>1, <2>2 DEF TypeOK, ClockInv, UpdatesWithinPeriod, HeardInv,
                                    TargetsUpToDate
  <1>4. CASE Filled
    <2>1. pc' = "next" /\ UNCHANGED <<seqs, stream, lastEventTime, nextEventTime>>
      BY <1>4 DEF Filled
    <2> QED
      BY <1>2, <2>1 DEF TypeOK, StreamInv, ExamplesApart, ClockInv, UpdatesWithinPeriod,
                        HeardInv, TargetsUpToDate
  <1> QED
    BY <1>3, <1>4

\* One more update, no later than a period after the clock.
LEMMA UpdateStep ==
  ASSUME TypeOK, ClockInv, NEW time \in Nat, NEW heard \in Nat, NEW note \in BOOLEAN,
         UpdateNetwork(time, heard, note), time <= currentTime + Period
  PROVE  LET u == [time |-> time, heard |-> heard, note |-> note]
         IN  /\ updates' \in Seq([time : Nat, heard : Nat, note : BOOLEAN])
             /\ Range(updates') = Range(updates) \cup {u}
             /\ updates' # <<>> /\ updates'[Len(updates')].time = time
             /\ UpdatesWithinPeriod' /\ pc' = "next"
  <1> DEFINE U == [time : Nat, heard : Nat, note : BOOLEAN]
             u == [time |-> time, heard |-> heard, note |-> note]
             n == Len(updates)
  <1>1. u \in U /\ updates \in Seq(U) /\ updates' = Append(updates, u) /\ u.time = time
        /\ pc' = "next"
    BY DEF UpdateNetwork, TypeOK
  <1> HIDE DEF u, U
  <1>2. /\ n \in Nat /\ DOMAIN updates = 1 .. n /\ updates' \in Seq(U) /\ Len(updates') = n + 1
        /\ \A i \in 1 .. n : updates'[i] = updates[i]
        /\ updates'[n + 1] = u
    BY <1>1, AppendProperties, LenProperties
  <1>3. Range(updates') = Range(updates) \cup {u}
    BY <1>1, RangeOfAppended
  <1>4. updates' # <<>>
    BY <1>2, EmptySeq
  <1>5. n > 0 => updates[n].time = currentTime
    BY <1>1, EmptySeq DEF ClockInv
  <1> HIDE DEF n
  <1>6. ASSUME NEW i \in 1 .. n PROVE updates'[i + 1].time <= updates'[i].time + Period
    <2>1. CASE i = n
      BY <1>1, <1>2, <1>5, <1>6, <2>1
    <2>2. CASE i # n
      <3>1. i \in 1 .. n - 1 /\ i + 1 \in 1 .. n
        BY <1>2, <1>6, <2>2
      <3> QED
        BY <1>2, <3>1 DEF n, ClockInv, UpdatesWithinPeriod
    <2> QED
      BY <2>1, <2>2
  <1>7. UpdatesWithinPeriod'
    BY <1>2, <1>6 DEF UpdatesWithinPeriod
  <1> QED
    BY <1>1, <1>2, <1>3, <1>4, <1>7 DEF u, U

\* The event next in the stream.
LEMMA NextEventFacts ==
  ASSUME TypeOK, StreamInv, pc = "advance"
  PROVE  /\ streamI \in Nat /\ Len(stream) \in Nat /\ DOMAIN stream = 1 .. Len(stream)
         /\ streamI + 1 \in 1 .. Len(stream) /\ NextEvent = stream[streamI + 1]
         /\ NextEvent.time \in Nat
  <1>1. Len(stream) \in Nat /\ DOMAIN stream = 1 .. Len(stream) /\ streamI \in 0 .. Len(stream)
    BY LenProperties DEF TypeOK
  <1>2. streamI + 1 \in 1 .. Len(stream)
    BY <1>1 DEF TypeOK, HasNext
  <1> QED
    BY <1>1, <1>2 DEF StreamInv, NextEvent

\* Without silences the times of a stream never decrease.
LEMMA Sorted ==
  ASSUME StreamInv, ~config.pads, NEW i \in DOMAIN stream, NEW j \in DOMAIN stream, i < j
  PROVE  stream[i].time <= stream[j].time
  <1>1. /\ stream[i].example > 0 /\ stream[j].example > 0
        /\ stream[i].time \in Nat /\ stream[j].time \in Nat
    BY DEF StreamInv
  <1> QED
    BY <1>1 DEF StreamInv, ExamplesApart

\* An update that no note made keeps the invariants, if it is made for the events
\* up to its time.
LEMMA PeriodicInv ==
  ASSUME TypeOK, StreamInv, ClockInv, HeardInv, PeriodicUpdate
  PROVE  TypeOK' /\ StreamInv' /\ ClockInv' /\ HeardInv'
  <1> USE StreamAssumption DEF resetVars
  <1> DEFINE u == [time |-> nextUpdateTime, heard |-> streamI, note |-> FALSE]
  <1>1. /\ pc = "advance" /\ ~Due /\ currentTime' = nextUpdateTime
        /\ nextUpdateTime' = nextUpdateTime + Period
        /\ UpdateNetwork(nextUpdateTime, streamI, FALSE)
        /\ UNCHANGED <<config, passes, seqs, stream, lastEventTime, nextEventTime, streamI>>
    BY DEF PeriodicUpdate
  <1>2. /\ streamI \in Nat /\ Len(stream) \in Nat /\ DOMAIN stream = 1 .. Len(stream)
        /\ streamI + 1 \in 1 .. Len(stream) /\ NextEvent = stream[streamI + 1]
        /\ NextEvent.time \in Nat
    BY <1>1, NextEventFacts
  <1>3. nextUpdateTime \in Nat /\ currentTime \in Nat /\ nextUpdateTime <= currentTime + Period
    BY DEF TypeOK, ClockInv
  <1>4. /\ updates' \in Seq([time : Nat, heard : Nat, note : BOOLEAN])
        /\ Range(updates') = Range(updates) \cup {u}
        /\ updates' # <<>> /\ updates'[Len(updates')].time = nextUpdateTime
        /\ UpdatesWithinPeriod' /\ pc' = "next"
    BY <1>1, <1>2, <1>3, UpdateStep
  <1>5. TypeOK'
    BY <1>1, <1>3, <1>4 DEF TypeOK
  <1>6. StreamInv'
    BY <1>1 DEF StreamInv, ExamplesApart
  <1>7. ClockInv'
    BY <1>1, <1>3, <1>4 DEF ClockInv
  <1>8. \A i \in 1 .. streamI :
          stream[i].type = "note" =>
            \E v \in Range(updates') : v.note /\ v.heard = i /\ v.time = stream[i].time
    BY <1>4 DEF HeardInv
  <1>9. ~config.pads => \A i \in 1 .. streamI : stream[i].time <= nextUpdateTime'
    <2> SUFFICES ASSUME ~config.pads, NEW i \in 1 .. streamI
                 PROVE  stream[i].time <= nextUpdateTime'
      OBVIOUS
    <2>1. i \in DOMAIN stream
      BY <1>2
    <2>2. stream[i].time \in Nat /\ stream[i].time <= nextUpdateTime
      BY <2>1 DEF StreamInv, HeardInv
    <2> QED
      BY <1>1, <1>3, <2>2
  <1>10. TargetsUpToDate'
    <2> SUFFICES ASSUME ~config.pads, NEW v \in Range(updates'), ~v.note,
                        v.heard < Len(stream), NEW i \in DOMAIN stream
                 PROVE  i <= v.heard <=> stream[i].time <= v.time
      BY <1>1 DEF TargetsUpToDate
    <2>1. CASE v \in Range(updates)
      BY <2>1 DEF HeardInv, TargetsUpToDate
    <2>2. CASE v = u
      <3>1. v.heard = streamI /\ v.time = nextUpdateTime /\ stream[i].time \in Nat
        BY <2>2 DEF StreamInv
      <3>2. NextEvent.time > nextUpdateTime
        BY <1>1, <1>2, <1>3 DEF Due
      <3>3. ASSUME i <= streamI PROVE stream[i].time <= nextUpdateTime
        BY <1>2, <3>3 DEF HeardInv
      <3>4. ASSUME i > streamI PROVE stream[i].time > nextUpdateTime
        <4>1. i = streamI + 1 \/ streamI + 1 < i
          BY <1>2, <3>4
        <4>2. streamI + 1 < i => stream[streamI + 1].time <= stream[i].time
          BY <1>2, Sorted
        <4> QED
          BY <1>2, <1>3, <3>1, <3>2, <4>1, <4>2
      <3> QED
        BY <1>2, <1>3, <3>1, <3>3, <3>4
    <2> QED
      BY <1>4, <2>1, <2>2
  <1> QED
    BY <1>1, <1>5, <1>6, <1>7, <1>8, <1>9, <1>10 DEF HeardInv

\* A note heard has its update.
LEMMA NoteInv ==
  ASSUME TypeOK, StreamInv, ClockInv, HeardInv, PresentNote
  PROVE  TypeOK' /\ StreamInv' /\ ClockInv' /\ HeardInv'
  <1> USE StreamAssumption DEF resetVars
  <1> DEFINE time == NextEvent.time
             u == [time |-> time, heard |-> streamI + 1, note |-> TRUE]
  <1>1. /\ pc = "advance" /\ Due /\ streamI' = streamI + 1
        /\ currentTime' = time /\ nextUpdateTime' = time + Period
        /\ UpdateNetwork(time, streamI + 1, TRUE)
        /\ UNCHANGED <<config, passes, seqs, stream, lastEventTime, nextEventTime>>
    BY DEF PresentNote
  <1>2. /\ streamI \in Nat /\ Len(stream) \in Nat /\ DOMAIN stream = 1 .. Len(stream)
        /\ streamI + 1 \in 1 .. Len(stream) /\ NextEvent = stream[streamI + 1]
        /\ time \in Nat
    BY <1>1, NextEventFacts
  <1>3. nextUpdateTime \in Nat /\ currentTime \in Nat /\ nextUpdateTime <= currentTime + Period
    BY DEF TypeOK, ClockInv
  <1>4. time <= currentTime + Period
    BY <1>1, <1>2, <1>3 DEF Due
  <1> HIDE DEF time
  <1>5. /\ updates' \in Seq([time : Nat, heard : Nat, note : BOOLEAN])
        /\ Range(updates') = Range(updates) \cup {u}
        /\ updates' # <<>> /\ updates'[Len(updates')].time = time
        /\ UpdatesWithinPeriod' /\ pc' = "next"
    <2>1. streamI + 1 \in Nat
      BY <1>2
    <2>2. UpdateNetwork(time, streamI + 1, TRUE)
      BY <1>1
    <2> QED
      BY <1>2, <1>4, <2>1, <2>2, UpdateStep
  <1>6. TypeOK'
    BY <1>1, <1>2, <1>5 DEF TypeOK
  <1>7. StreamInv'
    BY <1>1 DEF StreamInv, ExamplesApart
  <1>8. ClockInv'
    BY <1>1, <1>2, <1>5 DEF ClockInv
  <1>9. ASSUME NEW i \in 1 .. streamI + 1, stream[i].type = "note"
        PROVE  \E v \in Range(updates') : v.note /\ v.heard = i /\ v.time = stream[i].time
    <2>1. CASE i \in 1 .. streamI
      BY <1>5, <1>9, <2>1 DEF HeardInv
    <2>2. CASE i = streamI + 1
      <3>1. u \in Range(updates') /\ u.note /\ u.heard = i /\ u.time = time
        BY <1>5, <2>2
      <3>2. stream[i].time = time
        BY <1>2, <2>2 DEF time
      <3> QED
        BY <3>1, <3>2
    <2> QED
      BY <1>2, <1>9, <2>1, <2>2
  <1>10. ASSUME ~config.pads, NEW i \in 1 .. streamI + 1 PROVE stream[i].time <= time + Period
    <2>1. i \in DOMAIN stream /\ streamI + 1 \in DOMAIN stream /\ (i = streamI + 1 \/ i < streamI + 1)
      BY <1>2, <1>10
    <2>2. i < streamI + 1 => stream[i].time <= stream[streamI + 1].time
      BY <1>10, <2>1, Sorted
    <2>3. stream[i].time \in Nat /\ stream[streamI + 1].time = time
      BY <1>2, <2>1 DEF StreamInv, time
    <2> QED
      BY <1>2, <2>1, <2>2, <2>3
  <1>11. TargetsUpToDate'
    <2> SUFFICES ASSUME ~config.pads, NEW v \in Range(updates'), ~v.note,
                        v.heard < Len(stream), NEW i \in DOMAIN stream
                 PROVE  i <= v.heard <=> stream[i].time <= v.time
      BY <1>1 DEF TargetsUpToDate
    <2>1. v \in Range(updates)
      BY <1>5
    <2> QED
      BY <2>1 DEF HeardInv, TargetsUpToDate
  <1> QED
    BY <1>1, <1>6, <1>7, <1>8, <1>9, <1>10, <1>11 DEF HeardInv

\* A controller change heard is due by the next update.
LEMMA CtrlInv ==
  ASSUME TypeOK, StreamInv, ClockInv, HeardInv, ApplyCtrl
  PROVE  TypeOK' /\ StreamInv' /\ ClockInv' /\ HeardInv'
  <1> USE StreamAssumption DEF resetVars
  <1>1. /\ pc = "advance" /\ Due /\ NextEvent.type = "ctrl" /\ streamI' = streamI + 1
        /\ UNCHANGED <<config, passes, seqs, stream, lastEventTime, nextEventTime, currentTime,
                       nextUpdateTime>>
    BY DEF ApplyCtrl
  <1>2. /\ streamI \in Nat /\ Len(stream) \in Nat /\ DOMAIN stream = 1 .. Len(stream)
        /\ streamI + 1 \in 1 .. Len(stream) /\ NextEvent = stream[streamI + 1]
        /\ NextEvent.time \in Nat
    BY <1>1, NextEventFacts
  <1>3. nextUpdateTime \in Nat /\ currentTime \in Nat
    BY DEF TypeOK
  <1>4. StreamInv'
    BY <1>1 DEF StreamInv, ExamplesApart
  <1>5. ASSUME NEW i \in 1 .. streamI + 1, stream[i].type = "note" PROVE i \in 1 .. streamI
    BY <1>1, <1>2, <1>5
  <1>6. ASSUME ~config.pads, NEW i \in 1 .. streamI + 1 PROVE stream[i].time <= nextUpdateTime
    <2>1. i \in 1 .. streamI \/ i = streamI + 1
      BY <1>2, <1>6
    <2> QED
      BY <1>1, <1>2, <1>6, <2>1 DEF HeardInv, Due
  <1>7. CASE UNCHANGED <<pc, updates>> /\ streamI' < Len(stream)
    <2>1. TypeOK'
      BY <1>1, <1>2, <1>7 DEF TypeOK, HasNext
    <2>2. ClockInv'
      BY <1>1, <1>7 DEF ClockInv, UpdatesWithinPeriod
    <2>3. TargetsUpToDate'
      BY <1>1, <1>7 DEF HeardInv, TargetsUpToDate
    <2>4. \A i \in 1 .. streamI' :
            stream[i].type = "note" =>
              \E v \in Range(updates) : v.note /\ v.heard = i /\ v.time = stream[i].time
      BY <1>1, <1>5 DEF HeardInv
    <2> QED
      BY <1>1, <1>4, <1>6, <1>7, <2>1, <2>2, <2>3, <2>4 DEF HeardInv
  <1>8. CASE UpdateNetwork(currentTime, streamI', FALSE) /\ ~(streamI' < Len(stream))
    <2> DEFINE u == [time |-> currentTime, heard |-> streamI', note |-> FALSE]
    <2>1. /\ updates' \in Seq([time : Nat, heard : Nat, note : BOOLEAN])
          /\ Range(updates') = Range(updates) \cup {u}
          /\ updates' # <<>> /\ updates'[Len(updates')].time = currentTime
          /\ UpdatesWithinPeriod' /\ pc' = "next"
      <3>1. streamI' \in Nat /\ currentTime <= currentTime + Period
        BY <1>1, <1>2, <1>3
      <3> QED
        BY <1>3, <1>8, <3>1, UpdateStep
    <2>2. TypeOK'
      BY <1>1, <1>2, <2>1 DEF TypeOK
    <2>3. ClockInv'
      BY <1>1, <2>1 DEF ClockInv
    <2>4. \A i \in 1 .. streamI' :
            stream[i].type = "note" =>
              \E v \in Range(updates') : v.note /\ v.heard = i /\ v.time = stream[i].time
      BY <1>1, <1>5, <2>1 DEF HeardInv
    <2>5. TargetsUpToDate'
      <3> SUFFICES ASSUME ~config.pads, NEW v \in Range(updates'), ~v.note,
                          v.heard < Len(stream), NEW i \in DOMAIN stream
                   PROVE  i <= v.heard <=> stream[i].time <= v.time
        BY <1>1 DEF TargetsUpToDate
      <3>1. v \in Range(updates)
        BY <1>8, <2>1
      <3> QED
        BY <3>1 DEF HeardInv, TargetsUpToDate
    <2> QED
      BY <1>1, <1>4, <1>6, <2>2, <2>3, <2>4, <2>5 DEF HeardInv
  <1> QED
    BY <1>7, <1>8 DEF ApplyCtrl

\* Every step keeps the invariants.
LEMMA NextInv ==
  TypeOK /\ StreamInv /\ ClockInv /\ HeardInv /\ [Next]_vars =>
    TypeOK' /\ StreamInv' /\ ClockInv' /\ HeardInv'
  <1> SUFFICES ASSUME TypeOK, StreamInv, ClockInv, HeardInv, [Next]_vars
               PROVE  TypeOK' /\ StreamInv' /\ ClockInv' /\ HeardInv'
    OBVIOUS
  <1>1. CASE Continue \/ Finish \/ Stopped \/ UNCHANGED vars
    <2>1. /\ UNCHANGED <<config, passes, seqs, stream, lastEventTime, nextEventTime, streamI,
                         currentTime, nextUpdateTime, updates>>
          /\ pc' # "fill" \/ pc' = pc
          /\ pc' \in {"advance", "idle"} \/ pc' = pc
          /\ pc' = "advance" => HasNext
      BY <1>1 DEF Continue, Finish, Stopped, vars, resetVars, walkVars, TypeOK
    <2>2. TypeOK'
      BY <2>1 DEF TypeOK, HasNext
    <2>3. StreamInv' /\ ClockInv'
      BY <2>1 DEF StreamInv, ExamplesApart, ClockInv, UpdatesWithinPeriod
    <2>4. HeardInv'
      BY <2>1 DEF HeardInv, TargetsUpToDate
    <2> QED
      BY <2>2, <2>3, <2>4
  <1> QED
    BY <1>1, ResetInv, FillInv, PeriodicInv, NoteInv, CtrlInv DEF Next, Walk

\* The invariants hold in every state of every behaviour.
LEMMA Invariance == Spec => [](TypeOK /\ StreamInv /\ ClockInv /\ HeardInv)
  BY InitInv, NextInv, PTL DEF Spec

-----------------------------------------------------------------------------
(* Theorems.                                                               *)

\* The walk along a stream has its types, and never reads past the stream.
THEOREM TypeCorrect == Spec => []TypeOK
  BY Invariance, PTL

\* However short the silences and however the tempo is changed, the events of an
\* example come in order, after those of the examples before it.
THEOREM NeverMixed == Spec => []ExamplesApart
  <1>1. StreamInv => ExamplesApart
    BY DEF StreamInv
  <1> QED
    BY <1>1, Invariance, PTL

\* The network in training is updated at least once per update period.
THEOREM NeverCoarser == Spec => []UpdatesWithinPeriod
  <1>1. ClockInv => UpdatesWithinPeriod
    BY DEF ClockInv
  <1> QED
    BY <1>1, Invariance, PTL

\* No note is missed, or presented at a time that is not its own.
THEOREM NotesHeard == Spec => []NotesPresentedAtOnce
  <1>1. HeardInv => NotesPresentedAtOnce
    BY DEF HeardInv, NotesPresentedAtOnce
  <1> QED
    BY <1>1, Invariance, PTL

\* Without silences, an update between notes has the targets of its time.
THEOREM TargetsOfTheTime == Spec => []TargetsUpToDate
  <1>1. HeardInv => TargetsUpToDate
    BY DEF HeardInv
  <1> QED
    BY <1>1, Invariance, PTL
=============================================================================

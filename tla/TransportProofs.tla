-------------------------- MODULE TransportProofs ---------------------------
(***************************************************************************)
(* Lemmas about sequences without repetitions, as the queues of Events     *)
(* are, and about what the operations of EventTransport do to the types    *)
(* of its variables, for the programs that use it.                         *)
(***************************************************************************)
EXTENDS EventTransport, SequenceTheorems, TLAPS

\* Taking the head off: its element is gone from the rest.
LEMMA TailOfInjective ==
  ASSUME NEW S, NEW s \in Seq(S), s # <<>>, IsInjective(s)
  PROVE  /\ Head(s) \in S /\ Head(s) \in Range(s)
         /\ Tail(s) \in Seq(S)
         /\ IsInjective(Tail(s))
         /\ Range(Tail(s)) = Range(s) \ {Head(s)}
  <1>1. /\ Head(s) \in S /\ Tail(s) \in Seq(S)
        /\ Len(s) \in Nat /\ Len(s) > 0 /\ Len(Tail(s)) = Len(s) - 1
        /\ \A i \in 1 .. Len(Tail(s)) : Tail(s)[i] = s[i + 1]
    BY HeadTailProperties, EmptySeq, LenProperties
  <1>2. DOMAIN s = 1 .. Len(s) /\ DOMAIN Tail(s) = 1 .. Len(Tail(s)) /\ Head(s) = s[1]
    BY <1>1, LenProperties
  <1>3. IsInjective(Tail(s))
    BY <1>1, <1>2 DEF IsInjective
  <1>4. Head(s) \in Range(s)
    BY <1>1, <1>2 DEF Range
  <1>5. ASSUME NEW x \in Range(Tail(s)) PROVE x \in Range(s) \ {Head(s)}
    BY <1>1, <1>2, <1>5 DEF Range, IsInjective
  <1>6. ASSUME NEW x \in Range(s) \ {Head(s)} PROVE x \in Range(Tail(s))
    <2>1. PICK i \in 1 .. Len(s) : x = s[i]
      BY <1>2, <1>6 DEF Range
    <2>2. i - 1 \in 1 .. Len(Tail(s)) /\ Tail(s)[i - 1] = x
      BY <1>1, <1>2, <1>6, <2>1
    <2> QED
      BY <1>2, <2>2 DEF Range
  <1> QED
    BY <1>1, <1>3, <1>4, <1>5, <1>6

\* Appending an element that is not there yet.
LEMMA AppendToInjective ==
  ASSUME NEW S, NEW s \in Seq(S), NEW x \in S, IsInjective(s), x \notin Range(s)
  PROVE  /\ Append(s, x) \in Seq(S)
         /\ IsInjective(Append(s, x))
         /\ Range(Append(s, x)) = Range(s) \cup {x}
  <1> DEFINE t == Append(s, x)
  <1>1. /\ t \in Seq(S) /\ Len(s) \in Nat /\ Len(t) = Len(s) + 1
        /\ \A i \in 1 .. Len(s) : t[i] = s[i]
        /\ t[Len(s) + 1] = x
    BY AppendProperties, LenProperties
  <1>2. DOMAIN s = 1 .. Len(s) /\ DOMAIN t = 1 .. Len(s) + 1
    BY <1>1, LenProperties
  <1> HIDE DEF t
  <1>3. \A i \in 1 .. Len(s) : s[i] # x
    BY <1>2 DEF Range
  <1>4. IsInjective(t)
    <2>1. ASSUME NEW i \in 1 .. Len(s) + 1, NEW j \in 1 .. Len(s) + 1, t[i] = t[j]
          PROVE  i = j
      <3>1. CASE i \in 1 .. Len(s) /\ j \in 1 .. Len(s)
        BY <1>1, <1>2, <2>1, <3>1 DEF IsInjective
      <3>2. CASE i = Len(s) + 1 \/ j = Len(s) + 1
        BY <1>1, <1>3, <2>1, <3>2
      <3> QED
        BY <1>1, <3>1, <3>2
    <2> QED
      BY <1>2, <2>1 DEF IsInjective
  <1>5. Range(t) = Range(s) \cup {x}
    <2>1. ASSUME NEW y \in Range(t) PROVE y \in Range(s) \cup {x}
      BY <1>1, <1>2, <2>1 DEF Range
    <2>2. ASSUME NEW y \in Range(s) \cup {x} PROVE y \in Range(t)
      <3>1. CASE y = x
        BY <1>1, <1>2, <3>1 DEF Range
      <3>2. CASE y \in Range(s)
        BY <1>1, <1>2, <3>2 DEF Range
      <3> QED
        BY <2>2, <3>1, <3>2
    <2> QED
      BY <2>1, <2>2
  <1> QED
    BY <1>1, <1>4, <1>5 DEF t

\* A queue in the order of the numbers f stays so without its head, which has
\* the least of them.
LEMMA IncreasingTail ==
  ASSUME NEW S, NEW s \in Seq(S), s # <<>>, NEW f,
         \A i, j \in DOMAIN s : i < j => f[s[i]] < f[s[j]]
  PROVE  /\ \A i, j \in DOMAIN Tail(s) : i < j => f[Tail(s)[i]] < f[Tail(s)[j]]
         /\ \A x \in Range(Tail(s)) : f[Head(s)] < f[x]
  <1>1. /\ Head(s) = s[1] /\ Tail(s) \in Seq(S)
        /\ Len(s) \in Nat /\ Len(s) > 0 /\ Len(Tail(s)) = Len(s) - 1
        /\ \A i \in 1 .. Len(Tail(s)) : Tail(s)[i] = s[i + 1]
    BY HeadTailProperties, EmptySeq, LenProperties
  <1>2. DOMAIN s = 1 .. Len(s) /\ DOMAIN Tail(s) = 1 .. Len(s) - 1
    BY <1>1, LenProperties
  <1>3. ASSUME NEW i \in DOMAIN Tail(s), NEW j \in DOMAIN Tail(s), i < j
        PROVE  f[Tail(s)[i]] < f[Tail(s)[j]]
    <2>1. i + 1 \in DOMAIN s /\ j + 1 \in DOMAIN s /\ i + 1 < j + 1
      BY <1>1, <1>2, <1>3
    <2>2. Tail(s)[i] = s[i + 1] /\ Tail(s)[j] = s[j + 1]
      BY <1>1, <1>2
    <2> QED
      BY <2>1, <2>2
  <1>4. ASSUME NEW x \in Range(Tail(s)) PROVE f[Head(s)] < f[x]
    <2>1. PICK i \in DOMAIN Tail(s) : x = Tail(s)[i]
      BY <1>4 DEF Range
    <2>2. i + 1 \in DOMAIN s /\ 1 \in DOMAIN s /\ 1 < i + 1 /\ x = s[i + 1]
      BY <1>1, <1>2, <2>1
    <2> QED
      BY <1>1, <2>2
  <1> QED
    BY <1>3, <1>4

\* A queue in order stays so when what is appended has the greatest number.
LEMMA IncreasingAppend ==
  ASSUME NEW S, NEW s \in Seq(S), NEW x \in S, NEW f,
         \A i, j \in DOMAIN s : i < j => f[s[i]] < f[s[j]],
         \A y \in Range(s) : f[y] < f[x]
  PROVE  \A i, j \in DOMAIN Append(s, x) :
           i < j => f[Append(s, x)[i]] < f[Append(s, x)[j]]
  <1> DEFINE t == Append(s, x)
  <1>1. /\ Len(s) \in Nat /\ DOMAIN s = 1 .. Len(s) /\ DOMAIN t = 1 .. Len(s) + 1
        /\ \A i \in 1 .. Len(s) : t[i] = s[i]
        /\ t[Len(s) + 1] = x
    BY AppendProperties, LenProperties
  <1> HIDE DEF t
  <1>2. ASSUME NEW i \in DOMAIN t, NEW j \in DOMAIN t, i < j PROVE f[t[i]] < f[t[j]]
    <2>1. i \in DOMAIN s /\ t[i] = s[i]
      BY <1>1, <1>2
    <2>2. CASE j \in DOMAIN s
      BY <1>1, <1>2, <2>1, <2>2
    <2>3. CASE j = Len(s) + 1
      BY <1>1, <2>1, <2>3 DEF Range
    <2> QED
      BY <1>1, <2>2, <2>3
  <1> QED
    BY <1>2 DEF t

\* The empty queue.
LEMMA EmptyIsInjective == Range(<<>>) = {} /\ IsInjective(<<>>)
  BY DEF Range, IsInjective

\* The transport begins with its types.
LEMMA TransportInitType == TransportInit => TransportTypeOK
  <1> SUFFICES ASSUME TransportInit PROVE TransportTypeOK
    OBVIOUS
  <1> USE DEF TransportInit
  <1>1. Capacity \div 2 \in Nat
    BY TransportAssumption
  <1>2. pool \in Seq(Events)
    BY <1>1, IsASeq
  <1>3. alive \subseteq Events
    BY DEF Range
  <1>4. msg \in [Events -> 0 .. MaxArrivals]
    BY TransportAssumption
  <1> QED
    BY <1>2, <1>3, <1>4, TransportAssumption DEF TransportTypeOK

\* The callback keeps the types.
LEMMA CallbackType == TransportTypeOK /\ Callback => TransportTypeOK'
  <1> SUFFICES ASSUME TransportTypeOK, Callback PROVE TransportTypeOK'
    OBVIOUS
  <1> USE TransportAssumption DEF TransportTypeOK
  <1>1. ASSUME NEW kind \in Kinds, FillEvent(kind) PROVE TransportTypeOK'
    <2>1. hand' \in Events /\ pool' \in Seq(Events) /\ alive' \subseteq Events
      <3>1. CASE pool = <<>>
        BY <1>1, <3>1 DEF FillEvent
      <3>2. CASE pool # <<>>
        <4>1. Head(pool) \in Events /\ Tail(pool) \in Seq(Events)
          BY <3>2, HeadTailProperties
        <4> QED
          BY <1>1, <3>2, <4>1 DEF FillEvent
      <3> QED
        BY <3>1, <3>2
    <2>2. arrivals' \in Seq(Kinds) /\ Len(arrivals') = Len(arrivals) + 1
      BY <1>1, AppendProperties DEF FillEvent
    <2>3. Len(arrivals) \in Nat /\ Len(arrivals') \in 0 .. MaxArrivals
      BY <1>1, <2>2, LenProperties DEF FillEvent
    <2>4. msg' \in [Events -> 0 .. MaxArrivals]
      BY <1>1, <2>3 DEF FillEvent
    <2> QED
      BY <1>1, <2>1, <2>2, <2>3, <2>4 DEF FillEvent
  <1>2. CASE PushEvent
    <2>1. Append(input, hand) \in Seq(Events)
      BY <1>2, AppendProperties DEF PushEvent
    <2> QED
      BY <1>2, <2>1 DEF PushEvent
  <1> QED
    BY <1>1, <1>2 DEF Callback

\* Taking an Event off the input queue keeps the types.
LEMMA GetType == TransportTypeOK /\ HasInputEvent /\ GetInputEvent => TransportTypeOK'
  BY HeadTailProperties DEF TransportTypeOK, HasInputEvent, GetInputEvent, callbackVars

\* Giving an Event back keeps the types.
LEMMA ReturnType ==
  ASSUME NEW e \in Events, TransportTypeOK, ReturnInputEvent(e)
  PROVE  TransportTypeOK'
  <1>1. Append(pool, e) \in Seq(Events)
    BY AppendProperties DEF TransportTypeOK
  <1> QED
    BY <1>1 DEF TransportTypeOK, ReturnInputEvent, callbackVars

\* A step of another part of the program keeps the types of the transport.
LEMMA StutterType == TransportTypeOK /\ UNCHANGED transportVars => TransportTypeOK'
  BY DEF TransportTypeOK, transportVars, callbackVars

\* The destructors keep the types.
LEMMA CloseType ==
  TransportTypeOK /\ (Disconnect \/ DeletePool \/ DeleteInput) => TransportTypeOK'
  BY EmptySeq DEF TransportTypeOK, Disconnect, DeletePool, DeleteInput, callbackVars

-----------------------------------------------------------------------------
(* What the operations do to the places of the Events.                     *)

\* The Event in a variable, if there is one.
Held(e) == {e} \ {NoEvent}

\* The callback takes an Event from the pool, or one that is not allocated, and
\* gives it the number of the message that arrives.
LEMMA FillStep ==
  ASSUME TransportTypeOK, IsInjective(pool), NEW kind \in Kinds, FillEvent(kind)
  PROVE  /\ hand = NoEvent /\ hand' \in Events /\ hand' # NoEvent
         /\ IsInjective(pool')
         /\ \/ /\ hand' \in Range(pool) /\ Range(pool') = Range(pool) \ {hand'}
               /\ alive' = alive
            \/ hand' \notin alive /\ pool' = pool /\ alive' = alive \cup {hand'}
         /\ UNCHANGED <<input, leaked, connected>>
         /\ arrivals' = Append(arrivals, kind) /\ Len(arrivals) < MaxArrivals
         /\ msg' = [msg EXCEPT ![hand'] = Len(arrivals')]
  <1> USE TransportAssumption
  <1>1. CASE pool = <<>>
    BY <1>1 DEF FillEvent
  <1>2. CASE pool # <<>>
    <2>1. /\ Head(pool) \in Events /\ Head(pool) \in Range(pool)
          /\ IsInjective(Tail(pool)) /\ Range(Tail(pool)) = Range(pool) \ {Head(pool)}
      BY <1>2, TailOfInjective DEF TransportTypeOK
    <2> QED
      BY <1>2, <2>1 DEF FillEvent
  <1> QED
    BY <1>1, <1>2

\* The callback's Event goes to the end of the input queue, or nowhere.
LEMMA PushStep ==
  ASSUME TransportTypeOK, IsInjective(input), PushEvent, hand \notin Range(input)
  PROVE  /\ hand \in Events /\ hand # NoEvent /\ hand' = NoEvent
         /\ IsInjective(input')
         /\ \/ /\ input' = Append(input, hand) /\ Range(input') = Range(input) \cup {hand}
               /\ leaked' = leaked
            \/ input' = input /\ leaked' = leaked \cup {hand}
         /\ UNCHANGED <<alive, msg, pool, arrivals, connected>>
  <1>1. hand \in Events /\ hand # NoEvent
    BY DEF PushEvent, TransportTypeOK
  <1>2. /\ IsInjective(Append(input, hand))
        /\ Range(Append(input, hand)) = Range(input) \cup {hand}
    BY <1>1, AppendToInjective DEF TransportTypeOK
  <1> QED
    BY <1>1, <1>2 DEF PushEvent

\* The front of the input queue leaves it.
LEMMA GetStep ==
  ASSUME TransportTypeOK, IsInjective(input), HasInputEvent, GetInputEvent
  PROVE  /\ Head(input) \in Events /\ Head(input) \in Range(input)
         /\ input' = Tail(input) /\ IsInjective(input')
         /\ Range(input') = Range(input) \ {Head(input)}
         /\ UNCHANGED <<alive, msg, pool, hand, leaked, arrivals, connected>>
  BY TailOfInjective DEF TransportTypeOK, HasInputEvent, GetInputEvent, callbackVars

\* An Event given back is in the pool or deleted.
LEMMA ReturnStep ==
  ASSUME TransportTypeOK, IsInjective(pool), NEW e \in Events, e \notin Range(pool),
         ReturnInputEvent(e)
  PROVE  /\ IsInjective(pool')
         /\ \/ Range(pool') = Range(pool) \cup {e} /\ alive' = alive
            \/ Range(pool') = Range(pool) /\ alive' = alive \ {e}
         /\ UNCHANGED <<msg, input, hand, leaked, arrivals, connected>>
  <1>1. /\ IsInjective(Append(pool, e))
        /\ Range(Append(pool, e)) = Range(pool) \cup {e}
    BY AppendToInjective DEF TransportTypeOK
  <1> QED
    BY <1>1 DEF ReturnInputEvent, callbackVars
=============================================================================

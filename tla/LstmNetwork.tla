----------------------------- MODULE LstmNetwork ----------------------------
(***************************************************************************)
(* The LSTM network of littlelstm, abstracted to what each of its numbers  *)
(* depends on.                                                             *)
(*                                                                         *)
(* A number of the network is represented by the set of the training       *)
(* sequences whose inputs and targets it was calculated from, other than   *)
(* through the weights; a number that was set to a constant by {}.  The    *)
(* result of an addition or a multiplication depends on what both operands *)
(* depend on.  A weight is represented by the sequences its changes were   *)
(* calculated from.  The units, the connections and the gates, which are   *)
(* arguments of the constructor, are constants (LstmArchitecture has what  *)
(* lara gives it); the order of the calculations, on which it depends      *)
(* whether a value is this step's or the last one's, is the code's.        *)
(***************************************************************************)
EXTENDS Integers, Sequences, SequencesExt, FiniteSetsExt

CONSTANTS
  NetInputCount, NetOutputCount,  \* the units of the input and of the output layer
  UnitCount,      \* all of them
  Connections,    \* pairs of units: <<in, out>>
  Cells,          \* the units with a connection to themselves
  SelfConnGater,  \* the gate of that connection
  GatedConns      \* the gates of the others: pairs of a gate and a connection

BiasId == NetInputCount
FirstOutputId == UnitCount - NetOutputCount
Units == 0 .. UnitCount - 1
InputIds == 0 .. NetInputCount - 1
OutputIds == FirstOutputId .. UnitCount - 1

ASSUME NetworkAssumption ==
  /\ {NetInputCount, NetOutputCount, UnitCount} \subseteq Nat \ {0} /\ BiasId < FirstOutputId
  /\ Connections \subseteq Units \X Units /\ Cells \subseteq Units
  /\ SelfConnGater \in [Cells -> Units]
  /\ GatedConns \subseteq Units \X Connections

Incoming(id) == {i \in Units : <<i, id>> \in Connections}

\* _gaters: the gate with the largest id, which the constructor comes to last
Gaters(conn) == {g \in Units : <<g, conn>> \in GatedConns}
Gater == [conn \in {gc[2] : gc \in GatedConns} |-> Max(Gaters(conn))]
\* _gated_sets and _projection_sets
GatedSet == [j \in Units |-> {k \in Units : j < k /\ \E i \in Units : <<j, <<i, k>>>> \in GatedConns}]
ProjectionSet == [j \in Units |-> {k \in Units : j < k /\ <<j, k>> \in Connections}]
\* The places of _ext_traces that are used: <<k, j, i>>.
ExtTraces ==
  UNION {{<<k, j, i>> : k \in GatedSet[j], i \in Incoming(j)} : j \in Units}

-----------------------------------------------------------------------------
(* A network is a record of its arrays; those of connections are indexed   *)
(* <<in, out>>, the opposite of the code.  _input, _output, _conn_gains and *)
(* the like are recomputed from scratch by each call that uses them.       *)

NewNetwork ==
  [states |-> [u \in Units |-> {}], oldStates |-> [u \in Units |-> {}],
   activations |-> [u \in Units |-> {}],
   selfConnGains |-> [c \in Cells |-> {}],
   connGains |-> [conn \in DOMAIN Gater |-> {}],
   rightTermSums |-> [conn \in DOMAIN Gater |-> {}],
   traces |-> [conn \in Connections |-> {}],
   extTraces |-> [x \in ExtTraces |-> {}],
   weights |-> [conn \in Connections |-> {}],
   oldWeightChanges |-> [conn \in Connections |-> {}]]

\* Slip: the states are kept.
ZeroNetworkActivations(net) ==
  [net EXCEPT !.activations = [u \in Units |-> {}],
              !.oldWeightChanges = [conn \in Connections |-> {}]]

\* zero_network
ZeroNetwork(net) ==
  [net EXCEPT !.states = [u \in Units |-> {}],
              !.activations = [u \in Units |-> {}],
              !.oldWeightChanges = [conn \in Connections |-> {}]]

\* The body of the loop of calculate_activations.
Activate(net, id) ==
  LET selfGain == IF id \in Cells THEN net.activations[SelfConnGater[id]] ELSE {}
      gated == {i \in Incoming(id) : <<i, id>> \in DOMAIN Gater}
      gain == [i \in Incoming(id) |->
                 IF i \in gated THEN net.activations[Gater[<<i, id>>]] ELSE {}]
      into == [i \in Incoming(id) |-> gain[i] \cup net.activations[i]]
      sum == (UNION {into[i] : i \in Incoming(id)})
               \cup (IF id \in Cells THEN selfGain \cup net.oldStates[id] ELSE {})
  IN  [net EXCEPT
         !.selfConnGains = [c \in Cells |-> IF c = id THEN selfGain ELSE @[c]],
         !.connGains = [conn \in DOMAIN Gater |->
                          IF conn[2] = id THEN gain[conn[1]] ELSE @[conn]],
         !.rightTermSums = [conn \in DOMAIN Gater |->
                              IF conn[2] = id THEN net.activations[conn[1]] ELSE @[conn]],
         !.traces = [conn \in Connections |->
                       IF conn[2] # id THEN @[conn]
                       ELSE into[conn[1]] \cup
                              IF id \in Cells THEN selfGain \cup @[conn] ELSE {}],
         !.states[id] = sum,
         !.activations[id] = sum]

\* feed_forward; input: what the input depends on.
FeedForward(net, input) ==
  FoldLeft(Activate,
           [net EXCEPT !.activations = [u \in Units |-> IF u \in InputIds THEN input ELSE @[u]],
                       !.states = net.oldStates, !.oldStates = net.states],
           [n \in 1 .. UnitCount - BiasId - 1 |-> BiasId + n])

\* _right_term_sums[j][k]
RightTermSum(net, j, k) ==
  UNION {net.rightTermSums[conn] : conn \in {c \in DOMAIN Gater : c[2] = k /\ Gater[c] = j}}

\* The old state that the gate j of k's connection to itself multiplies.
GatedState(net, j, k) ==
  IF k \in Cells /\ SelfConnGater[k] = j THEN net.oldStates[k] ELSE {}

\* calculate_extended_eligibility_traces
ExtendedTraces(net) ==
  [x \in ExtTraces |->
     LET k == x[1]  j == x[2]  i == x[3]
     IN  (IF k \in Cells THEN net.selfConnGains[k] \cup net.extTraces[x] ELSE {})
           \cup net.activations[j] \cup net.traces[<<i, j>>]
           \cup GatedState(net, j, k) \cup RightTermSum(net, j, k)]

\* The body of the loop of calculate_error_responsibilities: resp has the
\* responsibilities of the units after id, that for what they project to and in all.
Responsible(net, resp, id) ==
  LET gain(p) == IF <<id, p>> \in DOMAIN Gater THEN net.connGains[<<id, p>>] ELSE {}
      projected == UNION {resp[p].all \cup gain(p) : p \in ProjectionSet[id]}
      gated == UNION {resp[k].all \cup GatedState(net, id, k) \cup RightTermSum(net, id, k)
                      : k \in GatedSet[id]}
      times(s) == IF s = {} THEN {} ELSE s \cup net.activations[id]
  IN  [resp EXCEPT ![id] = [proj |-> times(projected),
                            all |-> times(projected) \cup times(gated)]]

Responsibilities(net, target) ==
  FoldLeft(LAMBDA resp, id : Responsible(net, resp, id),
           [u \in Units |-> [proj |-> {}, all |-> IF u \in OutputIds
                                                  THEN target \cup net.activations[u] ELSE {}]],
           [n \in 1 .. FirstOutputId - BiasId - 1 |-> FirstOutputId - n])

\* update_weights: what a weight's change depends on.
WeightChange(net, resp, conn) ==
  LET i == conn[1]  id == conn[2]
  IN  IF id \in OutputIds
      THEN resp[id].all \cup net.activations[id] \cup net.activations[i]
             \cup (IF conn \in DOMAIN Gater THEN net.connGains[conn] ELSE {})
      ELSE resp[id].proj \cup net.traces[conn] \cup net.oldWeightChanges[conn]
             \cup UNION {resp[k].all \cup net.extTraces[<<k, id, i>>] : k \in GatedSet[id]}

\* backpropagate; target: what the target depends on.
Backpropagate(net, target) ==
  LET traced == [net EXCEPT !.extTraces = ExtendedTraces(net)]
      resp == Responsibilities(traced, target)
      change == [conn \in Connections |-> WeightChange(traced, resp, conn)]
  IN  [traced EXCEPT !.weights = [conn \in Connections |-> @[conn] \cup change[conn]],
                     !.oldWeightChanges = change]
=============================================================================

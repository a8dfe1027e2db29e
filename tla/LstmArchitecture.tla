-------------------------- MODULE LstmArchitecture --------------------------
(***************************************************************************)
(* The units of an LSTM network, their connections and the gates on them,  *)
(* as LstmArchitecture makes them from the size of the layers.  The hidden *)
(* layers consist of blocks of an input gate, a forget gate, an output     *)
(* gate and a cell, numbered in this order after the input and the bias;   *)
(* the outputs come last.  It has the default connections, which are all   *)
(* lara ever asks for.                                                     *)
(***************************************************************************)
EXTENDS Integers, Sequences, SequencesExt

CONSTANTS
  Inputs,       \* the number of units of the input layer
  Outputs,      \* the number of units of the output layer
  BlockCounts   \* the number of blocks of each hidden layer

BlocksBefore(h) == FoldLeft(+, 0, SubSeq(BlockCounts, 1, h - 1))
Layers == 1 .. Len(BlockCounts)
BlocksOf(h) == BlocksBefore(h) .. BlocksBefore(h + 1) - 1
Blocks == UNION {BlocksOf(h) : h \in Layers}

BiasId == Inputs
InputGate(b) == BiasId + 1 + 4 * b
ForgetGate(b) == InputGate(b) + 1
OutputGate(b) == InputGate(b) + 2
Cell(b) == InputGate(b) + 3
FirstOutputId == BiasId + 1 + 4 * BlocksBefore(Len(BlockCounts) + 1)
TotalUnits == FirstOutputId + Outputs

InputIds == 0 .. Inputs - 1
OutputIds == FirstOutputId .. TotalUnits - 1
GatesOf(h) == UNION {{InputGate(b), ForgetGate(b), OutputGate(b)} : b \in BlocksOf(h)}
CellsOf(h) == {Cell(b) : b \in BlocksOf(h)}
CellIds == {Cell(b) : b \in Blocks}

\* The outputs are connected to the last hidden layer only: the
\* configuration of the output layer has weights for no other.
AddedConnections ==
  (UNION {   (InputIds \cup {BiasId} \cup GatesOf(h)) \X (GatesOf(h) \cup CellsOf(h))
        \cup {c \in CellsOf(h) \X (GatesOf(h) \cup CellsOf(h)) : c[1] # c[2]}
        \cup (IF h = 1 THEN {} ELSE CellsOf(h - 1)) \X (GatesOf(h) \cup CellsOf(h))
        : h \in Layers})
  \cup (CellsOf(Len(BlockCounts)) \cup {BiasId}) \X OutputIds

\* _gated_cell_inputs and _gated_cell_outputs
GatedInputs(h, b) ==
  {<<i, Cell(b)>> : i \in InputIds \cup {BiasId} \cup GatesOf(h)
                            \cup (IF h = 1 THEN {} ELSE CellsOf(h - 1))}
GatedOutputs(h, b) ==
  {c \in AddedConnections : c[1] = Cell(b) /\ c[2] \notin GatesOf(h) \cup CellsOf(h)}

\* What add_self_gate is called with.
SelfGates == [c \in CellIds |-> c - Cell(0) + ForgetGate(0)]

\* What add_gate is called with: pairs of a gate and a connection.
Gates ==
  UNION {({InputGate(b)} \X GatedInputs(h, b)) \cup ({OutputGate(b)} \X GatedOutputs(h, b))
         : <<h, b>> \in {hb \in Layers \X Blocks : hb[2] \in BlocksOf(hb[1])}}
=============================================================================

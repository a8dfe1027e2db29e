CONSTANTS
  Nil = Nil
  Constructions <- MCConstructions
  MaxBlocks = 6
  MaxEnqueues = 7
SPECIFICATION Spec
INVARIANTS TypeOK AssertionsHold NoSlotRace
PROPERTIES PeekPromises NoEarlyAllocation ImplementsFifo

CONSTANTS
  Events = {e1, e2, e3, e4}
  NoEvent = NoEvent
  Capacity = 2
  Kinds <- MCKinds
  MaxArrivals = 3
SPECIFICATION Spec
INVARIANTS TypeOK EventsAccountedFor OnlyForeignControllersLeak RecordedInOrder
PROPERTY ShutdownCompletes

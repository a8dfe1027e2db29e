CONSTANTS
  Events = {e1, e2}
  NoEvent = NoEvent
  Capacity = 1
  Kinds <- MCKinds
  MaxArrivals = 3
  Ctrls = {c1, c2}
  NetCtrls = {c1}
  Vals <- MCVals
  NeverSent = NeverSent
  Period = 1
  MaxTime = 2
SPECIFICATION FairSpec
INVARIANTS TypeOK EventsAccountedFor MessagesDelivered NothingLeftAtExit
PROPERTIES ControlsPrecedeNotes UpdateSpacing NotesEventuallyPlayed ShutdownCompletes

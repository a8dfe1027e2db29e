CONSTANTS
  Events = {e1, e2, e3}
  NoEvent = NoEvent
  Capacity = 2
  Kinds <- MCKinds
  MaxArrivals = 2
  Ctrls = {c1}
  NetCtrls = {c1}
  Vals <- MCVals
  NeverSent = NeverSent
  Period = 1
  MaxTime = 1
SPECIFICATION FairSpec
PROPERTY EachNoteItsOwnControls

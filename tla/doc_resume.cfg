SPECIFICATION FairSpec
CONSTANTS
  MaxBytes = 4
  InboxMax = 4
  BatchLimit = 2
  BodyMax = 1
  MaxEvents = 3
  MaxFaults = 0
PROPERTY EventsAreApplied

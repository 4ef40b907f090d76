SPECIFICATION FairSpec
CONSTANTS
  MaxBytes = 2
  InboxMax = 3
  BatchLimit = 2
  BodyMax = 2
  MaxEvents = 3
  MaxFaults = 4
INVARIANTS NothingLost SameEvents AckedIsApplied AgentCanResume
PROPERTIES AppliedInOrder EventsAreApplied

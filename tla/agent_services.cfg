SPECIFICATION AgentSpec
CONSTANTS
  WhInboxes <- MCInboxes
  WhRetries = 1
  MaxWhFaults = 3
  Emitters = {e1, e2}
  Criticals = {p1, p2}
  NoThread = NoThread
  QueueSize = 1
  EmitsEach = 2
  Players = {u1}
  MaxRounds = 2
  MaxFrames = 2
  MaxFaults = 2
CHECK_DEADLOCK FALSE
INVARIANTS PassedIsDelivered RepeatsAreExcused FinalRankShown RecordingNotLost FramesFindTheirRecording RemovedIsUploaded
PROPERTIES CriticalReturns ScheduledIsUploaded

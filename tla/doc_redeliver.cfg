SPECIFICATION AgentSpec
CONSTANTS
  WhInboxes <- MCInboxes
  WhRetries = 0
  MaxWhFaults = 2
  Emitters = {e1}
  Criticals = {p1}
  NoThread = NoThread
  QueueSize = 1
  EmitsEach = 1
  Players = {u1}
  MaxRounds = 1
  MaxFrames = 1
  MaxFaults = 0
CHECK_DEADLOCK FALSE
INVARIANT CompletedStaysCompleted

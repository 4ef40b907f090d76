SPECIFICATION FairClientSpec
CONSTANTS
  User = {1, 2, 3}
  RoomId = {a}
  None = None
  MaxUsers = 2
  Ptr = {p}
  Monitors = {}
  MaxRooms = 0
  PlayingGrace = TRUE
INVARIANTS TypeOK RegisteredHost WaitHasCountdown ResultHasDeadline MembershipAgrees
PROPERTIES WaitEnds ScoredRoundEnds RoundEndsWhenDone

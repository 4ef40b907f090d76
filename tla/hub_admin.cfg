SPECIFICATION AdminSpec
CONSTANTS
  User = {1, 2, 3}
  RoomId = {a}
  None = None
  MaxUsers = 2
  Ptr = {p}
  Monitors = {3}
  MaxRooms = 0
  PlayingGrace = TRUE
INVARIANTS RegisteredHost WatchedIsLive

SPECIFICATION KickSpec
CONSTANTS
  User = {1, 2}
  RoomId = {a}
  None = None
  MaxUsers = 2
  Ptr = {p, q}
  Monitors = {}
  MaxRooms = 0
  PlayingGrace = FALSE
PROPERTY NobodyIsStranded

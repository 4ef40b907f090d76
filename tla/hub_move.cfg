SPECIFICATION MoveSpec
CONSTANTS
  User = {1, 2, 3}
  RoomId = {a, b}
  None = None
  MaxUsers = 2
  Ptr = {p, q}
  Monitors = {}
  MaxRooms = 0
  PlayingGrace = TRUE
SYMMETRY PtrSymmetry
INVARIANTS MembersPointBack

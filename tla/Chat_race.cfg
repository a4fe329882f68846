CONSTANTS
  Conns = {c1, c2, c3}
  Backend = b
  Pairs <- ChatPairs
  Rooms = {r1, r2}
  Commands = {leave}
  leave = leave
  MaxMsgs = 2
  MaxMoves = 4
  Paced = FALSE
SPECIFICATION Spec
INVARIANT HearsOwnRoom
CHECK_DEADLOCK FALSE

\* Two endpoints and the session cleanup overlap; Redis fails or a key expires once.
CONSTANTS
  Pairs = {p1, p2, p3, p4}
  Resets = {r1}
  Pool = {t1, t2}
  Worker = w
  MaxCalls = 4
  MaxEvents = 1
SYMMETRY Symmetry
SPECIFICATION Spec
INVARIANTS TypeOK RefreshTokenIsSpent OpenSessionIsIndexed MemoryIsIndexed
 
CHECK_DEADLOCK FALSE

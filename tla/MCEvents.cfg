SPECIFICATION EventSpec
CONSTANTS
  Req = {"a", "b", "c"}
  Delay = {1, 3, 6, 9}
  TICK = 2
  FREQUENCY = 1
  WIDTH = 8
  MAX_TICKS = 2
INVARIANTS EventsKept
PROPERTIES EventDelivered

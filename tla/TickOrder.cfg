SPECIFICATION TickSpec
CONSTANTS
  HalfRange = 4
  MaxTicks = 9
INVARIANT TicksAreMonotonic
CHECK_DEADLOCK FALSE

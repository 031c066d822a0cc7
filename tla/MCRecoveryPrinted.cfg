\* The recovery measurement against what the report says of it.
CONSTANTS
  HalfSpan = 9
  ResetPeriod = 19
  PeriodHigh = 1
  CounterSpan = 18
  PowerUp = {7}
  Lines = {1, 2}
  Outside = {2}
  Leftover = {{2}}
  TickSpan = 3
  ticks_per_second = 1
  Pause = 2
  Gap = 1
  Crossing = 3
SPECIFICATION Spec
INVARIANT PrintsThePolledValue

\* Progress of the five programs, a little smaller.
CONSTANTS
  HalfSpan = 8
  ResetPeriod = 18
  PeriodHigh = 1
  CounterSpan = 18
  PowerUp = {7}
  Lines = {1, 2}
  Outside = {2}
  Leftover = {{2}}
  TickSpan = 3
  ticks_per_second = 1
  Pause = 2
  Gap = 1
  Crossing = 2
SPECIFICATION FairSpec
PROPERTIES  MeasuresForEver

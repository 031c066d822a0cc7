\* The two counter programs over the shared slaves, with resets.
CONSTANTS
  CPU = {0, 1}
  CounterSpan = 8
  LedSpan = 4
SPECIFICATION FairSpec
INVARIANTS IInv MutualExclusion
PROPERTIES EveryCountIsShown ShownValueIsCurrent LedsKeepCounting

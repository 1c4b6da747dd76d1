SPECIFICATION FairSpec
CONSTANTS
  Counters <- SmallCounters
  MaxQueue = 2
  MaxLag = 3
INVARIANTS TaskFollowsGuest NoPeriodLost OneStaleInterrupt
PROPERTIES RepeatingFires

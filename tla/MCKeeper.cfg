SPECIFICATION FairSpec
CONSTANTS
  k1 = k1
  listing = listing
  auction = auction
  none = none
  Keepers <- MCKeepers
  Targets <- MCTargets
  Auctions <- MCAuctions
  None = none
  MaxActions = 1
  MaxBumps = 1
  MaxTime = 1
  MaxTx = 2
INVARIANT RecordsTellChain
PROPERTIES FinishedTargetsLeftAlone CyclesEnd

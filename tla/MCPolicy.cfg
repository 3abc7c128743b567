CONSTANTS
  a = a
  b = b
  c = c
  n1 = n1
  n2 = n2
  Contract = Contract
  None = None
  Users <- Two
  Nfts <- TwoNfts
  MaxTime = 1
  PauseInputs = {TRUE, FALSE}
  WhitelistInputs = {TRUE, FALSE}
  Revocable <- Artist
  Collectors <- Artist
  Reconciled <- Artist
  MaxListings = 2
  MaxOffers = 1
  MaxOffersPerListing = 2
  Prices = {1}
  Amounts = {1}
  Deadlines <- NeverExpire
  Reservations <- Exclusive
SPECIFICATION LSpec
INVARIANTS ListingCustody ActiveIndexExact SweepComplete
PROPERTIES TransitionsDeliver PauseStopsDeposits

CONSTANTS
  a = a
  b = b
  c = c
  n1 = n1
  n2 = n2
  Contract = Contract
  None = None
  Users <- Three
  Nfts <- TwoNfts
  MaxTime = 1
  PauseInputs = {TRUE, FALSE}
  WhitelistInputs = {TRUE, FALSE}
  Revocable = {}
  Collectors = {}
  Reconciled = {}
  MaxListings = 1
  MaxOffers = 1
  MaxOffersPerListing = 2
  Prices = {1}
  Amounts = {1}
  Deadlines <- NeverExpire
  Reservations = {}
  MaxAuctions = 1
  BidAmounts = {1, 2}
  Durations = {1}
  MaxTotalExtension = 1
  MaxBlockedBidders = 1
  Blockable <- Rival
  AuctionConfigs <- Plain
SPECIFICATION Spec
INVARIANTS RecordsMatchCustody OneSalePerNft MarketConservation

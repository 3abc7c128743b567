CONSTANTS
  a = a
  b = b
  c = c
  n1 = n1
  n2 = n2
  Contract = Contract
  None = None
  Users <- Three
  Nfts <- OneNft
  MaxTime = 1
  PauseInputs = {}
  WhitelistInputs = {}
  Revocable = {}
  Collectors = {}
  Reconciled = {}
  MaxListings = 1
  MaxOffers = 3
  MaxOffersPerListing = 2
  Prices = {1}
  Amounts = {1, 2}
  Deadlines <- MayExpire
  Reservations = {}
SPECIFICATION LSpec
INVARIANT EscrowConservation

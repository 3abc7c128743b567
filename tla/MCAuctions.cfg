CONSTANTS
  a = a
  b = b
  c = c
  n1 = n1
  Contract = Contract
  None = None
  Users <- Three
  Nfts <- OneNft
  MaxTime = 3
  PauseInputs = {}
  WhitelistInputs = {}
  Revocable = {}
  Collectors = {}
  MaxAuctions = 2
  BidAmounts = {1, 2, 3}
  Durations = {2}
  MaxTotalExtension = 1
  MaxBlockedBidders = 1
  Blockable = {}
  AuctionConfigs <- Extending
SPECIFICATION ASpec
INVARIANTS AuctionCustody BidsBacked BidHistorySound ExtensionsBounded BidsMeetReserve
PROPERTIES AuctionsSettle

\* Two clients take turns on each of two portfolios of two coins; nothing fails.
CONSTANTS
  Portfolios <- MCPortfolios2
  Coins = {btc, eth}
  Prices <- MCPrices
  Amounts = {0, 3}
  Capitals = {4}
  Rates = {2, 4}
  Scale = 2
  Clients = {c1, c2}
  Exchanges = {"binance", "upbit"}
  KrwExchanges = {"upbit"}
  MinKrwPrice <- MCMinKrwPrice
  RateOf <- MCRateOf
  Unknown = "unknown"
  LastProtected = 1
  DefaultCapital = 4
  Served = {"trade", "status", "create", "delete", "add", "reset", "remove"}
  Exclusive = TRUE
  MaxRequests = 3
  MaxFaults = 0
SPECIFICATION Spec
INVARIANTS LedgerChain StateMatchesLedger AvgCostIsBookCost
PROPERTY ImplementsLedger
SYMMETRY Sym
CHECK_DEADLOCK FALSE

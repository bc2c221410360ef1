\* Two trades of one portfolio at a time.
CONSTANTS
  Portfolios <- MCPortfolios1
  Coins = {btc}
  Prices <- MCPrices
  Amounts = {0, 3}
  Capitals = {4}
  Rates = {2, 4}
  Scale = 2
  Clients = {c1, c2}
  Exchanges = {"binance", "upbit"}
  KrwExchanges = {"upbit"}
  MinKrwPrice <- MCMinKrwPrice
  RateOf <- MCRateOf
  Unknown = "unknown"
  LastProtected = 0
  DefaultCapital = 4
  Served = {"trade"}
  Exclusive = FALSE
  MaxRequests = 3
  MaxFaults = 0
SPECIFICATION Spec
INVARIANT LedgerChain
CHECK_DEADLOCK FALSE

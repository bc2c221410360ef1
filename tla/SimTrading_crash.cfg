\* One trade at a time, and a statement may fail or the process die.
CONSTANTS
  Portfolios <- MCPortfolios1
  Coins = {btc}
  Prices <- MCPrices
  Amounts = {0, 3}
  Capitals = {4}
  Rates = {2, 4}
  Scale = 2
  Clients = {c1, c2}
  Exchanges = {"binance", "upbit"}
  KrwExchanges = {"upbit"}
  MinKrwPrice <- MCMinKrwPrice
  RateOf <- MCRateOf
  Unknown = "unknown"
  LastProtected = 0
  DefaultCapital = 4
  Served = {"trade"}
  Exclusive = TRUE
  MaxRequests = 3
  MaxFaults = 1
SPECIFICATION Spec
INVARIANT StateMatchesLedger
CHECK_DEADLOCK FALSE

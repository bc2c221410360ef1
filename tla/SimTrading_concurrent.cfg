\* Any two requests interleave, and a statement may fail or the process die.
CONSTANTS
  Portfolios <- MCPortfolios1
  Coins = {btc}
  Prices <- MCPrices
  Amounts = {0, 3}
  Capitals = {4}
  Rates = {2, 4}
  Scale = 2
  Clients = {c1, c2}
  Exchanges = {"binance", "upbit"}
  KrwExchanges = {"upbit"}
  MinKrwPrice <- MCMinKrwPrice
  RateOf <- MCRateOf
  Unknown = "unknown"
  LastProtected = 0
  DefaultCapital = 4
  Served = {"trade", "status", "create", "delete", "add", "reset", "remove"}
  Exclusive = FALSE
  MaxRequests = 4
  MaxFaults = 1
SPECIFICATION Spec
INVARIANTS TypeOK PositionMatchesUnits
PROPERTY UpdateIsBooked
SYMMETRY Sym
CHECK_DEADLOCK FALSE

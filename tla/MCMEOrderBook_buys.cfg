CONSTANTS
  ME_MAX_NUM_CLIENTS = 1
  ME_MAX_ORDER_IDS = 4
  ME_MAX_PRICE_LEVELS = 4
  Null = Null
  Wild = Wild
  FreshPrices <- ZeroedPrices
  FreshIds <- ZeroedIds
  NullLevelRead = {"reads_null"}
  RequestIds = {0}
  Prices = {1, 2, 3}
  Quantities = {1, 2}
  ClientsReuseIds = TRUE
  MaxMarketOrderId = 3
SPECIFICATION Spec
INVARIANT
  BuysAreSorted

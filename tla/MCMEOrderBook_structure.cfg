CONSTANTS
  ME_MAX_NUM_CLIENTS = 1
  ME_MAX_ORDER_IDS = 4
  ME_MAX_PRICE_LEVELS = 3
  Null = Null
  Wild = Wild
  FreshPrices <- SomePrices
  FreshIds <- SomeIds
  NullLevelRead = {"segv", "reads_null"}
  RequestIds = {0}
  Prices = {1, 2}
  Quantities = {1, 2}
  ClientsReuseIds = TRUE
  MaxMarketOrderId = 4
SPECIFICATION Spec
INVARIANTS
  TypeOK
  EveryOrderInItsRing
  FirstInFirstOut
  SubscriberHasTheBook
PROPERTY
  EachTurnFills

CONSTANTS
  ME_MAX_NUM_CLIENTS = 2
  ME_MAX_ORDER_IDS = 3
  ME_MAX_PRICE_LEVELS = 3
  Null = Null
  Wild = Wild
  FreshPrices <- SomePrices
  FreshIds <- OneWildId
  NullLevelRead = {"reads_null"}
  RequestIds = {0, 1}
  Prices = {1, 2, 4}
  Quantities = {1}
  ClientsReuseIds = FALSE
  MaxMarketOrderId = 3
SPECIFICATION Spec
INVARIANTS
  LevelsAreMapped
  HandlesAreLive
  CancelLeavesNoOrder
  EveryOrderInItsRing

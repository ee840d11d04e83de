CONSTANTS
  None = None
  Tickers = {"NVDA"}
  MaxDay = 1
  MaxQty = 2
  Watched = {}
  MaxCrashes = 1
  MaxPolls = 0
  MaxCalls = 1
  DbFaults = FALSE
SPECIFICATION FairSpec
PROPERTIES OrdersAreSettled ApprovedIsSettled

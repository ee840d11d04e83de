CONSTANTS
  None = None
  Tickers = {"NVDA"}
  MaxDay = 1
  MaxQty = 2
  Watched = {"ticket_open_after_exec", "fill_on_unapproved_decision", "order_unreconciled", "order_unresolved_at_cap"}
  MaxCrashes = 2
  MaxPolls = 1
  MaxCalls = 2
  DbFaults = TRUE
SPECIFICATION Spec
INVARIANTS TypeOK OnlyAuthorizedOrders BooksNeverAhead OneFillPerOrder
INVARIANTS UnexecutedTicketIsLoud ConsumedHasOrder WhollyBooked
INVARIANTS ExpiredFillIsLoud OpenOrderIsLoud
PROPERTIES ApprovedTermsFrozen TradesOnItsDay

CONSTANTS
  a = a
  b = b
  NaN = NaN
  None = None
  Tickers = {a, b}
  Price <- OneDollar
  BookCorr = 5
  MaxPositions = 1
  Seats = {"analyst"}
  Asks <- PmAsks
  Opening <- FlatOnly
  Quotes <- Markets
  MaxFires = 1
  MaxFaults = 0
SPECIFICATION Spec
INVARIANT FirmLimits
CHECK_DEADLOCK FALSE
